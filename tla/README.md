# A TLA+ model of cloud-storage

cloud-storage is a file-sharing web server in C++. It is built on its own
reactor library (event loop, channels, pollers, timers, buffered TCP
connections), with an HTTP server on top and one application class,
`HttpUploadHandler` in `app/HttpUploader.hpp`, that serves uploads, downloads,
users, sessions and shares from a MySQL database and the directory `uploads/`.

This directory holds TLA+ modules translated from that code, TLC
configurations that check them on small instances, and TLAPS proofs for every
value of the constants. `PROJECT.json` maps each definition to its source
lines, and lists runs, hazards, findings and theorems.

To repeat the checks:

    tlc -workers 2 -config MCFileStore.cfg MCFileStore
    tlapm FileStoreProofs.tla

## 1. Inventory

`app/main.cpp` makes one `EventLoop`, one `HttpServer` with `setThreadNum(0)`
and one `HttpUploadHandler`. Every handler and callback therefore runs on one
thread. A `ThreadPool` of four threads is started and is given no task. The
library, however, is written for several loops and for calls from other
threads, and where that matters the models cover it.

### EventLoop, Channel, pollers

* State: the functor queue, the events a channel asks for (`events_`) and last
  got (`revents_`), the poller's record of it (`index_`: new, added, deleted),
  `quit_`.
* Operations: poll, handle the active channels, swap the functor queue out and
  run it; `runInLoop`/`queueInLoop` from any thread; update and remove a channel.
* Hard: `revents_` is used after an earlier callback has changed everything; a
  functor queued by a functor runs one iteration later, when its object may be
  in another state; `quit()` before `loop()` is lost.
* Correct when: no assert fails, a channel is removed once and with no events.

### TcpConnection, TcpServer, Acceptor

* State: `state_` (connecting, connected, disconnecting, disconnected), the
  output buffer, the server's map of connections.
* Operations: `send`, `shutdown`, `forceClose`; `handleRead/Write/Close/Error`;
  `connectEstablished/Destroyed`; `newConnection`, `removeConnection`.
* Hard: `handleWrite` has three callers (the event, the end of `sendInLoop`,
  a functor it queues itself), `handleClose` four; removal goes through the
  server's loop and back; `state_` is written by other threads unsynchronised.
* Correct when: the stream is neither reordered nor repeated, the half close
  follows the last byte, `EPOLLOUT` is asked for exactly while output is
  buffered, a connection goes down once and is then released, and every send is
  acknowledged by a write-complete callback (downloads rest on it).

### TimerQueue, Timer, TimeStamp

* State: two ordered sets of the same timers, the set of timers cancelled by
  running callbacks, heap objects, the timerfd.
* Operations: `addTimer` and `cancel`, at once on the loop's thread and by a
  queued functor from others; `handleRead`, `reset`.
* Hard: callbacks add and cancel timers while the batch is being run, an
  address is reused while an old `TimerId` still names it, `addTimer` in another
  thread reads a Timer it has handed over, a cancel may overtake the functor that
  adds its timer, the timerfd has to be set again after each batch.
* Correct when: the sets agree, each Timer has one owner, a cancel is not lost,
  a `TimerId` names its Timer, and timers expire.

### HTTP server and upload

* State: `HttpContext`'s parser state, the body collected so far, the
  `FileUploadContext` kept from one chunk to the next.
* Operations: `onMessage` on each read: parse, call the handler early when 1 MB
  of body is there, call it again at the end, answer and reset.
* Hard: TCP cuts a request anywhere, also inside headers and the boundary; the
  response of an early call is dropped; the session may end, and writes, flushes
  or the INSERT may fail, half way.
* Correct when: the body is put together once and in order, a request is
  answered once, the file holds what was sent, its row has its size.

### Users, sessions, files, shares

* State: the tables `users`, `sessions`, `files`, `file_shares`
  (`file_keeper.sql`), the directory `uploads/`, uploads in progress.
* Operations: register, login, logout, upload, delete, share, set private; the
  readers list, download, share download, share info and share access.
* Hard: no transaction, so each statement may fail alone and the process may die
  in between; several handlers repeat the same permission check in their own
  words, and find the session in different places; results of some statements
  are ignored.
* Correct when: no row without its file, no share without its file or by
  somebody who does not own it, no download that the shares do not justify, no
  file that is lost, none that is left on the disk without a reason, and nothing
  listed or shown that the downloads then refuse.

### Download

* State: a `FileDownContext` per answer (position, size), the connection's
  write-complete callback, the functors already bound to an older one.
* Operations: a handler answers with a header; every write-complete callback
  reads and sends the next chunk, the last one shuts the connection down.
* Hard: the end of the file is marked by the half close only; the chain breaks
  if one callback is lost and forks if there is one too many; the next request
  on the connection replaces the callback.
* Correct when: the client gets the file in order, the half close follows its
  last byte, and the download comes to its end.

### EventLoopThread, EventLoopThreadPool

* State: `loop_` of each thread (a pointer to an object on that thread's stack),
  `quit_`, the pending functors.
* Hard: `loop()` clears `quit_`, so an early `quit()` is lost; the destructor
  reads `loop_` unlocked; functors are queued while a batch runs.
* Correct when: `start` and `stop` return, all threads end, functors run once
  and in order.

### ThreadPool, Thread, CountDownLatch, PCondition

* State: the bounded queue, `running_`, who waits on which condition variable.
* Hard: lost wake-ups, `stop()` among waiting workers and producers.
* Correct when: it is a task pool (`TaskPool`), and every call returns.

### AsyncLogging, LogFile

* State: the front end's current, next and full buffers, the back end's two
  spare ones and those it writes, the log file with its counters.
* Hard: buffers change hands at any point of the other side's work; too many
  are thrown away; files are rolled while lines are under way.
* Correct when: no line is lost or written twice unless it is counted as
  dropped, and every line reaches the disk.

### Buffer

* State: a vector and two indices.
* Hard: growing against moving down, prepending, a read split over two areas.
* Correct when: it is a queue of bytes (`ByteQueue`) and stays small.

### Parts without a module

`Connector`, `TcpClient` (the client side of the library) and `PollPoller` are
used by the program only if it is built or started differently; `LinkedBuffer`
and the filename mapping (`addFilenameMapping` is never called) not at all.
Socket wrappers, addresses, dates, string helpers, the log formatting and the
web pages have no state machine of their own: the first are thin wrappers of
system calls and appear as environment actions, the pages as the requests the
models enumerate.

## 2. Modules and how they correspond to the code

| module | models | extends |
|---|---|---|
| `TcpConnection` | one connection on its IO loop, with the kernel and the peer | |
| `TcpConnectionThreads` | the same, with calls from other threads | `TcpConnection` |
| `TimerQueue` | the timers of a loop, with the timerfd | |
| `MCTimerQueue` | the same with the code's `TimeStamp` | `TimerQueue` |
| `HttpUpload` | one POST /upload: parser, `onMessage`, `handleFileUpload` | |
| `FileStore` | tables, directory and every handler that writes them | |
| `MCFileStore` | instances and symmetry for TLC | `FileStore` |
| `Download` | the answers of the server on one connection, files chunk by chunk | `TcpConnection` |
| `ByteQueue` | abstract: what a buffer promises | |
| `Buffer` | `Buffer`, implements `ByteQueue` | |
| `TaskPool` | abstract: what a thread pool promises | |
| `ThreadPool` | `ThreadPool` with its threads and callers, implements `TaskPool` | |
| `AsyncLogging` | the logging front end, back end and `LogFile` | |
| `LoopPool` | loops in threads of their own: start, functors, stop | |
| `TimerQueueProofs`, `FileStoreProofs`, `BufferProofs`, `TcpConnectionProofs`, `ThreadPoolProofs`, `AsyncLoggingProofs`, `HttpUploadProofs` | theorems | their component |
| `DownloadProofs` | theorems | `Download`, `TcpConnectionProofs` |

**TcpConnection.** `pc` is the position of the loop's thread: polling, in one
of the two parts of `Channel::handleEvent`, running a batch of functors, or in
user code, from where it may call `send`, `shutdown` and `forceClose`. Kernel
and peer may move between any two steps. A byte is its position in the stream,
so the concatenation `wire \o outputBuffer` shows any loss, repetition or
reordering. `::write` may take any prefix, and may fail when the peer has reset
the connection. `ioIsBase` lets `TcpServer`'s loop be the connection's or
another one. A failing assert sets `failed`. Whether anybody still holds a
`shared_ptr` to the connection is derived (`Owned`).

**TcpConnectionThreads** splits the calls of another thread into the test of
`state_`, the assignment and the queueing of the functor.

**TimerQueue.** The sets hold pairs as in the code (time stamp and address;
address and sequence number). `Addrs` are the addresses `new` may return, so
they are reused. On the loop's thread `addTimer` and `cancel` are one step each,
as `runInLoop` calls its functor; in another thread `addTimerElsewhere` and
`cancelElsewhere` append a functor to `pending`, which `doPendingFunctors` runs in
order. The last line of `addTimer` is then a step of its own, `addTimerReturns`:
it reads the sequence number of the Timer that is at the address by that time, or,
if there is none, any of `Residue`. `cancel` on the loop's thread has no guard but
the thread: it may come ahead of the queued `addTimerInLoop` of the Timer it
names, and finds nothing. `TimeStamp(_)` is a constant operator: the proofs hold
whatever it does. `MCTimerQueue` gives it the meaning of the constructor, which
stores 0 (`TimeStamp.hpp:20`).

**HttpUpload.** The request is a sequence of atoms: a content byte is its
position, the boundary is two atoms, headers, CRLF and the rest one each. A read
appends any non-empty prefix of what is left and runs all of `onMessage`:
`parseRequest` (a function of the buffer and the context), and by its result one
of `NeedMore`, `BadRequest`, `HeadersComplete`, `GotRequest`; `Stuck` is the
case in which `parseRequest` does not return. `handleFileUpload` is one step per
chunk, with the failures of open, write, flush and INSERT. The ghost variables
`taken`, `torn` and `faulted` record which bytes the handler was given, whether
an early chunk ended inside or after the end boundary, and whether an
operation failed.

**FileStore.** One action per handler that writes, each statement of it failing
or not, with `Crash` and the crash points inside `handleDelete`. Readers
are operators that give the status for any request, and the properties quantify
over all requests in all states. A request has a session id in its header and
another in its query; `handleDownload` takes the second if there is no first, the
other readers look at the header only. `handleListFiles` gives the entries an
answer may hold, with a share for the caller's own files only. `handleShareAccess`
is modelled with the columns it really reads: the owner's name as a number
(`NameValue`: a user's id, 0, another number, or not one) against `userId`, which
is 0 (`Zero`) without a session. A user is its id and its name, a file is its
server name and its id; `expire_time` is past or not, which makes
`validateSession`'s UPDATE a stutter. Server names are a millisecond and
four random digits, share codes and session ids are random: they are taken to
be unique. `told` records what clients were told, `spoiled` the files whose
upload was cut or whose row or removal failed.

**Download** composes the HTTP answers with `TcpConnection`: its steps are steps
of that module, with the user code's calls fixed by what the handlers do. A
write-complete functor keeps the callback the connection had when the functor
was queued, since `std::bind` copies it: `bound` runs parallel to the functor
queue `batch \o pending`. The server sets no high-water mark callback, hence
`HighWaterMark = 0`. Every byte given to `send`
is tagged in `stream` with the reply and the position in its file, so what the
kernel took can be compared with the file. Requests come complete; their
parsing is `HttpUpload`'s subject.

**Buffer** keeps the vector's cells numbered from 0 and the two indices in a
record, and its methods are operators on it, because `shrink` builds a second
buffer. The refinement maps the cells between the indices to `ByteQueue`'s
queue; both have the variable `call`, what the user gave or got, so the
refinement also says that a `retrieve` returns the right bytes.

**ThreadPool.** `mutex_` is held from the start of `run()` or `take()` to its end
or to a wait, so each such stretch is one step; the unlocked reads of `running_`
are steps of their own. Without threads, before `start()` and all the time after
`start(0)`, `run()` calls the task itself. A waiting thread is one whose place is `"wait"`; wake-ups
may be spurious. The refinement maps the owner's position to the phase of
`TaskPool`, whose fairness (every accepted task begins, while the pool runs)
has to follow from the fairness of the threads.

**AsyncLogging.** A line is its number, a `BufferPtr` the empty set or the set of
one buffer, a log file the sequence of its lines, of which `flushed` are on disk.
Each stretch of `threadFunc` outside the mutex is a step per buffer written, so
the front end may act between any two.

**LoopPool.** `poll()` has a timeout of one millisecond, so it may return at any
time; a thread's position tells where it is in `threadFunc` and `loop()`, the
owner's where it is in `start`, `stop` and the destructors.

## 3. Runs

| run | distinct states | what it shows |
|---|---|---|
| `tcp_app` | 111 267 | `AssertsHold`, `StreamIntact`, `WritingIffBuffered`, `FinAfterLastByte`, `RegisteredIsOwned`; eventually `ShutdownCompletes`, `PeerCloseReleases`, `EverySendAcked` |
| `tcp_foreign` | violation | `forceClose` of another thread lets a connection be closed and destroyed twice |
| `download` | 189 336 | `ReceivedInOrder`, `FinMeansWholeFile`; eventually `DownloadCompletes` |
| `timer_queue` | 323 773 | `TypeOK`, `SetsAgree`, `OwnedOnce`, `CancelHonoured`; eventually `OneShotsFire` |
| `http_upload` | 30 912 | `BodyIntact`, `EveryRequestAnswered`, `WholeChunksStored`, `RowsMatchFiles`; eventually `AnsweredIsReleased` |
| `http_onmessage` | violation | a read that ends inside the headers makes `parseRequest` loop for ever |
| `upload_torn` | violation | an early chunk with the end boundary: the client is told about a second, empty file |
| `file_store` | 122 114 | `TypeOK`, `RowsHaveFiles`, `SharesOwned`, `OrphansAreExplained`, `DownloadJustified`, `WithdrawnIsRefused`, `StoredIsKept`, `ShownIsReachable`, `ListedIsGranted` |
| `buffer` | 139 745 | `AssertsHold`, `GrowthBounded`; refinement `IsByteQueue` |
| `thread_pool` | 175 743 | refinement `IsTaskPool`, with its fairness; eventually `EveryCallReturns` |
| `async_log` | 197 694 | `AssertsHold`, `NothingLost`; eventually `LinesReachDisk` |
| `loop_pool` | 14 658 | `FunctorsRun`; eventually `StopReturns` |

Each property of a passing run has a mutant: a plausible slip in the mapped
code, under which TLC finds the property violated.

**Bounds and why they are enough.**

* `tcp_app`: `MaxBytes = 3` with sends of 1 and 2 and a kernel buffer of 1 gives
  a direct write that is partial, one that takes all, two sends in a row with
  the buffer non-empty, and a high-water mark of 2 that is crossed. One message
  from the peer is enough for `handleRead`. `MaxQueued` bounds only
  `forceClose`, which may otherwise be queued without end; two of them meet in
  a batch.
* `timer_queue`: two addresses and three timers give an address that is reused
  while the old `TimerId` is still in use, and a batch of two in which one
  callback cancels the other or itself and adds a third; with two functors an
  `addTimerInLoop` and a `cancelInLoop` wait together. `Residue = {1}` lets the
  number read from a deleted Timer be that of a Timer created later. With the code's
  `TimeStamp` all time stamps are 0, so one delay and one clock reading are all
  there is to tell apart.
* `http_upload`: `ChunkSize = 5` and a file of 7 bytes give bodies of several
  early chunks; every cut of the request is tried. The part's header is assumed
  to be in the first chunk (it is much shorter than 1 MB).
* `file_store`: two users, two files, two sessions, two codes and two extract
  codes: a share may name the right or the wrong one of each. The two user names
  are the misleading ones, one that reads as 0 and one that reads as the other
  user's id; both files have a title that `handleShareAccess` can read as a
  number, as it answers the others with 500. Sessions, names
  and codes are interchangeable, hence the symmetry (no liveness is checked in
  that run). Identifiers are not reused, so each behaviour is finite: deadlock
  is not checked there, nor in the upload's runs, where a connection ends.
  Excluded from this run's `Faults` are `insertFile` and `unshare`: the code
  ignores these failures and reports success, and with them `StoredIsKept` and
  `WithdrawnIsRefused` do not hold (see the findings).

* `download`: files of 0, 2 and 3 bytes with chunks of 2 are the empty file, the
  exact chunk and the file with a shorter last one; a kernel buffer of 2 takes
  a chunk whole or in part; two requests overlap. Deadlock is not checked: a
  closed connection is at rest.
* `buffer`: a reserved area, an initial size and an extra buffer of 2 each,
  strings of up to 2 and at most 4 readable bytes reach every branch (grow, move
  down, split read, prepend into the reserved area).
* `thread_pool`: a queue of length 1 with three producers and two workers makes
  both sides wait, also two at a time on one condition variable.
* `async_log`: buffers of 2 lines, a limit of 2 buffers instead of 25, files of 2
  lines, a period of 2 seconds and four lines give full buffers, dropped ones,
  rolls by size and by time, and both spare buffers missing at once.
* `loop_pool`: two threads and three functors, of which functors may queue some.
  One start and one stop.

**Fairness.** `TcpConnection`: both loops keep taking their own steps and user
code returns (`WF(LoopStep)`, `WF(removeConnectionInLoop)`: a loop is a thread
that the operating system schedules), and the peer reads what it was sent until
it resets (`WF(PeerReads)`); nobody is obliged to call or send anything.
`TimerQueue`: the loop handles a readable timerfd, ends the batch it has begun and
runs the functors in every iteration, and a set timerfd expires; nobody is obliged
to add or cancel, and an `addTimer` in another thread may never return. `HttpUpload`: the loop
writes a response out and then runs the write-complete callback, which is what
`EverySendAcked` shows of `TcpConnection`. `Download`: the loop's thread runs and
the peer reads until it resets. `ThreadPool`, `AsyncLogging`, `LoopPool`: every
thread that can move is scheduled, a timed wait ends, tasks and functors return;
nobody is obliged to call `run`, `append`, `queueInLoop` or `stop`.

## 4. Findings

Each is stated with its source lines in `PROJECT.json`.

1. `forceClose` tests and sets `state_` in two steps; from another thread it can
   overwrite `kDisconnected`, and the connection is destroyed twice. The program
   itself is single-threaded.
2. `TimeStamp(int64_t)` stores 0, so `reset` never sets the timerfd again:
   `runEvery` fires once, and timers that are waiting then wait for ever, until
   an `addTimer` becomes the earliest.
3. `processHeaders` returns true without having seen the empty line, and
   `parseRequest` goes round its loop without new data: one read that ends
   inside the headers stops the server.
4. An early chunk that contains the end boundary completes the upload, its
   response is dropped, and the rest of the request becomes a second upload.
5. `handleShareAccess` reads its row by wrong column numbers, and compares the
   owner with `userId` also when there is no session.
6. Results of the DELETE in "set private", of the upload's INSERT, of
   `saveSession` and `endSession` are ignored and success is reported.
7. The end of a Range is announced and not respected.
8. `sendError` and `handleNotFound` store in a connection a callback that owns
   the same connection: it is never released, nor is its descriptor.
9. With `Connection: close` a download is cut after its header.
10. `~EventLoopThread` reads `loop_` unlocked: the thread may be detached while it
    still runs, or the loop used after its end.
11. `EventLoopThreadPool::stop` may destroy functors that have not run,
    `ThreadPool::stop` tasks that have not begun, and `AsyncLogging::stop` leave
    lines unwritten that were appended before it; a comment or the interface
    promises otherwise for the first two.
12. `addTimer` reads the Timer it has handed to the loop: from another thread the
    `TimerId` may be that of another Timer.
13. `cancel` on the loop's thread is lost when it overtakes the `addTimerInLoop`
    that another thread has queued.
14. `handleListFiles` lists files shared with the caller without their codes, and
    `index.html` asks for them without one: 403.
15. `handleShareDownload` takes the session from the header only, and `share.html`
    sends none, so that a share for one user cannot be downloaded from its page.

2, 5 and 7 to 15 follow from reading the modelled lines; the properties are
stated so that they exclude exactly these cases (`OneShotsFire` speaks of one-shot
timers, `CancelHonoured` of cancels that do not overtake, `ShownIsReachable` of
shares that are not for one user and of callers not taken for the owner,
`RowsMatchFiles` of streams that have not failed, `FinMeansWholeFile` of requests
without the close, `FunctorsRun` and `LinesReachDisk` of the time before `stop`).

`WholeChunksStored` also records that a stored file is longer than the uploaded
one by the CRLF in front of the end boundary, and that its row has that size.

## 5. Proofs

TLAPS proves, for every value of the constants that the named assumptions
allow:

* **TimerQueueProofs** (from `TimerAssumption`, which says only that
  `TimeStamp` maps into `Stamps`): `TypeCorrect`, `NoAssertFails`,
  `TheSetsAgree`, `NoLeakNoDangling`, `CancelIsFinal`. None of these properties is inductive: that
  an erase finds its element needs the sets to agree; that they agree after
  `reset` needs the batch to be disjoint from them; that cancel does not hit a
  reused address needs sequence numbers of live Timers to be distinct from
  those of cancelled ids; that a Timer is deleted once needs a queued
  `addTimerInLoop` to have the only pointer to it. `IndInv` adds: the set of live
  Timers is finite, every entry carries the Timer's present time stamp, each Timer
  has one owner, a queued Timer exists and is queued once (`QueuedExist`), the
  batch and the cancelled ids agree with the heap. Nothing is assumed of the ids
  that `addTimer` returns to other threads, which may be wrong (finding 12):
  `cancel` with a wrong id is one with an old or a foreign one. The size comparison of the asserts needs
  that both sets are in bijection with the same addresses, hence the
  lemma `SizesAgreeLemma` on their cardinalities.
* **FileStoreProofs** (from `StoreAssumption`): `TypeCorrect`,
  `NoDanglingRows`, `SharesAreOwned`, `DownloadsAreJustified`, for any number of
  users, files, codes, and any set of failing operations, `insertFile` and
  `unshare` included. `IndInv` adds that a name not yet generated is in no table
  and not on the disk, and that a file of an upload in progress has no row and
  belongs to the uploader, so that `UploadEnds` cannot give a row to the wrong
  file, and `handleDelete` cannot unlink a file that has one. `DownloadJustified`
  follows from it without further induction: the shares a download finds were
  made by the file's owner, and the owner is the one whose bytes are on the disk.
  It covers both download handlers, with the session each of them finds.

* **BufferProofs** (from `BufferAssumption`: the sizes are natural numbers):
  `BufferAssertsHold`, `BufferGrowthBounded`. Each method has a lemma that says
  what it does to a good buffer (fields of their types, indices in order, a
  vector no shorter than the reserved area): it stays good, the readable length
  changes by what was put or taken, and the vector keeps its size or grows to
  `writeIndex + len`. The argument is in `MakeSpaceLemma`: the branch that moves
  the data has more than `kCheapPrepend` before it (or there would not be room
  enough), so it moves down; and the branch that grows has
  `readIndex - kCheapPrepend < len` cells wasted at most. `IndInv` adds the
  bound on the readable bytes, which the second half needs.
  `BufferIsByteQueue` is the refinement `IsByteQueue`: the lemmas of the methods
  are extended by what each does to the readable bytes, cell by cell, also when
  `makeSpace` moves them or `shrink` copies them into a second buffer.
* **TcpConnectionProofs** (from `TcpAssumption`: sizes are natural numbers, those
  of sends and of the kernel's buffer not 0): `TypeCorrect`,
  `AssertsNeverFail`, `StreamStaysIntact`, `WritingMeansBuffered`,
  `FinComesLast`, `DestroyedUnregistered`. `Sched` says when the batch of functors
  is empty; `Life` ties `state_` to the channel's index and events, to the map of
  the server and to the functors that are queued: `connectEstablished` is in
  `pending \o batch` exactly once until it has run, `connectDestroyed` exactly
  once after the close, or still on its way through the base loop. That is what
  makes the asserts hold, as each is about the state in which a queued functor
  finds the connection, several steps after it was queued. `Stream` is the
  conjunction of the stream properties with the fact that a FIN is sent only in
  `kDisconnecting` or later. `DestroyedUnregistered` follows: without an owner no
  functor is left, so `Life`'s last case applies.
* **FileStoreProofs**, second part: `OrphansExplained`, `StoredStays`,
  `WithdrawnStaysRefused`, `ShownStaysReachable`, `ListedStaysGranted`.
  `History` relates the tables to what clients were told: a file
  reported stored has its row unless an INSERT may fail, one reported deleted is
  gone and its name used up, one reported private has no share unless the DELETE
  may fail, the columns of a share fit its type, and a file no row names is
  explained. The last two theorems compare handlers whose queries and checks
  differ; they need that a code belongs to one share and that the columns fit. Two
  theorems have a hypothesis because the code ignores results: `StoredStays` needs
  `insertFile`, `WithdrawnStaysRefused` `unshare` not to be among the operations
  that fail (finding 6). The run's constants satisfy both.
* **ThreadPoolProofs** (from `PoolAssumption`; any sets of workers and producers):
  `TypeCorrect` and `PoolIsSafe`, the refinement `IsTaskPool` without its
  fairness. The invariant: the pool runs until the owner is in `stop()`, a
  producer waiting or pushing in `run()` has a task left to give and threads to
  give it to, and what is queued or begun
  was given before, so that a task accepted is always a new one. Each step of the pool is mapped to a step of `TaskPool` or a stutter.
* **AsyncLoggingProofs** (from `LogAssumption`): `BackEndAssertsHold`,
  `NoLineIsLost`. The asserts need `Hands`: what the two spare buffers,
  `buffersToWrite` and `nextBuffer` hold at each position of `threadFunc`; the
  front end can only have taken the spare buffer after it put a full one aside,
  so the swap finds one to write. `NothingLost` is then one argument for
  all steps, the operator `Flow` and its lemmas: lines stand in the order files, being written, put
  aside, current; a step moves a boundary between two of these, cuts a piece out
  (the drop) or adds the next number at the end.
* **HttpUploadProofs** (from `UploadAssumption`; any file size, any chunk size
  above 4, any set of failing operations): `NoBodyByteLost`, `AnsweredOnce`,
  `RowsAlwaysMatch`. `Progress` lists where a request can be: before the end of
  its line, in the body, refused, answered, or in the parser that spins or
  failed (finding 3). The lemmas under *parseRequest* compute what one call does
  to any prefix a read may leave: `ParseWaiting` (a part of the line, a refused
  line, a header without the empty line, or the body begun), `ParseBody` (all
  that was read goes into the body, as there is never more than
  `contentLength_`), `ParseAgain` (a refused line is refused again). They give
  the first two theorems. `OpenFile` says that the file of an upload context has
  no row yet and that `totalBytes_` is its size unless its stream has failed; with
  it, `HandlerFiles` takes the third theorem through the five ways
  `handleFileUpload` may end.
  `ChunksPutTogether` is `WholeChunksStored`: a file of any size, cut by TCP in
  any way and handed over in any number of early chunks, is on disk complete and
  in order when its upload is answered 200. `FindPart`, `FindBoundary` and
  `FindEnd` say what the searches of the handler return in any piece of the body
  (`Piece`), `FirstCut` and `NextCut` what is therefore written of it, and
  `Chunked`, the invariant, that until the answer the file holds exactly the bytes
  handed over so far, without the part's header (`FileUpto`). An early chunk that
  ends inside the end boundary breaks `Chunked`; that is finding 4 and what `torn`
  excludes.
* **DownloadProofs** (from `DownloadAssumption` and `TcpAssumption`; any files, any
  chunk and kernel buffer sizes, any number of requests): `DeliveredInOrder`
  (`ReceivedInOrder`), `FinEndsTheFile` (`FinMeansWholeFile`), and
  `DownloadsKeepTheConnection`, which carries the four safety properties of
  `TcpConnection` over to the composition. The steps that run no code of the
  server only drive the connection (`Moves`, `Queues` and `Drives` say what that
  is): of write-complete functors they can queue one, for a buffer just emptied. On top of the connection's `IndInv`, `Calls` says which call the
  server's code makes next (the header, the chunk that ends where the
  `FileDownContext` stands, the shutdown), `Sent` that the stream of each reply
  ends with the item up to which the reply was passed on and that the wire is a
  prefix of the stream, and `Sole` that of a connection's only download one
  thing at a time goes on: a call that is due, bytes in the buffer, or one
  write-complete functor. The first theorem needs `Sent` only; the second needs
  `Sole`, as a second functor would shut down while a chunk is still to be read.

All invariants are one step per action, and below it one per conjunct that the
action can disturb.

## 6. What is only model-checked, what is left out

Liveness (fairness and `ENABLED` are out of the prover's reach), with it the
fairness half of `IsTaskPool`, and what a definition by recursion over data
computes are checked by TLC only. `FunctorsRun` of `LoopPool` has a liveness part
and is checked by TLC only. Every other invariant of a passing run is stated by a
theorem.

Abstracted: several connections at once (connections share only the loop, whose
turns are the steps); memory of objects (the raw `this` of functors queued by
other threads, the ownership of callbacks, the loop after its end are listed as
hazards or findings); text of responses, JSON and SQL; passwords; chunked
transfer encoding; file titles beyond whether they begin with a digit; real time;
failing writes of the log file; restarting a pool that was stopped;
`TcpServer`'s destructor and the spare descriptor of `Acceptor`.

Not modelled: `Connector` and `TcpClient`, `PollPoller`, `LinkedBuffer`, the
filename mapping (see *Parts without a module*), and what only wraps system
calls or formats.

## 7. Plan

1. An abstract specification of a connection (a stream that is delivered, a half
   close, one up and one down), and `TcpConnection` shown to implement it.
2. `Connector` (retry, stop, restart) and `PollPoller` (the swap-and-pop removal
   against a set of channels).
