----------------------------- MODULE AsyncLogging -----------------------------
(***************************************************************************)
(* log::AsyncLogging with its LogFile: front ends append lines to the      *)
(* current buffer under mutex_, a back-end thread swaps the full buffers   *)
(* out, writes them to a log file that is rolled by size and by day, and   *)
(* recycles two of them.                                                   *)
(*                                                                         *)
(* A line is its number, 1 for the first; every line that fits a buffer    *)
(* has length 1.  A BufferPtr is a set: {} for nullptr, {lines} otherwise. *)
(***************************************************************************)
EXTENDS Naturals, Sequences, SequencesExt

CONSTANTS
  BufferLen,      \* largeBufferLen
  MaxToWrite,     \* buffers beyond which lines are thrown away (25 in the code)
  RollSize,       \* rollSize_
  CheckEveryN,    \* checkEveryN_
  FlushInterval,  \* LogFile's flushInterval_
  RollPerSeconds, \* kRollPerSeconds_
  MaxLines,       \* bound: lines appended
  MaxTime         \* bound: the clock

ASSUME LogAssumption ==
  /\ BufferLen \in Nat \ {0, 1}
  /\ MaxToWrite \in Nat \ {0, 1}
  /\ {RollSize, FlushInterval, MaxLines, MaxTime} \subseteq Nat
  /\ {CheckEveryN, RollPerSeconds} \subseteq Nat \ {0}

VARIABLES
  running,        \* running_
  owner,          \* where the thread that calls start() and stop() is
  back,           \* where the back end is
  currentBuffer, nextBuffer, buffers,     \* under mutex_
  newBuffer1, newBuffer2, buffersToWrite, \* the back end's own
  written,        \* how many of buffersToWrite are written
  now,            \* time(NULL)
  files,          \* the log files in the order of their creation: their lines
  flushed,        \* how many lines of the last file are on disk
  logFile,        \* count_, startOfPeriod_, lastRoll_, lastFlush_
  appended,       \* lines passed to append()
  dropped,        \* lines thrown away, because too long or too many
  failed          \* an assert has failed

frontVars == <<currentBuffer, nextBuffer, buffers>>
backVars  == <<newBuffer1, newBuffer2, buffersToWrite, written>>
fileVars  == <<files, flushed, logFile>>
ghostVars == <<appended, dropped, failed>>
vars == <<running, owner, back, now, frontVars, backVars, fileVars, ghostVars>>

Null == {}
TheBuffer(ptr) == CHOOSE b \in ptr : TRUE

\* The constructor; the clock is past lastRoll_ = 0.
Init ==
  /\ running = FALSE /\ owner = "new" /\ back = "none"
  /\ currentBuffer = {<<>>} /\ nextBuffer = {<<>>} /\ buffers = <<>>
  /\ newBuffer1 = Null /\ newBuffer2 = Null /\ buffersToWrite = <<>> /\ written = 0
  /\ now = 1
  /\ files = <<>> /\ flushed = 0
  /\ logFile = [count |-> 0, startOfPeriod |-> 0, lastRoll |-> 0, lastFlush |-> 0]
  /\ appended = 0 /\ dropped = {} /\ failed = FALSE

-----------------------------------------------------------------------------
(* The front end.                                                          *)

avail(b) == BufferLen - Len(b)

\* append() that takes the spare buffer and does not keep the full one.
putAsideForgets == UNCHANGED buffers

\* buffers_.push_back(std::move(currentBuffer_))
putAside == buffers' = Append(buffers, TheBuffer(currentBuffer))

\* append() of a line of length len.  The longest line does not fit any buffer,
\* and FixedBuffer::append leaves it out.
append ==
  \E len \in {1, BufferLen} :
    LET line == appended + 1
        b    == TheBuffer(currentBuffer)
        fits == len = 1
    IN  /\ appended < MaxLines
        /\ appended' = line
        /\ dropped' = IF fits THEN dropped ELSE dropped \cup {line}
        /\ IF avail(b) > len
           THEN /\ currentBuffer' = {Append(b, line)}
                /\ UNCHANGED <<buffers, nextBuffer>>
           ELSE /\ putAside
                /\ nextBuffer' = Null
                /\ currentBuffer' = {IF fits THEN <<line>> ELSE <<>>}
        /\ UNCHANGED <<running, owner, back, now, backVars, fileVars, failed>>

-----------------------------------------------------------------------------
(* LogFile: AppendFile's stdio buffer and the rolling.                     *)

\* AppendFile: opening the next file, and appending to the last one; a write
\* that fails is not shown.
AppendFile(fs)    == Append(fs, <<>>)
fileAppend(lines) == [files EXCEPT ![Len(files)] = @ \o lines]

\* rollFile(), with lf for the LogFile's fields: at most one file per second.
\* The old AppendFile is closed, which flushes it.
rollFile(fs, lf) ==
  IF now > lf.lastRoll
  THEN /\ files' = AppendFile(fs)
       /\ flushed' = 0
       /\ logFile' = [lf EXCEPT !.lastRoll = now, !.lastFlush = now,
                                !.startOfPeriod = (now \div RollPerSeconds) * RollPerSeconds]
  ELSE /\ files' = fs
       /\ logFile' = lf
       /\ UNCHANGED flushed

\* append_unlocked()
append_unlocked(lines) ==
  LET fs         == fileAppend(lines)
      count      == logFile.count + 1
      thisPeriod == (now \div RollPerSeconds) * RollPerSeconds
      reset      == [logFile EXCEPT !.count = 0]
  IN  IF Len(Last(fs)) > RollSize
      THEN rollFile(fs, logFile)
      ELSE IF count < CheckEveryN
      THEN /\ files' = fs
           /\ logFile' = [logFile EXCEPT !.count = count]
           /\ UNCHANGED flushed
      ELSE IF thisPeriod # logFile.startOfPeriod
      THEN rollFile(fs, reset)
      ELSE /\ files' = fs
           /\ IF now - logFile.lastFlush > FlushInterval
              THEN flushed' = Len(Last(fs)) /\ logFile' = [reset EXCEPT !.lastFlush = now]
              ELSE UNCHANGED flushed /\ logFile' = reset

\* LogFile::flush() that is left out.
flushNever == UNCHANGED flushed

flush == flushed' = Len(Last(files))

-----------------------------------------------------------------------------
(* The back end: threadFunc().                                             *)

Asserts(P) == failed' = (failed \/ ~P)

IsEmpty(ptr) == ptr # Null /\ TheBuffer(ptr) = <<>>

\* Up to the loop: latch_ is counted down, the LogFile and two buffers made.
Begin ==
  /\ back = "new"
  /\ back' = "check"
  /\ Asserts(running)
  /\ rollFile(files, logFile)
  /\ newBuffer1' = {<<>>} /\ newBuffer2' = {<<>>}
  /\ UNCHANGED <<running, owner, now, frontVars, buffersToWrite, written, appended, dropped>>

\* while (running_), with the asserts at the top of the body.
Check ==
  /\ back = "check"
  /\ IF running
     THEN back' = "lock" /\ Asserts(IsEmpty(newBuffer1) /\ IsEmpty(newBuffer2) /\ buffersToWrite = <<>>)
     ELSE back' = "end" /\ UNCHANGED failed
  /\ UNCHANGED <<running, owner, now, frontVars, backVars, fileVars, appended, dropped>>

\* mutex_ is taken; without a full buffer the thread waits on cond_.
Lock ==
  /\ back = "lock"
  /\ back' = IF buffers = <<>> THEN "wait" ELSE "swap"
  /\ UNCHANGED <<running, owner, now, frontVars, backVars, fileVars, ghostVars>>

\* waitFor() returns: notified, timed out or spuriously, so it may at any time.
Wake ==
  /\ back = "wait"
  /\ back' = "swap"
  /\ UNCHANGED <<running, owner, now, frontVars, backVars, fileVars, ghostVars>>

\* The rest of the critical section, without the spare buffer for the front end.
swapKeepsSpare ==
  /\ buffersToWrite' = Append(buffers, TheBuffer(currentBuffer))
  /\ buffers' = <<>>
  /\ currentBuffer' = newBuffer1 /\ newBuffer1' = Null
  /\ nextBuffer' = newBuffer2 /\ newBuffer2' = Null

swap ==
  /\ buffersToWrite' = Append(buffers, TheBuffer(currentBuffer))
  /\ buffers' = <<>>
  /\ currentBuffer' = newBuffer1 /\ newBuffer1' = Null
  /\ IF nextBuffer = Null
     THEN nextBuffer' = newBuffer2 /\ newBuffer2' = Null
     ELSE UNCHANGED <<nextBuffer, newBuffer2>>

Swap ==
  /\ back = "swap"
  /\ back' = "drop"
  /\ swap
  /\ written' = 0
  /\ Asserts(buffersToWrite' # <<>>)
  /\ UNCHANGED <<running, owner, now, fileVars, appended, dropped>>

\* The lines in the buffers, or files, of the sequence bs; 0 is no line.
Lines(bs) == (UNION {Range(bs[i]) : i \in DOMAIN bs}) \ {0}

\* Too many buffers: a notice (line 0) is written and all but two are erased.
Drop ==
  /\ back = "drop"
  /\ back' = "write"
  /\ IF Len(buffersToWrite) > MaxToWrite
     THEN /\ append_unlocked(<<0>>)
          /\ buffersToWrite' = SubSeq(buffersToWrite, 1, 2)
          /\ dropped' = dropped \cup Lines(SubSeq(buffersToWrite, 3, Len(buffersToWrite)))
     ELSE UNCHANGED <<buffersToWrite, dropped, fileVars>>
  /\ UNCHANGED <<running, owner, now, frontVars, newBuffer1, newBuffer2, written, appended, failed>>

Write ==
  /\ back = "write" /\ written < Len(buffersToWrite)
  /\ append_unlocked(buffersToWrite[written + 1])
  /\ written' = written + 1
  /\ UNCHANGED <<running, owner, back, now, frontVars, newBuffer1, newBuffer2, buffersToWrite,
                 ghostVars>>

\* A spare that was given away is replaced by a written buffer, reset.
recycled(ptr) == IF ptr = Null THEN {<<>>} ELSE ptr

\* resize(2), the two recycling steps, which take what it left from the back,
\* and the flush.
Recycle ==
  LET left    == IF Len(buffersToWrite) > 2 THEN 2 ELSE Len(buffersToWrite)
      missing == (IF newBuffer1 = Null THEN 1 ELSE 0) + (IF newBuffer2 = Null THEN 1 ELSE 0)
  IN  /\ back = "write" /\ written = Len(buffersToWrite)
      /\ back' = "check"
      /\ Asserts(missing <= left)
      /\ newBuffer1' = recycled(newBuffer1) /\ newBuffer2' = recycled(newBuffer2)
      /\ buffersToWrite' = <<>> /\ written' = 0
      /\ flush
      /\ UNCHANGED <<running, owner, now, frontVars, files, logFile, appended, dropped>>

\* The flush after the loop; the thread ends and the LogFile is destroyed.
End ==
  /\ back = "end"
  /\ back' = "done"
  /\ flushed' = Len(Last(files))
  /\ UNCHANGED <<running, owner, now, frontVars, backVars, files, logFile, ghostVars>>

-----------------------------------------------------------------------------
(* The owner.                                                              *)

\* start() returns when the thread has counted latch_ down.
start ==
  /\ owner = "new"
  /\ owner' = "starting" /\ running' = TRUE /\ back' = "new"
  /\ UNCHANGED <<now, frontVars, backVars, fileVars, ghostVars>>

Started ==
  /\ owner = "starting" /\ back # "new"
  /\ owner' = "running"
  /\ UNCHANGED <<running, back, now, frontVars, backVars, fileVars, ghostVars>>

\* stop(): the notification is sent without mutex_ and may find nobody waiting.
stop ==
  /\ owner = "running"
  /\ owner' = "joining" /\ running' = FALSE
  /\ UNCHANGED <<back, now, frontVars, backVars, fileVars, ghostVars>>

Joined ==
  /\ owner = "joining" /\ back = "done"
  /\ owner' = "stopped"
  /\ UNCHANGED <<running, back, now, frontVars, backVars, fileVars, ghostVars>>

Tick ==
  /\ now < MaxTime
  /\ now' = now + 1
  /\ UNCHANGED <<running, owner, back, frontVars, backVars, fileVars, ghostVars>>

Finished == owner = "stopped" /\ UNCHANGED vars

BackEnd ==
  \/ Begin \/ Check \/ Lock \/ Wake \/ Swap \/ Drop \/ Write \/ Recycle \/ End

Next == append \/ BackEnd \/ start \/ Started \/ stop \/ Joined \/ Tick \/ Finished

\* The back end is scheduled, and its timed wait ends.
Spec == Init /\ [][Next]_vars /\ WF_vars(BackEnd) /\ WF_vars(Started) /\ WF_vars(Joined)

-----------------------------------------------------------------------------
(* Properties.                                                             *)

\* Where lines are kept, in the order in which they go through the logger: the
\* files, the buffers the back end still has to write, and the front end's.
Unwritten == SubSeq(buffersToWrite, written + 1, Len(buffersToWrite))
Places    == files \o Unwritten \o buffers \o <<TheBuffer(currentBuffer)>>

Below(A, B) == \A a \in A, b \in B : a < b

\* The lines of one buffer, or file, are in the order of the append calls.
Increasing(b) ==
  \A i, j \in DOMAIN b : i < j /\ b[i] # 0 /\ b[j] # 0 => b[i] < b[j]

\* So are those of a sequence of them.
InOrder(bs) ==
  \A i \in DOMAIN bs :
    /\ Increasing(bs[i])
    /\ \A k \in DOMAIN bs : i < k => Below(Range(bs[i]) \ {0}, Range(bs[k]) \ {0})

OnDisk  == Lines(Front(files)) \cup Range(SubSeq(Last(files), 1, flushed))

\* No assert of threadFunc fails: when a spare buffer was handed to the front
\* end, a written one is there to replace it, however appends and rounds mix.
AssertsHold == ~failed

\* Every line not counted as thrown away is in the files or on its way there,
\* once and in the order of the append calls, through every swap and roll.
NothingLost ==
  /\ Lines(Places) = (1 .. appended) \ dropped
  /\ InOrder(Places)

\* While the logger runs, every line reaches the disk or is thrown away; and
\* stop() returns, although its notification may be lost.
LinesReachDisk ==
  /\ \A line \in 1 .. MaxLines :
       appended >= line ~> (files # <<>> /\ line \in OnDisk) \/ line \in dropped
                             \/ owner \notin {"starting", "running"}
  /\ owner = "joining" ~> owner = "stopped"

=============================================================================
