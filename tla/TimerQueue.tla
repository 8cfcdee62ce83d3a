------------------------------ MODULE TimerQueue ------------------------------
(***************************************************************************)
(* The timers of one EventLoop: TimerQueue's two ordered sets, the heap    *)
(* objects they point to, and the timerfd that wakes the loop.             *)
(*                                                                         *)
(* The sets belong to the loop's thread.  There, in functors and in the    *)
(* callbacks of channels and of timers, addTimer and cancel do their work  *)
(* at once.  In any other thread they queue a functor; addTimer then reads *)
(* the sequence number of the Timer it has handed over, hence two steps,   *)
(* between which the loop may have run and deleted the Timer.  cancel may  *)
(* be given any TimerId ever returned, also one whose Timer is gone, whose *)
(* address is reused, or whose addTimerInLoop is still queued.             *)
(*                                                                         *)
(* Time stamps are what the constructor of TimeStamp makes of a number of  *)
(* microseconds; it is a parameter, so that the theorems hold whatever it  *)
(* does, and MCTimerQueue gives it the meaning it has in the code.         *)
(***************************************************************************)
EXTENDS Integers, Sequences, FiniteSets

CONSTANTS
  Addrs,         \* addresses operator new may return for a Timer
  Delays,        \* delays passed to runAfter and runEvery
  Intervals,     \* interval_ of a Timer, 0 for one that does not repeat
  Readings,      \* what the argument of now()'s constructor call may be
  TimeStamp(_),  \* TimeStamp(microSec).microSecondsSinceEpoch_
  Stamps,        \* the values of microSecondsSinceEpoch_
  Residue,       \* what sequence_ may read as in a Timer that was deleted
  MaxTimers,     \* bound: timers created
  MaxFunctors    \* bound: functors queued when cancel queues another

ASSUME TimerAssumption ==
  /\ Delays \subseteq Nat /\ Intervals \subseteq Nat /\ Readings \subseteq Int
  /\ Stamps \subseteq Int /\ 0 \in Stamps
  /\ \A r \in Readings : TimeStamp(r) \in Stamps
  /\ \A t \in Stamps, d \in Delays \cup Intervals : TimeStamp(t + d) \in Stamps
  /\ Residue \subseteq Nat
  /\ MaxTimers \in Nat /\ MaxFunctors \in Nat

VARIABLES
  live,         \* addresses of the allocated Timers
  sequence,     \* sequence_ of the Timer at an address
  expiration,   \* its expiration_
  interval,     \* its interval_
  numCreated,   \* Timer::s_numCreated_
  pending,      \* functors of addTimer and cancel the loop has not run
  returning,    \* Timers handed over by an addTimer that has not returned
  timers,       \* timers_: pairs of time stamp and address
  active,       \* activeTimers_: pairs of address and sequence number
  canceling,    \* cancelingTimers_
  phase,        \* handleRead: not running, no callback yet, in or after one
  expired,      \* entries getExpired returned
  toRun,        \* those of them whose callback has not run
  now,          \* handleRead's time stamp
  armed,        \* the timerfd is set and has not expired
  readable,     \* the timerfd expired and was not read
  ids,          \* TimerIds addTimer returned
  cancelled,    \* for CancelHonoured: TimerIds cancel has been called with
  failed        \* an assert has failed (the process would have aborted)

heapVars  == <<live, sequence, expiration, interval, numCreated>>
setVars   == <<timers, active, canceling>>
batchVars == <<phase, expired, toRun, now>>
fdVars    == <<armed, readable>>
userVars  == <<ids, cancelled>>
callVars  == <<pending, returning>>
vars == <<heapVars, callVars, setVars, batchVars, fdVars, userVars, failed>>

\* A bound addTimerInLoop or cancelInLoop and its argument.
Functor == [op : {"add", "cancel"}, timer : Addrs \X Nat]

TypeOK ==
  /\ live \subseteq Addrs
  /\ sequence \in [Addrs -> Nat]
  /\ expiration \in [Addrs -> Stamps]
  /\ interval \in [Addrs -> Intervals \cup {0}]
  /\ numCreated \in Nat
  /\ pending \in Seq(Functor)
  /\ returning \subseteq Addrs \X Nat
  /\ timers \subseteq Stamps \X Addrs
  /\ active \subseteq Addrs \X Nat
  /\ canceling \subseteq Addrs \X Nat
  /\ phase \in {"idle", "started", "callback"}
  /\ expired \subseteq Stamps \X Addrs
  /\ toRun \subseteq expired
  /\ now \in Stamps
  /\ armed \in BOOLEAN
  /\ readable \in BOOLEAN
  /\ ids \subseteq Addrs \X Nat
  /\ cancelled \subseteq ids
  /\ failed \in BOOLEAN

Init ==
  /\ live = {} /\ numCreated = 0
  /\ sequence = [a \in Addrs |-> 0]
  /\ expiration = [a \in Addrs |-> 0]
  /\ interval = [a \in Addrs |-> 0]
  /\ pending = <<>> /\ returning = {} /\ timers = {} /\ active = {} /\ canceling = {}
  /\ phase = "idle" /\ expired = {} /\ toRun = {} /\ now = 0
  /\ armed = FALSE /\ readable = FALSE
  /\ ids = {} /\ cancelled = {} /\ failed = FALSE

-----------------------------------------------------------------------------
TimerOf(a) == <<a, sequence[a]>>
EntryOf(a) == <<expiration[a], a>>

Add(timer)    == [op |-> "add", timer |-> timer]
Cancel(timer) == [op |-> "cancel", timer |-> timer]

\* Timers whose addTimerInLoop is queued.
queued == {pending[i].timer[1] : i \in {j \in DOMAIN pending : pending[j].op = "add"}}

\* The TimerId names a Timer that exists.
Names(id) == id[1] \in live /\ TimerOf(id[1]) = id

\* assert(P): failed records that P was false.
Asserts(P) == failed' = (failed \/ ~P)

\* assert(timers_.size() == activeTimers_.size())
SizesAgree == Cardinality(timers) = Cardinality(active)

\* User code runs on the loop's thread: outside handleRead, or in a callback.
InUserCode == phase \in {"idle", "callback"}

\* addTime() that returns the sum as it is.
addTimeUnconverted(t, d) == t + d

\* addTime(timestamp, microSeconds)
addTime(t, d) == TimeStamp(t + d)

\* insert() that does not count the first timer as a new earliest one.
earliestChangedUnlessFirst(when) == timers # {} /\ \A e \in timers : when < e[1]

\* insert()'s result: when precedes every entry of timers_.
earliestChanged(when) == \A e \in timers : when < e[1]

\* addTimerInLoop(): insert() and, for a new earliest timer, resetTimerfd,
\* which restarts the timerfd's count.
addTimerInLoop(when, timer) ==
  /\ Asserts(SizesAgree /\ <<when, timer[1]>> \notin timers /\ timer \notin active)
  /\ timers' = timers \cup {<<when, timer[1]>>}
  /\ active' = active \cup {timer}
  /\ IF earliestChanged(when)
     THEN armed' = TRUE /\ readable' = FALSE
     ELSE UNCHANGED fdVars

\* new Timer(cb, addTime(TimeStamp::now(), delay), ival)
newTimer(a, delay, ival, reading) ==
  /\ a \notin live /\ numCreated < MaxTimers
  /\ live' = live \cup {a}
  /\ sequence' = [sequence EXCEPT ![a] = numCreated]
  /\ expiration' = [expiration EXCEPT ![a] = addTime(TimeStamp(reading), delay)]
  /\ interval' = [interval EXCEPT ![a] = ival]
  /\ numCreated' = numCreated + 1

\* addTimer() on the loop's thread: runInLoop calls addTimerInLoop.
addTimer(a, delay, ival, reading) ==
  /\ InUserCode
  /\ newTimer(a, delay, ival, reading)
  /\ addTimerInLoop(addTime(TimeStamp(reading), delay), <<a, numCreated>>)
  /\ ids' = ids \cup {<<a, numCreated>>}
  /\ UNCHANGED <<callVars, canceling, batchVars, cancelled>>

\* addTimer() in another thread: runInLoop queues addTimerInLoop.
addTimerElsewhere(a, delay, ival, reading) ==
  /\ newTimer(a, delay, ival, reading)
  /\ pending' = Append(pending, Add(<<a, numCreated>>))
  /\ returning' = returning \cup {<<a, numCreated>>}
  /\ UNCHANGED <<setVars, batchVars, fdVars, userVars, failed>>

\* Its last line: timer->sequence() is read at an address that may by now hold
\* no Timer, or another one.
addTimerReturns(call) ==
  /\ returning' = returning \ {call}
  /\ \E s \in IF call[1] \in live THEN {sequence[call[1]]} ELSE Residue :
       ids' = ids \cup {<<call[1], s>>}
  /\ UNCHANGED <<heapVars, pending, setVars, batchVars, fdVars, cancelled, failed>>

\* cancelInLoop() that ignores a timer whose callback is being run.
cancelInLoopIgnoresRunning(id) ==
  /\ IF id \in active
     THEN /\ Asserts(SizesAgree /\ EntryOf(id[1]) \in timers)
          /\ timers' = timers \ {EntryOf(id[1])}
          /\ active' = active \ {id}
          /\ live' = live \ {id[1]}
     ELSE Asserts(SizesAgree) /\ UNCHANGED <<timers, active, live>>
  /\ UNCHANGED <<sequence, expiration, interval, numCreated, canceling>>

\* cancelInLoop() that finds the timer by its address alone.
cancelInLoopByAddress(id) ==
  /\ IF \E x \in active : x[1] = id[1]
     THEN /\ Asserts(SizesAgree /\ EntryOf(id[1]) \in timers)
          /\ timers' = timers \ {EntryOf(id[1])}
          /\ active' = active \ {id}
          /\ live' = live \ {id[1]}
          /\ UNCHANGED canceling
     ELSE /\ canceling' = IF phase = "callback" THEN canceling \cup {id} ELSE canceling
          /\ Asserts(SizesAgree)
          /\ UNCHANGED <<timers, active, live>>
  /\ UNCHANGED <<sequence, expiration, interval, numCreated>>

cancelInLoop(id) ==
  /\ IF id \in active
     THEN /\ Asserts(SizesAgree /\ EntryOf(id[1]) \in timers)
          /\ timers' = timers \ {EntryOf(id[1])}
          /\ active' = active \ {id}
          /\ live' = live \ {id[1]}
          /\ UNCHANGED canceling
     ELSE /\ canceling' = IF phase = "callback" THEN canceling \cup {id} ELSE canceling
          /\ Asserts(SizesAgree)
          /\ UNCHANGED <<timers, active, live>>
  /\ UNCHANGED <<sequence, expiration, interval, numCreated>>

\* cancel() on the loop's thread runs at once, also ahead of the addTimerInLoop
\* of the Timer it names; it then finds nothing, and is not counted as heard.
cancel(id) ==
  /\ InUserCode
  /\ cancelInLoop(id)
  /\ cancelled' = IF Names(id) /\ id[1] \notin queued THEN cancelled \cup {id} ELSE cancelled
  /\ UNCHANGED <<callVars, batchVars, fdVars, ids>>

\* cancel() in another thread: runInLoop queues cancelInLoop.
cancelElsewhere(id) ==
  /\ Len(pending) < MaxFunctors
  /\ pending' = Append(pending, Cancel(id))
  /\ cancelled' = IF Names(id) THEN cancelled \cup {id} ELSE cancelled
  /\ UNCHANGED <<heapVars, returning, setVars, batchVars, fdVars, ids, failed>>

\* doPendingFunctors(): one functor, on the loop's thread, first in first out.
doPendingFunctors ==
  LET f == Head(pending)
  IN  /\ phase = "idle" /\ pending # <<>>
      /\ pending' = Tail(pending)
      /\ \/ /\ f.op = "add"
            /\ addTimerInLoop(expiration[f.timer[1]], TimerOf(f.timer[1]))
            /\ UNCHANGED <<heapVars, canceling>>
         \/ /\ f.op = "cancel"
            /\ cancelInLoop(f.timer)
            /\ UNCHANGED fdVars
      /\ UNCHANGED <<returning, batchVars, userVars>>

\* The kernel: a set timerfd expires.
TimerfdExpires ==
  /\ armed
  /\ armed' = FALSE /\ readable' = TRUE
  /\ UNCHANGED <<heapVars, callVars, setVars, batchVars, userVars, failed>>

\* handleRead() up to its loop: getExpired takes every entry up to now out of
\* both sets.
handleRead(reading) ==
  LET t    == TimeStamp(reading)
      past == {e \in timers : e[1] <= t}
  IN  /\ phase = "idle" /\ readable
      /\ readable' = FALSE
      /\ now' = t
      /\ expired' = past /\ toRun' = past
      /\ timers' = timers \ past
      /\ active' = active \ {TimerOf(e[2]) : e \in past}
      /\ Asserts(SizesAgree /\ \A e \in past : TimerOf(e[2]) \in active)
      /\ canceling' = {}
      /\ phase' = "started"
      /\ UNCHANGED <<heapVars, callVars, armed, userVars>>

\* it.second->run(), in the order of timers_.
runCallback(e) ==
  /\ phase \in {"started", "callback"}
  /\ e \in toRun /\ \A f \in toRun : e[1] <= f[1]
  /\ toRun' = toRun \ {e}
  /\ phase' = "callback"
  /\ UNCHANGED <<heapVars, callVars, setVars, expired, now, fdVars, userVars, failed>>

\* reset()'s condition for restarting the expired timer at a.
Restarts(a) == interval[a] > 0 /\ TimerOf(a) \notin canceling

\* reset() that forgets to delete the timers that end.
EndedKept(a) == FALSE

Ended(a) == ~Restarts(a)

\* The end of handleRead: callingExpiredTimers_ = false and reset().
reset ==
  LET again == {e[2] : e \in {f \in expired : Restarts(f[2])}}
      over  == {e[2] : e \in {f \in expired : Ended(f[2])}}
      exp   == [a \in Addrs |-> IF a \in again THEN addTime(now, interval[a]) ELSE expiration[a]]
  IN  /\ phase \in {"started", "callback"} /\ toRun = {}
      /\ phase' = "idle"
      /\ expiration' = exp
      /\ timers' = timers \cup {<<exp[a], a>> : a \in again}
      /\ active' = active \cup {TimerOf(a) : a \in again}
      /\ live' = live \ over
      /\ expired' = {}
      /\ Asserts(/\ SizesAgree
                 /\ \A a \in again : <<exp[a], a>> \notin timers /\ TimerOf(a) \notin active)
      /\ IF timers' # {} /\ \A e \in timers' : e[1] > 0
         THEN armed' = TRUE /\ readable' = FALSE
         ELSE UNCHANGED fdVars
      /\ UNCHANGED <<sequence, interval, numCreated, callVars, canceling, toRun, now, userVars>>

-----------------------------------------------------------------------------
BatchStep == (\E e \in toRun : runCallback(e)) \/ reset

HandlesRead == \E r \in Readings : handleRead(r)

Next ==
  \/ \E a \in Addrs, d \in Delays, i \in Intervals, r \in Readings :
       addTimer(a, d, i, r) \/ addTimerElsewhere(a, d, i, r)
  \/ \E call \in returning : addTimerReturns(call)
  \/ \E id \in ids : cancel(id) \/ cancelElsewhere(id)
  \/ doPendingFunctors
  \/ TimerfdExpires
  \/ HandlesRead
  \/ BatchStep

Spec == Init /\ [][Next]_vars

\* Every iteration of the loop handles the timerfd and runs the functors, a
\* batch goes on to its end, and a set timerfd expires.
Fairness ==
  /\ WF_vars(doPendingFunctors)
  /\ WF_vars(HandlesRead)
  /\ WF_vars(BatchStep)
  /\ WF_vars(TimerfdExpires)

FairSpec == Spec /\ Fairness

-----------------------------------------------------------------------------
(* Properties.                                                             *)

\* No assert of TimerQueue fails: the two sets always have the same size, every
\* erase finds its element and every insert is of a new one.
AssertsHold == ~failed

\* timers_ and activeTimers_ always describe the same Timers, each under its
\* present time stamp and sequence number, so that a lookup in one by what the
\* other says cannot miss.
SetsAgree ==
  \E S \in SUBSET live : /\ timers = {EntryOf(a) : a \in S}
                         /\ active = {TimerOf(a) : a \in S}

\* Every allocated Timer has exactly one owner (one queued addTimerInLoop, the
\* sets, or the expired batch) and no owner refers to a deleted one: the loop
\* leaks no Timer, deletes none twice and uses none after it was deleted, though
\* callbacks add and cancel timers while the batch runs and addresses are
\* reused, and some ids are wrong.  (The read of addTimerReturns, in another
\* thread, is of a Timer that the thread no longer owns.)
OwnedOnce ==
  LET inSets  == {e[2] : e \in timers}
      inBatch == {e[2] : e \in expired}
      adds    == {i \in DOMAIN pending : pending[i].op = "add"}
  IN  /\ live = queued \cup inSets \cup inBatch
      /\ queued \cap inSets = {} /\ queued \cap inBatch = {} /\ inSets \cap inBatch = {}
      /\ \A i, j \in adds : pending[i].timer[1] = pending[j].timer[1] => i = j

\* A cancel is honoured, whichever thread called it: a Timer that still exists
\* is part of the running batch and marked not to be restarted, or the functor
\* that will delete it is queued, behind the one that adds it.  (Its callback
\* may still run until then.)  A cancel on the loop's thread that overtakes the
\* addTimerInLoop of another thread's Timer finds nothing, and is excluded.
CancelHonoured ==
  \A id \in cancelled :
    Names(id) =>
      \/ id \in canceling /\ \E e \in expired : e[2] = id[1]
      \/ \E j \in DOMAIN pending :
           /\ pending[j] = Cancel(id)
           /\ \A i \in DOMAIN pending : pending[i] = Add(id) => i < j

\* As long as only one-shot timers are used, none is forgotten: each Timer is
\* eventually deleted, which happens after its callback ran or by cancel.
OneShotsFire ==
  [](\A a \in live : interval[a] = 0)
    => \A a \in Addrs, s \in 0 .. MaxTimers - 1 :
         (a \in live /\ sequence[a] = s) ~> ~(a \in live /\ sequence[a] = s)

=============================================================================
