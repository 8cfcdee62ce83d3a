------------------------------- MODULE LoopPool -------------------------------
(***************************************************************************)
(* EventLoopThreadPool, its EventLoopThreads and the life of an EventLoop: *)
(* how the base loop's thread starts the IO loops, hands them functors     *)
(* with queueInLoop, and stops them, while each loop runs in its own       *)
(* thread on an object that lives on that thread's stack.                  *)
(*                                                                         *)
(* poll() has a timeout of a millisecond, so it may return at any time and *)
(* wakeup() only makes it return sooner; the eventfd is not shown.  Events *)
(* of channels are those of module TcpConnection.                          *)
(***************************************************************************)
EXTENDS Naturals, Sequences

CONSTANTS
  N,          \* numThreads_
  MaxTasks    \* bound: functors queued, those queued by functors included

ASSUME LoopPoolAssumption == N \in Nat \ {0} /\ MaxTasks \in Nat

Threads == 1 .. N

VARIABLES
  owner,      \* where the base loop's thread is in start() and stop()
  at,         \* the thread it is busy with
  next,       \* next_, from 1
  thread,     \* where each thread is
  loopPtr,    \* loop_ # nullptr
  quit,       \* quit_
  pending,    \* pendingFunctors_
  batch,      \* the rest of doPendingFunctors's vector
  queued,     \* tasks queued in each loop, in order
  ran         \* tasks that ran in each loop, in order

ownerVars == <<owner, at, next>>
vars == <<ownerVars, thread, loopPtr, quit, pending, batch, queued, ran>>

Tasks == 1 .. MaxTasks
Quit  == 0     \* the functor stop() queues

Owners == {"new", "start", "startLoop", "running", "stop", "destroy", "quit", "join", "stopped"}
Places == {"none", "new", "begun", "published", "check", "poll", "functors", "leaving",
           "unwinding", "done"}

TypeOK ==
  /\ owner \in Owners /\ at \in 1 .. N + 1 /\ next \in Threads
  /\ thread \in [Threads -> Places]
  /\ loopPtr \in [Threads -> BOOLEAN] /\ quit \in [Threads -> BOOLEAN]
  /\ pending \in [Threads -> Seq(Tasks \cup {Quit})]
  /\ batch \in [Threads -> Seq(Tasks \cup {Quit})]
  /\ queued \in [Threads -> Seq(Tasks)] /\ ran \in [Threads -> Seq(Tasks)]

Init ==
  /\ owner = "new" /\ at = 1 /\ next = 1
  /\ thread = [t \in Threads |-> "none"]
  /\ loopPtr = [t \in Threads |-> FALSE] /\ quit = [t \in Threads |-> FALSE]
  /\ pending = [t \in Threads |-> <<>>] /\ batch = [t \in Threads |-> <<>>]
  /\ queued = [t \in Threads |-> <<>>] /\ ran = [t \in Threads |-> <<>>]

Goes(t, place) == thread' = [thread EXCEPT ![t] = place]

-----------------------------------------------------------------------------
(* EventLoopThread::threadFunc and EventLoop::loop in thread t.            *)

\* Thread's runInThread: latch_->countDown().
CountDown(t) ==
  /\ thread[t] = "new" /\ Goes(t, "begun")
  /\ UNCHANGED <<ownerVars, loopPtr, quit, pending, batch, queued, ran>>

\* The loop is made and published under mutex_.
Publish(t) ==
  /\ thread[t] = "begun" /\ Goes(t, "published")
  /\ loopPtr' = [loopPtr EXCEPT ![t] = TRUE]
  /\ UNCHANGED <<ownerVars, quit, pending, batch, queued, ran>>

\* The head of loop(): a quit() that came before is forgotten.
EnterLoop(t) ==
  /\ thread[t] = "published" /\ Goes(t, "check")
  /\ quit' = [quit EXCEPT ![t] = FALSE]
  /\ UNCHANGED <<ownerVars, loopPtr, pending, batch, queued, ran>>

\* while (!quit_)
Check(t) ==
  /\ thread[t] = "check" /\ Goes(t, IF quit[t] THEN "leaving" ELSE "poll")
  /\ UNCHANGED <<ownerVars, loopPtr, quit, pending, batch, queued, ran>>

\* doPendingFunctors() that forgets what it took over when it is called again.
takeFunctorsCopy(t) ==
  /\ batch' = [batch EXCEPT ![t] = pending[t]]
  /\ UNCHANGED pending

takeFunctors(t) ==
  /\ batch' = [batch EXCEPT ![t] = pending[t]]
  /\ pending' = [pending EXCEPT ![t] = <<>>]

\* poll() returns and doPendingFunctors() swaps the vector out.
Poll(t) ==
  /\ thread[t] = "poll" /\ Goes(t, "functors")
  /\ takeFunctors(t)
  /\ UNCHANGED <<ownerVars, loopPtr, quit, queued, ran>>

BatchDone(t) ==
  /\ thread[t] = "functors" /\ batch[t] = <<>> /\ Goes(t, "check")
  /\ UNCHANGED <<ownerVars, loopPtr, quit, pending, batch, queued, ran>>

Total == LET Sum[t \in 0 .. N] == IF t = 0 THEN 0 ELSE Sum[t - 1] + Len(queued[t]) IN Sum[N]
NextTask == Total + 1

\* queueInLoop() of the next task in loop t.
Queue(t) ==
  /\ NextTask <= MaxTasks
  /\ pending' = [pending EXCEPT ![t] = Append(@, NextTask)]
  /\ queued' = [queued EXCEPT ![t] = Append(@, NextTask)]

\* A functor runs; it may queue another one in its own loop, for the next round.
RunTask(t) ==
  /\ thread[t] = "functors" /\ batch[t] # <<>> /\ Head(batch[t]) # Quit
  /\ ran' = [ran EXCEPT ![t] = Append(@, Head(batch[t]))]
  /\ batch' = [batch EXCEPT ![t] = Tail(@)]
  /\ Queue(t) \/ UNCHANGED <<pending, queued>>
  /\ UNCHANGED <<ownerVars, thread, loopPtr, quit>>

RunQuit(t) ==
  /\ thread[t] = "functors" /\ batch[t] # <<>> /\ Head(batch[t]) = Quit
  /\ quit' = [quit EXCEPT ![t] = TRUE]
  /\ batch' = [batch EXCEPT ![t] = Tail(@)]
  /\ UNCHANGED <<ownerVars, thread, loopPtr, pending, queued, ran>>

\* loop() has returned: loop_ = nullptr under mutex_.
Leave(t) ==
  /\ thread[t] = "leaving" /\ Goes(t, "unwinding")
  /\ loopPtr' = [loopPtr EXCEPT ![t] = FALSE]
  /\ UNCHANGED <<ownerVars, quit, pending, batch, queued, ran>>

\* The mutex is released, the loop destroyed with what is still pending, and
\* the thread ends.
Unwind(t) ==
  /\ thread[t] = "unwinding" /\ Goes(t, "done")
  /\ UNCHANGED <<ownerVars, loopPtr, quit, pending, batch, queued, ran>>

Thread(t) ==
  \/ CountDown(t) \/ Publish(t) \/ EnterLoop(t) \/ Check(t) \/ Poll(t) \/ BatchDone(t)
  \/ RunTask(t) \/ RunQuit(t) \/ Leave(t) \/ Unwind(t)

-----------------------------------------------------------------------------
(* The base loop's thread.                                                 *)

\* EventLoopThread::startLoop() of thread at: Thread::start() ...
start ==
  /\ owner \in {"new", "start"} /\ at \in Threads
  /\ owner' = "startLoop"
  /\ Goes(at, "new")
  /\ UNCHANGED <<at, next, loopPtr, quit, pending, batch, queued, ran>>

\* ... returns when the latch is down, then cond_ waits for loop_.
startLoop ==
  /\ owner = "startLoop" /\ thread[at] # "new" /\ loopPtr[at]
  /\ at' = at + 1
  /\ owner' = IF at = N THEN "running" ELSE "start"
  /\ UNCHANGED <<next, thread, loopPtr, quit, pending, batch, queued, ran>>

\* getNextLoop() and queueInLoop() of a task in the loop it returned.
Assign ==
  /\ owner = "running"
  /\ Queue(next)
  /\ next' = IF next + 1 > N THEN 1 ELSE next + 1
  /\ UNCHANGED <<owner, at, thread, loopPtr, quit, batch, ran>>

stop ==
  /\ owner = "running"
  /\ owner' = "stop" /\ at' = 1
  /\ UNCHANGED <<next, thread, loopPtr, quit, pending, batch, queued, ran>>

\* stop() that leaves the quitting to the destructors.
queueQuitNever ==
  /\ owner = "stop" /\ at \in Threads
  /\ at' = at + 1
  /\ UNCHANGED <<owner, next, thread, loopPtr, quit, pending, batch, queued, ran>>

\* queueInLoop of the quit functor in each loop.
queueQuit ==
  /\ owner = "stop" /\ at \in Threads
  /\ pending' = [pending EXCEPT ![at] = Append(@, Quit)]
  /\ at' = at + 1
  /\ UNCHANGED <<owner, next, thread, loopPtr, quit, batch, queued, ran>>

\* threads_.clear() calls the destructors in order, then stop() returns.
Clear ==
  /\ \/ owner = "stop" /\ at = N + 1 /\ owner' = "destroy" /\ at' = 1
     \/ owner = "destroy" /\ at = N + 1 /\ owner' = "stopped" /\ UNCHANGED at
  /\ UNCHANGED <<next, thread, loopPtr, quit, pending, batch, queued, ran>>

\* ~EventLoopThread(): loop_ is read without mutex_; when it is nullptr the
\* thread, which may still be unwinding, is detached.
Destroy ==
  /\ owner = "destroy" /\ at \in Threads
  /\ IF loopPtr[at] THEN owner' = "quit" /\ UNCHANGED at
                    ELSE at' = at + 1 /\ UNCHANGED owner
  /\ UNCHANGED <<next, thread, loopPtr, quit, pending, batch, queued, ran>>

\* loop_->quit(); the loop may be gone by now.
QuitLoop ==
  /\ owner = "quit"
  /\ owner' = "join"
  /\ quit' = [quit EXCEPT ![at] = TRUE]
  /\ UNCHANGED <<at, next, thread, loopPtr, pending, batch, queued, ran>>

Join ==
  /\ owner = "join" /\ thread[at] = "done"
  /\ owner' = "destroy" /\ at' = at + 1
  /\ UNCHANGED <<next, thread, loopPtr, quit, pending, batch, queued, ran>>

Finished ==
  /\ owner = "stopped" /\ \A t \in Threads : thread[t] = "done"
  /\ UNCHANGED vars

Starting == start \/ startLoop
Stopping == queueQuit \/ Clear \/ Destroy \/ QuitLoop \/ Join

Next ==
  \/ Starting \/ Assign \/ stop \/ Stopping \/ Finished
  \/ \E t \in Threads : Thread(t)

\* Every thread runs while it can.  Nobody has to queue a task or to stop.
Spec ==
  /\ Init /\ [][Next]_vars
  /\ WF_vars(Starting) /\ WF_vars(Stopping)
  /\ \A t \in Threads : WF_vars(Thread(t))

-----------------------------------------------------------------------------
(* Properties.                                                             *)

\* Every start() and stop() returns and every thread ends, even when the quit()
\* of a destructor comes before the head of loop(), which forgets it: the quit
\* functor is still in the queue.
StopReturns ==
  /\ owner = "new" ~> owner = "running"
  /\ owner = "stop" ~> owner = "stopped" /\ \A t \in Threads : thread[t] = "done"

\* The functors of a loop run in the order of their queueInLoop calls, each at
\* most once, the ones queued while the batch runs included; and while the pool
\* is not being stopped every one of them does run.
FunctorsRun ==
  /\ [](\A t \in Threads : /\ Len(ran[t]) <= Len(queued[t])
                           /\ ran[t] = SubSeq(queued[t], 1, Len(ran[t])))
  /\ \A t \in Threads : \A n \in Tasks :
       Len(queued[t]) >= n ~> Len(ran[t]) >= n \/ owner # "running"

=============================================================================
