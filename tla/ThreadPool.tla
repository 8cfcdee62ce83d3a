------------------------------ MODULE ThreadPool ------------------------------
(***************************************************************************)
(* thread::ThreadPool: worker threads that take tasks from one bounded     *)
(* queue, producers that call run(), and the thread that calls start() and *)
(* stop().  mutex_ is held from the start of run(), take() or the first    *)
(* part of stop() to its end or to a wait, so each such stretch is one     *)
(* step; running_ and threads_ are also read without it, in steps of their *)
(* own.                                                                    *)
(*                                                                         *)
(* A thread in pthread_cond_wait is one whose place is "wait"; a wake-up   *)
(* sends it back to test its condition.  Wake-ups may also be spurious.    *)
(***************************************************************************)
EXTENDS Naturals, Sequences

CONSTANTS
  Workers,        \* the threads start() creates
  Producers,      \* threads that call run()
  PerProducer,    \* bound: tasks of one producer
  MaxQueueSize    \* maxQueueSize_, 0 for no limit

ASSUME PoolAssumption == PerProducer \in Nat /\ MaxQueueSize \in Nat

VARIABLES
  running,    \* running_
  queue,      \* queue_
  worker,     \* where each worker is
  task,       \* the task each worker took; <<>> for none
  producer,   \* where each producer is
  given,      \* how many tasks each producer has passed to run()
  main,       \* where the owner of the pool is
  begun       \* tasks that have begun, in order

vars == <<running, queue, worker, task, producer, given, main, begun>>

Tasks == Producers \X (1 .. PerProducer)

TypeOK ==
  /\ running \in BOOLEAN
  /\ queue \in Seq(Tasks) /\ begun \in Seq(Tasks)
  /\ worker \in [Workers -> {"none", "new", "check", "take", "wait", "exec", "done"}]
  /\ task \in [Workers -> Tasks \cup {<<>>}]
  /\ producer \in [Producers -> {"idle", "run", "wait"}]
  /\ given \in [Producers -> 0 .. PerProducer]
  /\ main \in {"new", "starting", "running", "joining", "stopped"}

Init ==
  /\ running = FALSE /\ queue = <<>> /\ begun = <<>>
  /\ worker = [w \in Workers |-> "none"] /\ task = [w \in Workers |-> <<>>]
  /\ producer = [p \in Producers |-> "idle"] /\ given = [p \in Producers |-> 0]
  /\ main = "new"

-----------------------------------------------------------------------------
(* PCondition: at[t] = "wait" for the threads in wait().                   *)

Waiting(at) == {t \in DOMAIN at : at[t] = "wait"}

\* What at may be after notifyOne() or notifyAll() when a woken thread goes on
\* at place again.
NotifyOne(at, again) ==
  IF Waiting(at) = {} THEN {at}
  ELSE {[at EXCEPT ![t] = again] : t \in Waiting(at)}

NotifyAll(at, again) == [t \in DOMAIN at |-> IF at[t] = "wait" THEN again ELSE at[t]]

isFull == MaxQueueSize > 0 /\ Len(queue) >= MaxQueueSize

-----------------------------------------------------------------------------
(* The owner.                                                              *)

\* start(): running_ is set before the first thread exists.
start ==
  /\ main = "new"
  /\ main' = "starting" /\ running' = TRUE
  /\ UNCHANGED <<queue, worker, task, producer, given, begun>>

\* Thread::start() of the next thread, once the latch of the last one is down.
StartThread(w) ==
  /\ main = "starting"
  /\ \A v \in Workers : worker[v] # "new"
  /\ worker[w] = "none"
  /\ worker' = [worker EXCEPT ![w] = "new"]
  /\ UNCHANGED <<running, queue, task, producer, given, main, begun>>

Started ==
  /\ main = "starting"
  /\ \A v \in Workers : worker[v] \notin {"none", "new"}
  /\ main' = "running"
  /\ UNCHANGED <<running, queue, worker, task, producer, given, begun>>

\* stop() that wakes no producer.
stopForgetsProducers ==
  /\ main = "running"
  /\ main' = "joining" /\ running' = FALSE
  /\ worker' = NotifyAll(worker, "take")
  /\ UNCHANGED <<queue, task, producer, given, begun>>

\* stop() up to the joins.
stop ==
  /\ main = "running"
  /\ main' = "joining" /\ running' = FALSE
  /\ worker' = NotifyAll(worker, "take")
  /\ producer' = NotifyAll(producer, "run")
  /\ UNCHANGED <<queue, task, given, begun>>

Joined ==
  /\ main = "joining"
  /\ \A w \in Workers : worker[w] = "done"
  /\ main' = "stopped"
  /\ UNCHANGED <<running, queue, worker, task, producer, given, begun>>

-----------------------------------------------------------------------------
(* A producer.                                                             *)

NextTask(p) == <<p, given[p] + 1>>

\* threads_.empty(): before start(), and for ever after start(0).
NoThreads == main = "new" \/ (Workers = {} /\ main # "starting")

\* run() without threads: the task runs in the caller.
RunInline(p) ==
  /\ NoThreads /\ producer[p] = "idle" /\ given[p] < PerProducer
  /\ begun' = Append(begun, NextTask(p))
  /\ given' = [given EXCEPT ![p] = @ + 1]
  /\ UNCHANGED <<running, queue, worker, task, producer, main>>

\* run() is entered; start() has returned before anyone else uses the pool.
CallRun(p) ==
  /\ ~NoThreads /\ main # "starting"
  /\ producer[p] = "idle" /\ given[p] < PerProducer
  /\ producer' = [producer EXCEPT ![p] = "run"]
  /\ UNCHANGED <<running, queue, worker, task, given, main, begun>>

\* The part of run() that pushes, without the notification.
pushSilently(p) ==
  /\ queue' = Append(queue, NextTask(p))
  /\ UNCHANGED worker

push(p) ==
  /\ queue' = Append(queue, NextTask(p))
  /\ worker' \in NotifyOne(worker, "take")

\* run() with mutex_ held.
Run(p) ==
  /\ producer[p] = "run"
  /\ \/ /\ isFull /\ running
        /\ producer' = [producer EXCEPT ![p] = "wait"]
        /\ UNCHANGED <<queue, worker, given>>
     \/ /\ ~(isFull /\ running)
        /\ producer' = [producer EXCEPT ![p] = "idle"]
        /\ given' = [given EXCEPT ![p] = @ + 1]
        /\ IF running THEN push(p) ELSE UNCHANGED <<queue, worker>>
  /\ UNCHANGED <<running, task, main, begun>>

-----------------------------------------------------------------------------
(* A worker: Thread's runInThread and the pool's.                          *)

\* latch_->countDown()
CountDown(w) ==
  /\ worker[w] = "new"
  /\ worker' = [worker EXCEPT ![w] = "check"]
  /\ UNCHANGED <<running, queue, task, producer, given, main, begun>>

\* while (running_), read without the lock.
Check(w) ==
  /\ worker[w] = "check"
  /\ worker' = [worker EXCEPT ![w] = IF running THEN "take" ELSE "done"]
  /\ UNCHANGED <<running, queue, task, producer, given, main, begun>>

\* take() that wakes no producer.
notifyNotFullNever == UNCHANGED producer

notifyNotFull ==
  IF MaxQueueSize > 0 THEN producer' \in NotifyOne(producer, "run") ELSE UNCHANGED producer

\* take() with mutex_ held; without a task it returns an empty function.
take(w) ==
  /\ worker[w] = "take"
  /\ \/ /\ queue = <<>>
        /\ worker' = [worker EXCEPT ![w] = IF running THEN "wait" ELSE "check"]
        /\ UNCHANGED <<queue, task, producer, begun>>
     \/ /\ queue # <<>>
        /\ worker' = [worker EXCEPT ![w] = "exec"]
        /\ task' = [task EXCEPT ![w] = Head(queue)]
        /\ begun' = Append(begun, Head(queue))
        /\ queue' = Tail(queue)
        /\ notifyNotFull
  /\ UNCHANGED <<running, given, main>>

\* task() returns.
Exec(w) ==
  /\ worker[w] = "exec"
  /\ worker' = [worker EXCEPT ![w] = "check"]
  /\ task' = [task EXCEPT ![w] = <<>>]
  /\ UNCHANGED <<running, queue, producer, given, main, begun>>

SpuriousWakeup ==
  /\ \/ /\ \E w \in Waiting(worker) : worker' = [worker EXCEPT ![w] = "take"]
        /\ UNCHANGED producer
     \/ /\ \E p \in Waiting(producer) : producer' = [producer EXCEPT ![p] = "run"]
        /\ UNCHANGED worker
  /\ UNCHANGED <<running, queue, task, given, main, begun>>

-----------------------------------------------------------------------------
Owner == start \/ (\E w \in Workers : StartThread(w)) \/ Started \/ Joined
Worker(w) == CountDown(w) \/ Check(w) \/ take(w) \/ Exec(w)

\* Everyone has gone home.
Finished ==
  /\ main = "stopped"
  /\ \A p \in Producers : producer[p] = "idle" /\ given[p] = PerProducer
  /\ UNCHANGED vars

Next ==
  \/ Owner \/ stop \/ SpuriousWakeup \/ Finished
  \/ \E p \in Producers : RunInline(p) \/ CallRun(p) \/ Run(p)
  \/ \E w \in Workers : Worker(w)

\* Every thread that can move does: the scheduler runs it, mutex_ is given to
\* whoever waits for it and tasks return.  Nobody has to call run() or stop().
Fairness ==
  /\ WF_vars(Owner)
  /\ \A p \in Producers : WF_vars(Run(p))
  /\ \A w \in Workers : WF_vars(Worker(w))

Spec == Init /\ [][Next]_vars /\ Fairness

-----------------------------------------------------------------------------
(* Properties.                                                             *)

\* A pool without threads stays as it was before start().
phase ==
  IF main = "new" \/ Workers = {} THEN "new"
  ELSE IF main \in {"starting", "running"} THEN "running" ELSE "stopped"

Pool == INSTANCE TaskPool

\* The queue, the two condition variables and the unlocked reads of running_
\* give what a pool promises: every task that run() accepts begins, once and in
\* order, unless stop() comes first; nothing is accepted after stop().
IsTaskPool == Pool!Spec

\* stop() returns although workers wait or work, and a producer that waits for
\* room is released by a worker or by stop(): no wake-up is lost.
EveryCallReturns ==
  /\ main = "joining" ~> main = "stopped"
  /\ \A p \in Producers : producer[p] # "idle" ~> producer[p] = "idle"

=============================================================================
