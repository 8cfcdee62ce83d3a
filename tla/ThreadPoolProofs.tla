--------------------------- MODULE ThreadPoolProofs ---------------------------
(***************************************************************************)
(* ThreadPool implements the safety part of TaskPool for any number of     *)
(* workers, producers and tasks and any bound of the queue: run() never    *)
(* accepts a task after stop(), the tasks begin in the order in which they *)
(* were accepted, and none of them begins twice.  That they do begin needs *)
(* fairness and is left to TLC.                                            *)
(***************************************************************************)
EXTENDS ThreadPool, SequenceTheorems, TLAPS

WorkerPlaces   == {"none", "new", "check", "take", "wait", "exec", "done"}
ProducerPlaces == {"idle", "run", "wait"}

\* running_ is set from start() to stop(), and by nobody else.
RunsUntilStop == running <=> main \in {"starting", "running"}

\* A producer inside run() has a task to give, and there are threads to give it to.
CallHasTask ==
  \A p \in Producers : producer[p] # "idle" => given[p] < PerProducer /\ Workers # {}

\* The tasks of a producer that the pool has seen are ones it has given.
Given(s) == \A i \in 1 .. Len(s) : s[i][2] <= given[s[i][1]]

IndInv == TypeOK /\ RunsUntilStop /\ CallHasTask /\ Given(queue) /\ Given(begun)

\* The promise of a pool without its fairness.
PoolSafety == Pool!Init /\ [][Pool!Next]_(Pool!vars)

-----------------------------------------------------------------------------
(* Condition variables and counters.                                       *)

\* A wake-up of the workers moves waiting ones back to the test in take().
LEMMA WakeWorkers ==
  ASSUME worker \in [Workers -> WorkerPlaces],
         worker' \in NotifyOne(worker, "take") \/ worker' = NotifyAll(worker, "take")
  PROVE  worker' \in [Workers -> WorkerPlaces]
<1>1. CASE worker' = worker
  BY <1>1
<1>2. CASE worker' \in {[worker EXCEPT ![w] = "take"] : w \in Waiting(worker)}
  BY <1>2 DEF WorkerPlaces, Waiting
<1>3. CASE worker' = NotifyAll(worker, "take")
  BY <1>3 DEF WorkerPlaces, NotifyAll
<1>. QED BY <1>1, <1>2, <1>3 DEF NotifyOne

\* A wake-up of the producers moves waiting ones back to the test in run().
LEMMA WakeProducers ==
  ASSUME producer \in [Producers -> ProducerPlaces],
         producer' \in NotifyOne(producer, "run") \/ producer' = NotifyAll(producer, "run")
  PROVE  /\ producer' \in [Producers -> ProducerPlaces]
         /\ \A p \in Producers : producer'[p] # "idle" => producer[p] # "idle"
<1>1. CASE producer' = producer
  BY <1>1
<1>2. CASE producer' \in {[producer EXCEPT ![p] = "run"] : p \in Waiting(producer)}
  BY <1>2 DEF ProducerPlaces, Waiting
<1>3. CASE producer' = NotifyAll(producer, "run")
  BY <1>3 DEF ProducerPlaces, NotifyAll
<1>. QED BY <1>1, <1>2, <1>3 DEF NotifyOne

\* The next task of a producer in run() is a task the pool has not seen.
LEMMA NextTaskIsFresh ==
  ASSUME IndInv, NEW p \in Producers, given[p] < PerProducer
  PROVE  /\ NextTask(p) \in Tasks
         /\ NextTask(p) \notin Pool!Known
<1>1. given[p] \in 0 .. PerProducer /\ PerProducer \in Nat
  BY PoolAssumption DEF IndInv, TypeOK
<1>2. NextTask(p) \in Tasks
  BY <1>1 DEF NextTask, Tasks
<1>3. ASSUME NEW s \in Seq(Tasks), Given(s), NEW i \in DOMAIN s
      PROVE  s[i] # NextTask(p)
  <2>1. i \in 1 .. Len(s)
    BY <1>3
  <2>2. SUFFICES ASSUME s[i] = NextTask(p) PROVE FALSE
    OBVIOUS
  <2>3. given[p] + 1 <= given[p]
    BY <2>1, <2>2, <1>3 DEF Given, NextTask
  <2>. QED BY <2>3, <1>1
<1>4. queue \in Seq(Tasks) /\ begun \in Seq(Tasks) /\ Given(queue) /\ Given(begun)
  BY DEF IndInv, TypeOK
<1>5. NextTask(p) \notin Pool!Known
  BY <1>3, <1>4 DEF Pool!Known
<1>. QED BY <1>2, <1>5

\* Counting one more task of p keeps the tasks seen so far and lets in p's next.
LEMMA GivenGrows ==
  ASSUME IndInv, NEW p \in Producers, given[p] < PerProducer,
         given' = [given EXCEPT ![p] = @ + 1]
  PROVE  /\ given' \in [Producers -> 0 .. PerProducer]
         /\ \A q \in Producers : q # p => given'[q] = given[q]
         /\ \A s \in Seq(Tasks) : Given(s) =>
              /\ \A i \in 1 .. Len(s) : s[i][2] <= given'[s[i][1]]
              /\ LET t == Append(s, NextTask(p))
                 IN  \A i \in 1 .. Len(t) : t[i][2] <= given'[t[i][1]]
<1>. DEFINE g == given'
<1>1. given \in [Producers -> 0 .. PerProducer] /\ PerProducer \in Nat
  BY PoolAssumption DEF IndInv, TypeOK
<1>2. g \in [Producers -> 0 .. PerProducer]
  BY <1>1
<1>3. /\ \A q \in Producers : given[q] <= g[q] /\ (q # p => g[q] = given[q])
      /\ g[p] = given[p] + 1
  BY <1>1
<1>4. ASSUME NEW s \in Seq(Tasks), Given(s), NEW i \in 1 .. Len(s)
      PROVE  s[i][2] <= g[s[i][1]]
  <2>1. s[i] \in Tasks /\ s[i][2] <= given[s[i][1]]
    BY <1>4 DEF Given
  <2>2. s[i][1] \in Producers /\ s[i][2] \in Nat
    BY <2>1, <1>1 DEF Tasks
  <2>. HIDE DEF g
  <2>3. /\ given[s[i][1]] <= g[s[i][1]] /\ given[s[i][1]] \in Nat /\ g[s[i][1]] \in Nat
    BY <2>2, <1>1, <1>2, <1>3
  <2>. QED BY <2>1, <2>2, <2>3
<1>5. ASSUME NEW s \in Seq(Tasks), Given(s), NEW i \in 1 .. Len(Append(s, NextTask(p)))
      PROVE  Append(s, NextTask(p))[i][2] <= g[Append(s, NextTask(p))[i][1]]
  <2>. HIDE DEF g
  <2>1. CASE i \in 1 .. Len(s)
    <3>1. Append(s, NextTask(p))[i] = s[i]
      BY <2>1
    <3>. QED BY <3>1, <2>1, <1>4, <1>5
  <2>2. CASE i = Len(s) + 1
    <3>1. Append(s, NextTask(p))[i] = NextTask(p)
      BY <2>2
    <3>2. NextTask(p)[1] = p /\ NextTask(p)[2] = given[p] + 1
      BY DEF NextTask
    <3>3. given[p] + 1 <= g[p]
      BY <1>1, <1>3
    <3>. QED BY <3>1, <3>2, <3>3
  <2>3. i \in 1 .. Len(s) \/ i = Len(s) + 1
    BY <1>5
  <2>. QED BY <2>1, <2>2, <2>3
<1>. QED BY <1>2, <1>3, <1>4, <1>5

\* What is left of the queue, and the task taken, have been given.
LEMMA TakeKeepsGiven ==
  ASSUME NEW s \in Seq(Tasks), NEW b \in Seq(Tasks), s # <<>>, Given(s), Given(b)
  PROVE  /\ Head(s) \in Tasks /\ Tail(s) \in Seq(Tasks) /\ Append(b, Head(s)) \in Seq(Tasks)
         /\ Given(Tail(s)) /\ Given(Append(b, Head(s)))
<1>1. Head(s) = s[1] /\ Len(s) \in Nat /\ 1 \in 1 .. Len(s) /\ Head(s) \in Tasks
  BY EmptySeq
<1>2. /\ Tail(s) \in Seq(Tasks) /\ Len(Tail(s)) = Len(s) - 1
      /\ \A i \in 1 .. Len(Tail(s)) : Tail(s)[i] = s[i + 1] /\ i + 1 \in 1 .. Len(s)
  BY <1>1
<1>3. Given(Tail(s))
  BY <1>2 DEF Given
<1>4. ASSUME NEW i \in 1 .. Len(Append(b, Head(s)))
      PROVE  \/ i \in 1 .. Len(b) /\ Append(b, Head(s))[i] = b[i]
             \/ Append(b, Head(s))[i] = s[1]
  BY <1>1, <1>4
<1>5. Given(Append(b, Head(s)))
  BY <1>1, <1>4 DEF Given
<1>. QED BY <1>1, <1>2, <1>3, <1>5
-----------------------------------------------------------------------------
(* The invariant.                                                          *)

\* The constructor's state.
LEMMA InitInv == Init => IndInv
<1>. SUFFICES ASSUME Init PROVE IndInv
  OBVIOUS
<1>1. queue = <<>> /\ begun = <<>> /\ Len(<<>>) = 0 /\ <<>> \in Seq(Tasks)
  BY DEF Init
<1>2. given \in [Producers -> 0 .. PerProducer]
  BY PoolAssumption DEF Init
<1>3. TypeOK
  BY <1>1, <1>2 DEF Init, TypeOK
<1>4. Given(queue) /\ Given(begun)
  BY <1>1 DEF Given
<1>. QED BY <1>3, <1>4 DEF Init, IndInv, RunsUntilStop, CallHasTask

\* Steps of the owner.
LEMMA OwnerInv ==
  ASSUME IndInv, Owner \/ stop
  PROVE  IndInv'
<1>. USE DEF IndInv, TypeOK, RunsUntilStop, CallHasTask, Given
<1>1. CASE start
  BY <1>1 DEF start
<1>2. ASSUME NEW w \in Workers, StartThread(w) PROVE IndInv'
  BY <1>2 DEF StartThread
<1>3. CASE Started
  BY <1>3 DEF Started
<1>4. CASE Joined
  BY <1>4 DEF Joined
<1>5. CASE stop
  <2>1. worker' = NotifyAll(worker, "take") /\ producer' = NotifyAll(producer, "run")
    BY <1>5 DEF stop
  <2>2. worker' \in [Workers -> WorkerPlaces]
    BY <2>1, WakeWorkers DEF WorkerPlaces
  <2>3. producer' \in [Producers -> ProducerPlaces]
    BY <2>1, WakeProducers DEF ProducerPlaces
  <2>4. \A p \in Producers : producer'[p] # "idle" => producer[p] # "idle"
    BY <2>1, WakeProducers DEF ProducerPlaces
  <2>. QED BY <1>5, <2>2, <2>3, <2>4 DEF stop, WorkerPlaces, ProducerPlaces
<1>. QED BY <1>1, <1>2, <1>3, <1>4, <1>5 DEF Owner

\* Steps of a producer.
LEMMA ProducerInv ==
  ASSUME IndInv, NEW p \in Producers, RunInline(p) \/ CallRun(p) \/ Run(p)
  PROVE  IndInv'
<1>t. /\ given \in [Producers -> 0 .. PerProducer] /\ PerProducer \in Nat
      /\ producer \in [Producers -> ProducerPlaces]
      /\ queue \in Seq(Tasks) /\ begun \in Seq(Tasks) /\ Given(queue) /\ Given(begun)
      /\ worker \in [Workers -> WorkerPlaces]
  BY PoolAssumption DEF IndInv, TypeOK, WorkerPlaces, ProducerPlaces
<1>1. CASE RunInline(p)
  <2>1. given[p] < PerProducer /\ given' = [given EXCEPT ![p] = @ + 1] /\ producer[p] = "idle"
        /\ begun' = Append(begun, NextTask(p))
        /\ UNCHANGED <<running, queue, worker, task, producer, main>>
    BY <1>1 DEF RunInline
  <2>2. NextTask(p) \in Tasks
    BY <2>1, NextTaskIsFresh
  <2>3. begun' \in Seq(Tasks)
    BY <2>1, <2>2, <1>t
  <2>4. TypeOK'
    BY <2>1, <2>3, GivenGrows DEF IndInv, TypeOK
  <2>5. Given(queue)' /\ Given(begun)'
    BY <2>1, <1>t, GivenGrows DEF Given
  <2>6. CallHasTask'
    BY <2>1, GivenGrows DEF IndInv, CallHasTask
  <2>. QED BY <2>1, <2>4, <2>5, <2>6 DEF IndInv, RunsUntilStop
<1>2. CASE CallRun(p)
  BY <1>2 DEF CallRun, NoThreads, IndInv, TypeOK, RunsUntilStop, CallHasTask, Given
<1>3. CASE Run(p)
  <2>1. CASE isFull /\ running
    <3>1. producer[p] # "idle" /\ producer' = [producer EXCEPT ![p] = "wait"]
          /\ UNCHANGED <<running, queue, worker, task, given, main, begun>>
      BY <1>3, <2>1 DEF Run
    <3>. QED BY <3>1 DEF IndInv, TypeOK, RunsUntilStop, CallHasTask, Given
  <2>2. CASE ~(isFull /\ running)
    <3>1. producer[p] # "idle" /\ producer' = [producer EXCEPT ![p] = "idle"]
          /\ given' = [given EXCEPT ![p] = @ + 1]
          /\ (IF running THEN push(p) ELSE UNCHANGED <<queue, worker>>)
          /\ UNCHANGED <<running, task, main, begun>>
      BY <1>3, <2>2 DEF Run
    <3>2. given[p] < PerProducer
      BY <3>1 DEF IndInv, CallHasTask
    <3>3. NextTask(p) \in Tasks
      BY <3>2, NextTaskIsFresh
    <3>4. queue' = queue \/ queue' = Append(queue, NextTask(p))
      BY <3>1 DEF push
    <3>5. queue' \in Seq(Tasks)
      <4>1. Append(queue, NextTask(p)) \in Seq(Tasks)
        BY <3>3, <1>t, AppendProperties
      <4>. QED BY <3>4, <4>1, <1>t, Zenon
    <3>6. worker' \in [Workers -> WorkerPlaces]
      <4>1. CASE worker' = worker
        BY <4>1, <1>t
      <4>2. CASE worker' \in NotifyOne(worker, "take")
        BY <4>2, <1>t, WakeWorkers
      <4>. QED BY <4>1, <4>2, <3>1 DEF push
    <3>7. TypeOK'
      <4>1. given' \in [Producers -> 0 .. PerProducer]
        BY <3>1, <3>2, GivenGrows
      <4>2. producer' \in [Producers -> ProducerPlaces]
        BY <3>1, <1>t DEF ProducerPlaces
      <4>. QED BY <3>1, <3>5, <3>6, <4>1, <4>2 DEF IndInv, TypeOK, WorkerPlaces, ProducerPlaces
    <3>8. Given(queue)' /\ Given(begun)'
      BY <3>1, <3>2, <3>4, <1>t, GivenGrows, ZenonT(60) DEF Given
    <3>9. CallHasTask'
      <4>1. \A q \in Producers : q # p => given'[q] = given[q] /\ producer'[q] = producer[q]
        BY <3>1, <3>2, GivenGrows, <1>t
      <4>2. producer'[p] = "idle"
        BY <3>1, <1>t
      <4>. QED BY <4>1, <4>2 DEF IndInv, CallHasTask
    <3>. QED BY <3>1, <3>7, <3>8, <3>9 DEF IndInv, RunsUntilStop
  <2>. QED BY <2>1, <2>2
<1>. QED BY <1>1, <1>2, <1>3

\* Steps of a worker.
LEMMA WorkerInv ==
  ASSUME IndInv, NEW w \in Workers, Worker(w)
  PROVE  IndInv'
<1>1. CASE CountDown(w)
  BY <1>1 DEF CountDown, IndInv, TypeOK, RunsUntilStop, CallHasTask, Given
<1>2. CASE Check(w)
  BY <1>2 DEF Check, IndInv, TypeOK, RunsUntilStop, CallHasTask, Given
<1>3. CASE take(w)
  <2>1. CASE queue = <<>>
    BY <1>3, <2>1 DEF take, IndInv, TypeOK, RunsUntilStop, CallHasTask, Given
  <2>2. CASE queue # <<>>
    <3>1. /\ worker' = [worker EXCEPT ![w] = "exec"]
          /\ task' = [task EXCEPT ![w] = Head(queue)]
          /\ begun' = Append(begun, Head(queue)) /\ queue' = Tail(queue)
          /\ notifyNotFull /\ UNCHANGED <<running, given, main>>
      BY <1>3, <2>2 DEF take
    <3>2. queue \in Seq(Tasks) /\ begun \in Seq(Tasks) /\ Given(queue) /\ Given(begun)
      BY DEF IndInv, TypeOK
    <3>3. /\ Head(queue) \in Tasks /\ queue' \in Seq(Tasks) /\ begun' \in Seq(Tasks)
          /\ Given(queue)' /\ Given(begun)'
      BY <2>2, <3>1, <3>2, TakeKeepsGiven DEF Given
    <3>4. /\ producer' \in [Producers -> ProducerPlaces]
          /\ \A p \in Producers : producer'[p] # "idle" => producer[p] # "idle"
      <4>t. producer \in [Producers -> ProducerPlaces]
        BY DEF IndInv, TypeOK, ProducerPlaces
      <4>1. CASE producer' = producer
        BY <4>1, <4>t
      <4>2. CASE producer' \in NotifyOne(producer, "run")
        BY <4>2, <4>t, WakeProducers
      <4>. QED BY <3>1, <4>1, <4>2 DEF notifyNotFull
    <3>5. TypeOK'
      BY <3>1, <3>3, <3>4 DEF IndInv, TypeOK, ProducerPlaces
    <3>6. CallHasTask'
      BY <3>1, <3>4 DEF IndInv, CallHasTask
    <3>. QED BY <3>1, <3>3, <3>5, <3>6 DEF IndInv, RunsUntilStop
  <2>. QED BY <2>1, <2>2
<1>4. CASE Exec(w)
  BY <1>4 DEF Exec, IndInv, TypeOK, RunsUntilStop, CallHasTask, Given
<1>. QED BY <1>1, <1>2, <1>3, <1>4 DEF Worker

\* Every step.
LEMMA NextInv == IndInv /\ [Next]_vars => IndInv'
<1>. SUFFICES ASSUME IndInv, [Next]_vars PROVE IndInv'
  OBVIOUS
<1>1. CASE SpuriousWakeup
  BY <1>1 DEF SpuriousWakeup, Waiting, IndInv, TypeOK, RunsUntilStop, CallHasTask, Given
<1>2. CASE UNCHANGED vars
  BY <1>2 DEF vars, IndInv, TypeOK, RunsUntilStop, CallHasTask, Given
<1>. QED BY <1>1, <1>2, OwnerInv, ProducerInv, WorkerInv DEF Next, Finished

\* The invariant holds in every reachable state of the pool.
THEOREM Invariance == Spec => []IndInv
BY InitInv, NextInv, PTL DEF Spec

\* The pool's variables have their types, the numbers of the tasks included: a
\* producer inside run() never gives more tasks than it has.
THEOREM TypeCorrect == Spec => []TypeOK
<1>1. IndInv => TypeOK
  BY DEF IndInv
<1>. QED BY <1>1, Invariance, PTL

-----------------------------------------------------------------------------
(* The refinement.                                                         *)

\* phase depends on main only.
LEMMA PhaseFollowsMain == main' = main => phase' = phase
BY DEF phase

\* A step of the pool is one of TaskPool, or changes nothing that TaskPool sees.
LEMMA NextIsPool == IndInv /\ [Next]_vars => [Pool!Next]_(Pool!vars)
<1>. SUFFICES ASSUME IndInv, [Next]_vars PROVE Pool!Next \/ UNCHANGED <<phase, queue, begun>>
  BY DEF Pool!vars
<1>1. CASE start
  <2>1. phase = "new" /\ phase' \in {"new", "running"}
    BY <1>1 DEF start, phase
  <2>. QED BY <1>1, <2>1 DEF start, Pool!Next, Pool!Start
<1>2. CASE stop
  <2>1. phase' = phase \/ (phase = "running" /\ phase' = "stopped")
    BY <1>2 DEF stop, phase
  <2>. QED BY <1>2, <2>1 DEF stop, Pool!Next, Pool!Stop
<1>3. CASE Started
  BY <1>3 DEF Started, phase
<1>4. CASE Joined
  BY <1>4 DEF Joined, phase
<1>5. ASSUME NEW w \in Workers, StartThread(w) \/ CountDown(w) \/ Check(w) \/ Exec(w)
      PROVE  UNCHANGED <<phase, queue, begun>>
  BY <1>5, PhaseFollowsMain DEF StartThread, CountDown, Check, Exec
<1>6. ASSUME NEW w \in Workers, take(w)
      PROVE  Pool!Next \/ UNCHANGED <<phase, queue, begun>>
  BY <1>6, PhaseFollowsMain DEF take, Pool!Next, Pool!Begin
<1>7. ASSUME NEW p \in Producers, RunInline(p)
      PROVE  Pool!Next
  <2>1. (main = "new" \/ Workers = {}) /\ given[p] < PerProducer
    BY <1>7 DEF RunInline, NoThreads
  <2>2. NextTask(p) \in Tasks \ Pool!Known
    BY <2>1, NextTaskIsFresh
  <2>3. phase = "new"
    BY <2>1 DEF phase
  <2>4. Pool!Inline
    BY <1>7, <2>2, <2>3, PhaseFollowsMain DEF RunInline, Pool!Inline
  <2>. QED BY <2>4 DEF Pool!Next
<1>8. ASSUME NEW p \in Producers, CallRun(p)
      PROVE  UNCHANGED <<phase, queue, begun>>
  BY <1>8, PhaseFollowsMain DEF CallRun
<1>9. ASSUME NEW p \in Producers, Run(p)
      PROVE  Pool!Next \/ UNCHANGED <<phase, queue, begun>>
  <2>1. main' = main /\ begun' = begun /\ producer[p] # "idle"
    BY <1>9 DEF Run
  <2>2. CASE queue' = queue
    BY <2>1, <2>2, PhaseFollowsMain
  <2>3. CASE queue' # queue
    <3>1. running /\ queue' = Append(queue, NextTask(p))
      BY <1>9, <2>3 DEF Run, push
    <3>2. phase = "running"
      BY <2>1, <3>1 DEF IndInv, RunsUntilStop, CallHasTask, phase
    <3>3. given[p] < PerProducer
      BY <2>1 DEF IndInv, CallHasTask
    <3>4. NextTask(p) \in Tasks \ Pool!Known
      BY <3>3, NextTaskIsFresh
    <3>5. Pool!Accept
      BY <2>1, <3>1, <3>2, <3>4, PhaseFollowsMain DEF Pool!Accept
    <3>. QED BY <3>5 DEF Pool!Next
  <2>. QED BY <2>2, <2>3
<1>10. CASE SpuriousWakeup
  BY <1>10, PhaseFollowsMain DEF SpuriousWakeup
<1>11. CASE UNCHANGED vars
  BY <1>11, PhaseFollowsMain DEF vars
<1>. QED BY <1>1, <1>2, <1>3, <1>4, <1>5, <1>6, <1>7, <1>8, <1>9, <1>10, <1>11
         DEF Next, Owner, Worker, Finished

\* The pool keeps the promise of TaskPool as far as it is one of safety: a task
\* begins in its caller or after it was accepted, in that order and once, and
\* none is accepted once stop() has cleared running_, although workers and
\* producers read running_ and wait between those steps.
THEOREM PoolIsSafe == Spec => PoolSafety
<1>1. Init => Pool!Init
  BY DEF Init, Pool!Init, phase
<1>. QED BY <1>1, Invariance, NextIsPool, PTL DEF Spec, PoolSafety

=============================================================================
