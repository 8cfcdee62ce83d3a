-------------------------- MODULE TimerQueueProofs --------------------------
(***************************************************************************)
(* On the loop's thread TimerQueue fails no assert, and leaks, deletes     *)
(* twice or uses after its deletion no Timer; it honours every cancel that *)
(* does not overtake its addTimerInLoop.  This holds for any set of        *)
(* addresses, any number of timers and of functors, any behaviour of the   *)
(* clock and of TimeStamp, and whatever an addTimer in another thread      *)
(* reads from a Timer that was deleted meanwhile.                          *)
(***************************************************************************)
EXTENDS TimerQueue, FiniteSetTheorems, FunctionTheorems, SequenceTheorems, TLAPS

\* Entries and ActiveTimers describe their Timer as it is now.
EntriesCurrent ==
  /\ \A e \in timers : e[2] \in live /\ e[1] = expiration[e[2]]
  /\ \A x \in active : x[1] \in live /\ x[2] = sequence[x[1]]
  /\ \A a \in live : EntryOf(a) \in timers <=> TimerOf(a) \in active
  /\ \A e \in expired : e[2] \in live /\ e[1] = expiration[e[2]]

\* Every Timer is queued, scheduled or expired, and only one of these.
OneOwner ==
  /\ queued \subseteq live
  /\ \A a \in live : a \in queued \/ EntryOf(a) \in timers \/ EntryOf(a) \in expired
  /\ \A a \in queued : EntryOf(a) \notin timers /\ EntryOf(a) \notin expired
  /\ timers \cap expired = {}

\* A queued addTimerInLoop has the only pointer to a Timer that exists.
QueuedExist ==
  /\ \A i \in DOMAIN pending : pending[i].op = "add" => Names(pending[i].timer)
  /\ \A i, j \in DOMAIN pending :
       pending[i].op = "add" /\ pending[j].op = "add" /\ pending[i].timer = pending[j].timer
         => i = j

\* The batch exists only while handleRead runs; sequence numbers are not reused.
BatchAndIds ==
  /\ phase = "idle" => expired = {}
  /\ \A a \in live : sequence[a] < numCreated
  /\ \A id \in cancelled : id[2] < numCreated

\* The inductive invariant.
IndInv ==
  /\ TypeOK
  /\ IsFiniteSet(live)
  /\ EntriesCurrent
  /\ OneOwner
  /\ QueuedExist
  /\ BatchAndIds
  /\ CancelHonoured
  /\ ~failed

-----------------------------------------------------------------------------
\* The two sets have the same size: the addresses in one are those in the other.
LEMMA SizesAgreeLemma == IndInv => SizesAgree
<1> SUFFICES ASSUME IndInv PROVE Cardinality(timers) = Cardinality(active)
  BY DEF SizesAgree
<1> DEFINE addr == [e \in timers |-> e[2]]
           f == [e \in timers |-> <<e[2], sequence[e[2]]>>]
<1>a. \A e \in timers : e[2] \in live /\ e = <<expiration[e[2]], e[2]>>
  BY DEF IndInv, TypeOK, EntriesCurrent
<1>b. \A x \in active : x[1] \in live /\ x = <<x[1], sequence[x[1]]>>
  BY DEF IndInv, TypeOK, EntriesCurrent
<1>c. \A b \in live : <<expiration[b], b>> \in timers <=> <<b, sequence[b]>> \in active
  BY DEF IndInv, EntriesCurrent, EntryOf, TimerOf
<1>1. IsFiniteSet(timers)
  <2>1. addr \in Injection(timers, live)
    BY <1>a DEF Injection, IsInjective
  <2>2. IsFiniteSet(live)
    BY DEF IndInv
  <2> QED
    BY <2>1, <2>2, FS_Injection
<1>2. f \in Bijection(timers, active)
  <2>1. ASSUME NEW e \in timers PROVE f[e] \in active
    BY <1>a, <1>c
  <2>2. ASSUME NEW e1 \in timers, NEW e2 \in timers, f[e1] = f[e2] PROVE e1 = e2
    <3>1. e1[2] = e2[2]
      BY <2>2
    <3> QED
      BY <1>a, <3>1
  <2>3. ASSUME NEW x \in active PROVE \E e \in timers : f[e] = x
    <3>1. x = <<x[1], sequence[x[1]]>> /\ <<expiration[x[1]], x[1]>> \in timers
      BY <1>b, <1>c
    <3> QED
      BY <3>1
  <2> QED
    BY <2>1, <2>2, <2>3, Zenon DEF Bijection, Injection, IsInjective, Surjection
<1> QED
  BY <1>1, <1>2, FS_Bijection DEF ExistsBijection

\* Initially there is no Timer.
LEMMA InitInv == Init => IndInv
<1> SUFFICES ASSUME Init PROVE IndInv
  OBVIOUS
<1> USE DEF Init
<1>1. TypeOK
  <2>1. pending \in Seq(Functor)
    BY EmptySeq
  <2>2. sequence \in [Addrs -> Nat] /\ expiration \in [Addrs -> Stamps]
        /\ interval \in [Addrs -> Intervals \cup {0}] /\ now \in Stamps
    BY TimerAssumption
  <2> QED
    BY <2>1, <2>2 DEF TypeOK
<1>2. IsFiniteSet(live)
  BY FS_EmptySet
<1>3. EntriesCurrent /\ OneOwner /\ QueuedExist /\ BatchAndIds /\ CancelHonoured
  BY DEF EntriesCurrent, OneOwner, QueuedExist, BatchAndIds, CancelHonoured, queued
<1> QED
  BY <1>1, <1>2, <1>3 DEF IndInv

\* What the next action does to the queue of functors.
LEMMA AppendFunctor ==
  ASSUME TypeOK, NEW f \in Functor, pending' = Append(pending, f)
  PROVE  /\ pending' \in Seq(Functor)
         /\ DOMAIN pending = 1 .. Len(pending) /\ Len(pending) \in Nat
         /\ DOMAIN pending' = 1 .. Len(pending) + 1
         /\ \A i \in 1 .. Len(pending) : pending'[i] = pending[i]
         /\ pending'[Len(pending) + 1] = f
         /\ f.op = "add" => queued' = queued \cup {f.timer[1]}
         /\ f.op = "cancel" => queued' = queued
<1>1. pending \in Seq(Functor)
  BY DEF TypeOK
<1>2. /\ pending' \in Seq(Functor)
      /\ DOMAIN pending = 1 .. Len(pending) /\ Len(pending) \in Nat
      /\ DOMAIN pending' = 1 .. Len(pending) + 1
      /\ \A i \in 1 .. Len(pending) : pending'[i] = pending[i]
      /\ pending'[Len(pending) + 1] = f
  BY <1>1, AppendProperties
<1>3. \A i \in DOMAIN pending' : i \in DOMAIN pending \/ i = Len(pending) + 1
  BY <1>2
<1>4. \A i \in DOMAIN pending : i \in DOMAIN pending' /\ pending'[i] = pending[i]
  BY <1>2
<1>5. Len(pending) + 1 \in DOMAIN pending'
  BY <1>2
<1>6. f.op = "add" => queued' = queued \cup {f.timer[1]}
  BY <1>2, <1>3, <1>4, <1>5 DEF queued
<1>7. f.op = "cancel" => queued' = queued
  BY <1>2, <1>3, <1>4, <1>5 DEF queued
<1> QED
  BY <1>2, <1>6, <1>7

LEMMA TailFunctor ==
  ASSUME TypeOK, pending # <<>>, pending' = Tail(pending)
  PROVE  /\ pending' \in Seq(Functor)
         /\ Head(pending) \in Functor /\ 1 \in DOMAIN pending /\ pending[1] = Head(pending)
         /\ \A i \in DOMAIN pending' : i \in Nat /\ i + 1 \in DOMAIN pending
                                       /\ pending'[i] = pending[i + 1]
         /\ \A i \in DOMAIN pending : /\ i \in Nat
                                      /\ i # 1 => i - 1 \in DOMAIN pending' /\ pending'[i - 1] = pending[i]
<1>1. pending \in Seq(Functor)
  BY DEF TypeOK
<1>2. /\ pending' \in Seq(Functor) /\ Head(pending) = pending[1] /\ Head(pending) \in Functor
      /\ Len(pending) \in Nat /\ Len(pending) # 0
      /\ Len(pending') = Len(pending) - 1
      /\ \A i \in 1 .. Len(pending) - 1 : pending'[i] = pending[i + 1]
  BY <1>1, HeadTailProperties, LenProperties, EmptySeq
<1>3. DOMAIN pending = 1 .. Len(pending) /\ DOMAIN pending' = 1 .. Len(pending) - 1
  BY <1>1, <1>2, LenProperties
<1>4. \A i \in 2 .. Len(pending) : pending'[i - 1] = pending[i]
  <2> SUFFICES ASSUME NEW i \in 2 .. Len(pending) PROVE pending'[i - 1] = pending[i]
    OBVIOUS
  <2>1. i - 1 \in 1 .. Len(pending) - 1 /\ (i - 1) + 1 = i
    BY <1>2
  <2> QED
    BY <1>2, <2>1
<1> QED
  BY <1>2, <1>3, <1>4

\* A step that leaves the functors alone leaves the queued Timers alone.
LEMMA SameFunctors == pending' = pending => queued' = queued
  BY DEF queued

\* newTimer uses a free address and a fresh sequence number.
LEMMA NewTimer ==
  ASSUME IndInv, NEW a \in Addrs, NEW d \in Delays, NEW i \in Intervals, NEW r \in Readings,
         newTimer(a, d, i, r)
  PROVE  /\ a \notin live /\ a \notin queued /\ numCreated \in Nat /\ numCreated' \in Nat
         /\ addTime(TimeStamp(r), d) \in Stamps
         /\ sequence' \in [Addrs -> Nat] /\ expiration' \in [Addrs -> Stamps]
         /\ interval' \in [Addrs -> Intervals \cup {0}]
         /\ live' \subseteq Addrs /\ IsFiniteSet(live')
         /\ \A b \in live : b # a /\ sequence'[b] = sequence[b] /\ expiration'[b] = expiration[b]
         /\ expiration'[a] = addTime(TimeStamp(r), d) /\ sequence'[a] = numCreated
         /\ \A e \in timers \cup expired : e[2] # a
         /\ \A x \in active : x[1] # a
         /\ \A id \in cancelled : Names(id)' <=> Names(id)
         /\ \A x : Names(x) => Names(x)' /\ x # <<a, numCreated>>
         /\ \A x : x = <<a, numCreated>> => Names(x)'
         /\ \A b \in live' : sequence'[b] < numCreated'
         /\ \A id \in cancelled : id[2] < numCreated'
<1>0. TypeOK
  BY DEF IndInv
<1> USE DEF newTimer
<1>1. addTime(TimeStamp(r), d) \in Stamps
  BY TimerAssumption DEF addTime
<1>2. numCreated + 1 \in Nat /\ numCreated \in Nat
  BY <1>0 DEF TypeOK
<1>3. /\ sequence' \in [Addrs -> Nat] /\ expiration' \in [Addrs -> Stamps]
      /\ interval' \in [Addrs -> Intervals \cup {0}] /\ live' \subseteq Addrs
  BY <1>0, <1>1, <1>2 DEF TypeOK
<1>4. IsFiniteSet(live')
  BY FS_AddElement DEF IndInv
<1>5. \A b \in live : b # a /\ sequence'[b] = sequence[b] /\ expiration'[b] = expiration[b]
  BY <1>0 DEF TypeOK
<1>6. expiration'[a] = addTime(TimeStamp(r), d) /\ sequence'[a] = numCreated
  BY <1>0 DEF TypeOK
<1>7. a \notin live /\ a \notin queued
  BY DEF IndInv, OneOwner
<1>8. (\A e \in timers \cup expired : e[2] # a) /\ (\A x \in active : x[1] # a)
  BY <1>7 DEF IndInv, EntriesCurrent
<1>9. \A id \in cancelled : id[2] < numCreated /\ id[2] \in Nat /\ id = <<id[1], id[2]>>
  BY <1>0 DEF IndInv, BatchAndIds, TypeOK
<1>10. \A id \in cancelled : Names(id)' <=> Names(id)
  <2> SUFFICES ASSUME NEW id \in cancelled PROVE Names(id)' <=> Names(id)
    OBVIOUS
  <2>1. CASE id[1] = a
    BY <1>2, <1>6, <1>7, <1>9, <2>1 DEF Names, TimerOf
  <2>2. CASE id[1] # a
    BY <1>5, <2>2 DEF Names, TimerOf
  <2> QED
    BY <2>1, <2>2
<1>11. \A b \in live' : sequence'[b] < numCreated'
  <2>1. \A b \in live : sequence[b] \in Nat /\ sequence[b] < numCreated
    BY <1>0 DEF IndInv, BatchAndIds, TypeOK
  <2> QED
    BY <1>2, <1>5, <1>6, <2>1
<1>12. \A id \in cancelled : id[2] < numCreated'
  BY <1>2, <1>9
<1>13. \A x : Names(x) => Names(x)' /\ x # <<a, numCreated>>
  BY <1>5, <1>7 DEF Names, TimerOf
<1>14. \A x : x = <<a, numCreated>> => Names(x)'
  BY <1>6 DEF Names, TimerOf
<1> QED
  BY <1>1, <1>2, <1>3, <1>4, <1>5, <1>6, <1>7, <1>8, <1>10, <1>11, <1>12, <1>13, <1>14

\* addTimer on the loop's thread puts the new Timer into both sets.
LEMMA AddTimerInv ==
  ASSUME IndInv, NEW a \in Addrs, NEW d \in Delays, NEW i \in Intervals, NEW r \in Readings,
         addTimer(a, d, i, r)
  PROVE  IndInv'
<1> DEFINE when == addTime(TimeStamp(r), d)
           timer == <<a, numCreated>>
<1>0. TypeOK
  BY DEF IndInv
<1>n. newTimer(a, d, i, r)
  BY DEF addTimer
<1>a. live' = live \cup {a}
  BY <1>n DEF newTimer
<1>b. /\ timers' = timers \cup {<<when, a>>} /\ active' = active \cup {timer}
      /\ failed' = (failed \/ ~(SizesAgree /\ <<when, a>> \notin timers /\ timer \notin active))
      /\ pending' = pending /\ returning' = returning /\ ids' = ids \cup {timer}
      /\ UNCHANGED <<canceling, phase, expired, toRun, now, cancelled>>
  BY DEF addTimer, addTimerInLoop, Asserts, callVars, batchVars
<1>c. armed' \in BOOLEAN /\ readable' \in BOOLEAN
  BY <1>0, Zenon DEF addTimer, addTimerInLoop, fdVars, TypeOK
<1>d. /\ a \notin live /\ a \notin queued /\ numCreated \in Nat /\ numCreated' \in Nat
      /\ when \in Stamps
      /\ sequence' \in [Addrs -> Nat] /\ expiration' \in [Addrs -> Stamps]
      /\ interval' \in [Addrs -> Intervals \cup {0}]
      /\ live' \subseteq Addrs /\ IsFiniteSet(live')
      /\ \A b \in live : b # a /\ sequence'[b] = sequence[b] /\ expiration'[b] = expiration[b]
      /\ expiration'[a] = when /\ sequence'[a] = numCreated
      /\ \A e \in timers \cup expired : e[2] # a
      /\ \A x \in active : x[1] # a
      /\ \A id \in cancelled : Names(id)' <=> Names(id)
      /\ \A x : Names(x) => Names(x)' /\ x # timer
      /\ \A x : x = timer => Names(x)'
      /\ \A b \in live' : sequence'[b] < numCreated'
      /\ \A id \in cancelled : id[2] < numCreated'
  BY <1>n, NewTimer
<1>e. queued' = queued
  BY <1>b, SameFunctors
<1> HIDE DEF when
<1> USE DEF EntryOf, TimerOf
<1>1. TypeOK'
  <2>1. failed' \in BOOLEAN
    BY <1>b, Zenon
  <2> QED
    BY <1>0, <1>b, <1>c, <1>d, <2>1 DEF TypeOK
<1>3. EntriesCurrent'
  BY <1>0, <1>a, <1>b, <1>d DEF IndInv, TypeOK, EntriesCurrent
<1>4. OneOwner'
  BY <1>0, <1>a, <1>b, <1>d, <1>e DEF IndInv, TypeOK, EntriesCurrent, OneOwner
<1>5. QueuedExist'
  <2>1. \A x : Names(x) => x[1] \in live' /\ <<x[1], sequence'[x[1]]>> = x
    BY <1>d DEF Names
  <2> QED
    BY <1>b, <2>1 DEF IndInv, QueuedExist, Names
<1>6. BatchAndIds'
  BY <1>b, <1>d DEF IndInv, BatchAndIds
<1>7. CancelHonoured'
  BY <1>b, <1>d DEF IndInv, CancelHonoured
<1>8. ~failed'
  <2>1. SizesAgree /\ ~failed
    BY SizesAgreeLemma DEF IndInv
  <2>2. <<when, a>> \notin timers /\ timer \notin active
    BY <1>d
  <2> QED
    BY <1>b, <2>1, <2>2
<1> QED
  BY <1>1, <1>d, <1>3, <1>4, <1>5, <1>6, <1>7, <1>8 DEF IndInv

\* addTimer in another thread makes a queued functor the owner of the new Timer.
LEMMA AddTimerElsewhereInv ==
  ASSUME IndInv, NEW a \in Addrs, NEW d \in Delays, NEW i \in Intervals, NEW r \in Readings,
         addTimerElsewhere(a, d, i, r)
  PROVE  IndInv'
<1> DEFINE timer == <<a, numCreated>>
           f == Add(timer)
           n == Len(pending)
<1>0. TypeOK
  BY DEF IndInv
<1>n. newTimer(a, d, i, r)
  BY DEF addTimerElsewhere
<1>a. live' = live \cup {a}
  BY <1>n DEF newTimer
<1>b. /\ pending' = Append(pending, f) /\ returning' = returning \cup {timer}
      /\ UNCHANGED <<timers, active, canceling, phase, expired, toRun, now, armed, readable,
                     ids, cancelled, failed>>
  BY DEF addTimerElsewhere, setVars, batchVars, fdVars, userVars
<1>d. /\ a \notin live /\ a \notin queued /\ numCreated \in Nat /\ numCreated' \in Nat
      /\ sequence' \in [Addrs -> Nat] /\ expiration' \in [Addrs -> Stamps]
      /\ interval' \in [Addrs -> Intervals \cup {0}]
      /\ live' \subseteq Addrs /\ IsFiniteSet(live')
      /\ \A b \in live : b # a /\ sequence'[b] = sequence[b] /\ expiration'[b] = expiration[b]
      /\ sequence'[a] = numCreated
      /\ \A e \in timers \cup expired : e[2] # a
      /\ \A x \in active : x[1] # a
      /\ \A id \in cancelled : Names(id)' <=> Names(id)
      /\ \A x : Names(x) => Names(x)' /\ x # timer
      /\ \A x : x = timer => Names(x)'
      /\ \A b \in live' : sequence'[b] < numCreated'
      /\ \A id \in cancelled : id[2] < numCreated'
  BY <1>n, NewTimer
<1>f. f \in Functor /\ f.op = "add" /\ f.timer = timer
  BY <1>d DEF Functor, Add
<1>e. /\ pending' \in Seq(Functor)
      /\ DOMAIN pending = 1 .. n /\ n \in Nat
      /\ DOMAIN pending' = 1 .. n + 1
      /\ \A j \in 1 .. n : pending'[j] = pending[j]
      /\ pending'[n + 1] = f
      /\ queued' = queued \cup {a}
  <2> HIDE DEF f
  <2>1. f.timer[1] = a
    BY <1>f
  <2> QED
    BY <1>0, <1>b, <1>f, <2>1, AppendFunctor
<1>g. \A j \in DOMAIN pending' : \/ j \in DOMAIN pending /\ pending'[j] = pending[j]
                                 \/ j = n + 1 /\ pending'[j] = f
  BY <1>e
<1>h. \A j \in DOMAIN pending : j \in DOMAIN pending' /\ pending'[j] = pending[j]
  BY <1>e
<1> HIDE DEF f, n
<1> USE DEF EntryOf, TimerOf
<1>1. TypeOK'
  <2>1. returning' \subseteq Addrs \X Nat
    BY <1>0, <1>b, <1>d DEF TypeOK
  <2> QED
    BY <1>0, <1>b, <1>d, <1>e, <2>1 DEF TypeOK
<1>3. EntriesCurrent'
  BY <1>0, <1>a, <1>b, <1>d DEF IndInv, TypeOK, EntriesCurrent
<1>4. OneOwner'
  BY <1>0, <1>a, <1>b, <1>d, <1>e DEF IndInv, TypeOK, EntriesCurrent, OneOwner
<1>5. QueuedExist'
  <2>1. ASSUME NEW j \in DOMAIN pending, pending[j].op = "add"
        PROVE  Names(pending[j].timer) /\ pending[j].timer # timer
    BY <1>d, <2>1 DEF IndInv, QueuedExist
  <2>2. ASSUME NEW t, Names(t) \/ t = timer PROVE Names(t)'
    BY <1>d, <2>2
  <2>3. ASSUME NEW j \in DOMAIN pending', pending'[j].op = "add" PROVE Names(pending[j].timer)'
    <3> DEFINE t == pending'[j].timer
    <3>1. Names(t) \/ t = timer
      BY <1>f, <1>g, <2>1, <2>3
    <3> QED
      BY <1>d, <3>1 DEF Names
  <2>4. ASSUME NEW j \in DOMAIN pending', NEW k \in DOMAIN pending', pending'[j].op = "add",
               pending'[k].op = "add", pending'[j].timer = pending'[k].timer
        PROVE  j = k
    BY <1>f, <1>g, <2>1, <2>4 DEF IndInv, QueuedExist
  <2> QED
    BY <2>3, <2>4 DEF QueuedExist
<1>6. BatchAndIds'
  BY <1>b, <1>d DEF IndInv, BatchAndIds
<1>7. CancelHonoured'
  <2> SUFFICES ASSUME NEW id \in cancelled, Names(id)
               PROVE  \/ id \in canceling /\ \E e \in expired : e[2] = id[1]
                      \/ \E j \in DOMAIN pending' :
                           /\ pending'[j] = Cancel(id)
                           /\ \A k \in DOMAIN pending' : pending'[k] = Add(id) => k < j
    BY <1>b, <1>d DEF CancelHonoured
  <2>1. CASE id \in canceling /\ \E e \in expired : e[2] = id[1]
    BY <2>1
  <2>2. CASE \E j \in DOMAIN pending : /\ pending[j] = Cancel(id)
                                       /\ \A k \in DOMAIN pending : pending[k] = Add(id) => k < j
    <3>1. f # Add(id)
      BY <1>d, <1>f DEF Names, Add
    <3> QED
      BY <1>g, <1>h, <2>2, <3>1
  <2> QED
    BY <2>1, <2>2 DEF IndInv, CancelHonoured
<1>8. ~failed'
  BY <1>b DEF IndInv
<1> QED
  BY <1>1, <1>d, <1>3, <1>4, <1>5, <1>6, <1>7, <1>8 DEF IndInv

\* The end of addTimer in another thread only makes up a TimerId.
LEMMA AddTimerReturnsInv ==
  ASSUME IndInv, NEW call \in returning, addTimerReturns(call)
  PROVE  IndInv'
<1> USE DEF addTimerReturns, heapVars, setVars, batchVars, fdVars
<1>0. TypeOK /\ call \in Addrs \X Nat
  BY DEF IndInv, TypeOK
<1>1. TypeOK'
  <2>1. PICK s \in IF call[1] \in live THEN {sequence[call[1]]} ELSE Residue :
               ids' = ids \cup {<<call[1], s>>}
    OBVIOUS
  <2>2. s \in Nat
    BY <1>0, <2>1, TimerAssumption DEF TypeOK
  <2>3. ids' \subseteq Addrs \X Nat /\ ids \subseteq ids'
    BY <1>0, <2>1, <2>2 DEF TypeOK
  <2> QED
    BY <1>0, <2>3 DEF TypeOK
<1>2. (EntriesCurrent /\ OneOwner /\ QueuedExist /\ BatchAndIds /\ CancelHonoured)'
  BY SameFunctors
     DEF IndInv, EntriesCurrent, OneOwner, QueuedExist, BatchAndIds, CancelHonoured, EntryOf, TimerOf, Names
<1> QED
  BY <1>1, <1>2 DEF IndInv

\* cancelInLoop deletes a scheduled Timer, and no other.
LEMMA CancelInLoop ==
  ASSUME IndInv, NEW id \in Addrs \X Nat, cancelInLoop(id), UNCHANGED <<phase, expired>>,
         queued' \subseteq queued, \A a \in live : a \in queued => a \in queued'
  PROVE  /\ live' \subseteq Addrs /\ IsFiniteSet(live')
         /\ timers' \subseteq Stamps \X Addrs /\ active' \subseteq Addrs \X Nat
         /\ canceling' \subseteq Addrs \X Nat
         /\ canceling \subseteq canceling'
         /\ phase = "callback" /\ id \notin active => id \in canceling'
         /\ failed' = FALSE
         /\ UNCHANGED <<sequence, expiration, interval, numCreated>>
         /\ EntriesCurrent' /\ OneOwner'
         /\ live' \subseteq live
         /\ \A a \in queued : a \in live'
         /\ id \in active => ~Names(id)'
         /\ Names(id) /\ id[1] \notin queued /\ id \notin active => \E e \in expired : e[2] = id[1]
<1> USE DEF cancelInLoop, EntryOf, TimerOf, Asserts
<1>0. TypeOK /\ id[1] \in Addrs /\ id = <<id[1], id[2]>>
  BY DEF IndInv
<1>a. SizesAgree
  BY SizesAgreeLemma
<1>b. UNCHANGED <<sequence, expiration, interval, numCreated>>
  OBVIOUS
<1>1. CASE id \in active
  <2>0. id[1] \in live /\ TimerOf(id[1]) = id /\ EntryOf(id[1]) \in timers
    BY <1>0, <1>1 DEF IndInv, EntriesCurrent
  <2>a. id[1] \notin queued /\ EntryOf(id[1]) \notin expired
    BY <2>0 DEF IndInv, OneOwner
  <2>b. /\ timers' = timers \ {EntryOf(id[1])} /\ active' = active \ {id}
        /\ live' = live \ {id[1]} /\ canceling' = canceling
    BY <1>1
  <2>1. /\ live' \subseteq Addrs
        /\ timers' \subseteq Stamps \X Addrs /\ active' \subseteq Addrs \X Nat
        /\ canceling' \subseteq Addrs \X Nat
    BY <1>0, <2>b DEF TypeOK
  <2>2. IsFiniteSet(live')
    BY <2>b, FS_RemoveElement DEF IndInv
  <2>3. EntriesCurrent'
    BY <1>0, <1>b, <2>0, <2>b, <2>a DEF IndInv, TypeOK, EntriesCurrent, OneOwner
  <2>4. OneOwner'
    BY <1>0, <1>b, <2>0, <2>a, <2>b DEF IndInv, TypeOK, EntriesCurrent, OneOwner
  <2>5. failed' = FALSE
    BY <1>a, <1>1, <2>0 DEF IndInv
  <2>6. \A a \in queued : a \in live'
    BY <2>a, <2>b DEF IndInv, OneOwner
  <2> QED
    BY <1>1, <1>b, <2>b, <2>1, <2>2, <2>3, <2>4, <2>5, <2>6 DEF Names
<1>2. CASE id \notin active
  <2>a. UNCHANGED <<timers, active, live>>
        /\ canceling' = IF phase = "callback" THEN canceling \cup {id} ELSE canceling
    BY <1>2
  <2>1. /\ live' \subseteq Addrs
        /\ timers' \subseteq Stamps \X Addrs /\ active' \subseteq Addrs \X Nat
        /\ canceling' \subseteq Addrs \X Nat
    BY <1>0, <2>a DEF TypeOK
  <2>2. IsFiniteSet(live') /\ EntriesCurrent'
    BY <1>b, <2>a DEF IndInv, EntriesCurrent
  <2>3. OneOwner' /\ \A a \in queued : a \in live'
    BY <1>b, <2>a DEF IndInv, OneOwner
  <2>4. failed' = FALSE
    BY <1>a, <1>2 DEF IndInv
  <2>5. Names(id) /\ id[1] \notin queued => \E e \in expired : e[2] = id[1]
    <3> SUFFICES ASSUME Names(id), id[1] \notin queued PROVE EntryOf(id[1]) \in expired
      OBVIOUS
    <3>1. EntryOf(id[1]) \notin timers
      BY <1>2 DEF IndInv, EntriesCurrent, Names
    <3> QED
      BY <3>1 DEF IndInv, OneOwner, Names
  <2> QED
    BY <1>2, <1>b, <2>a, <2>1, <2>2, <2>3, <2>4, <2>5
<1> QED
  BY <1>1, <1>2

\* Deleting a Timer that no functor owns disturbs neither the queue nor the
\* promises of the other cancels.
LEMMA CancelInv ==
  ASSUME IndInv, NEW id \in ids, cancel(id)
  PROVE  IndInv'
<1>0. TypeOK /\ id \in Addrs \X Nat
  BY DEF IndInv, TypeOK
<1>a. /\ cancelInLoop(id) /\ InUserCode
      /\ cancelled' = IF Names(id) /\ id[1] \notin queued THEN cancelled \cup {id} ELSE cancelled
      /\ UNCHANGED <<pending, returning, phase, expired, toRun, now, armed, readable, ids>>
  BY DEF cancel, callVars, batchVars, fdVars
<1>b. queued' = queued
  BY <1>a, SameFunctors
<1>c. /\ live' \subseteq Addrs /\ IsFiniteSet(live')
      /\ timers' \subseteq Stamps \X Addrs /\ active' \subseteq Addrs \X Nat
      /\ canceling' \subseteq Addrs \X Nat
      /\ canceling \subseteq canceling'
      /\ phase = "callback" /\ id \notin active => id \in canceling'
      /\ failed' = FALSE
      /\ UNCHANGED <<sequence, expiration, interval, numCreated>>
      /\ EntriesCurrent' /\ OneOwner'
      /\ live' \subseteq live
      /\ \A a \in queued : a \in live'
      /\ id \in active => ~Names(id)'
      /\ Names(id) /\ id[1] \notin queued /\ id \notin active => \E e \in expired : e[2] = id[1]
  BY <1>0, <1>a, <1>b, CancelInLoop
<1>d. \A x : Names(x)' => Names(x)
  BY <1>c DEF Names, TimerOf
<1>1. TypeOK'
  BY <1>0, <1>a, <1>c DEF TypeOK
<1>2. QueuedExist'
  <2>1. \A i \in DOMAIN pending : pending[i].op = "add" => pending[i].timer[1] \in queued
    BY DEF queued
  <2>2. \A i \in DOMAIN pending : pending[i].op = "add" => Names(pending[i].timer)'
    <3> SUFFICES ASSUME NEW i \in DOMAIN pending, pending[i].op = "add"
                 PROVE  Names(pending[i].timer)'
      OBVIOUS
    <3>1. Names(pending[i].timer) /\ pending[i].timer[1] \in live'
      BY <1>c, <2>1 DEF IndInv, QueuedExist
    <3> QED
      BY <1>a, <1>c, <3>1 DEF Names, TimerOf
  <2> QED
    BY <1>a, <2>2 DEF IndInv, QueuedExist
<1>3. BatchAndIds'
  <2>1. Names(id) => id[2] < numCreated
    BY DEF IndInv, BatchAndIds, Names, TimerOf
  <2> QED
    BY <1>a, <1>c, <2>1 DEF IndInv, BatchAndIds
<1>4. CancelHonoured'
  <2> SUFFICES ASSUME NEW x \in cancelled', Names(x)'
               PROVE  \/ x \in canceling' /\ \E e \in expired : e[2] = x[1]
                      \/ \E j \in DOMAIN pending :
                           /\ pending[j] = Cancel(x)
                           /\ \A i \in DOMAIN pending : pending[i] = Add(x) => i < j
    BY <1>a DEF CancelHonoured
  <2>1. CASE x \in cancelled
    BY <1>c, <1>d, <2>1 DEF IndInv, CancelHonoured
  <2>2. CASE x \notin cancelled
    <3>1. x = id /\ Names(id) /\ id[1] \notin queued /\ id \notin active
      BY <1>a, <1>c, <2>2
    <3>2. \E e \in expired : e[2] = id[1]
      BY <1>c, <3>1
    <3>3. phase = "callback"
      BY <1>a, <3>2 DEF IndInv, BatchAndIds, InUserCode
    <3> QED
      BY <1>c, <3>1, <3>2, <3>3
  <2> QED
    BY <2>1, <2>2
<1> QED
  BY <1>1, <1>c, <1>2, <1>3, <1>4 DEF IndInv

\* The functor of a cancel is queued behind every addTimerInLoop there is.
LEMMA CancelElsewhereInv ==
  ASSUME IndInv, NEW id \in ids, cancelElsewhere(id)
  PROVE  IndInv'
<1> DEFINE f == Cancel(id)
           n == Len(pending)
<1>0. TypeOK /\ id \in Addrs \X Nat
  BY DEF IndInv, TypeOK
<1>a. /\ pending' = Append(pending, f)
      /\ cancelled' = IF Names(id) THEN cancelled \cup {id} ELSE cancelled
      /\ UNCHANGED <<live, sequence, expiration, interval, numCreated, returning, timers, active,
                     canceling, phase, expired, toRun, now, armed, readable, ids, failed>>
  BY DEF cancelElsewhere, heapVars, setVars, batchVars, fdVars
<1>f. f \in Functor /\ f.op = "cancel"
  BY <1>0 DEF Functor, Cancel
<1>e. /\ pending' \in Seq(Functor)
      /\ DOMAIN pending = 1 .. n /\ n \in Nat
      /\ DOMAIN pending' = 1 .. n + 1
      /\ \A j \in 1 .. n : pending'[j] = pending[j]
      /\ pending'[n + 1] = f
      /\ queued' = queued
  BY <1>0, <1>a, <1>f, AppendFunctor
<1>g. \A j \in DOMAIN pending' : \/ j \in DOMAIN pending /\ pending'[j] = pending[j] /\ j < n + 1
                                 \/ j = n + 1 /\ pending'[j] = f
  BY <1>e
<1>h. \A j \in DOMAIN pending : j \in DOMAIN pending' /\ pending'[j] = pending[j]
  BY <1>e
<1>i. n + 1 \in DOMAIN pending' /\ pending'[n + 1] = Cancel(id)
  BY <1>e
<1>j. \A x : f # Add(x)
  BY <1>f DEF Add
<1>k. \A x : Names(x)' <=> Names(x)
  BY <1>a DEF Names, TimerOf
<1> HIDE DEF f, n
<1>1. TypeOK'
  BY <1>0, <1>a, <1>e DEF TypeOK
<1>2. EntriesCurrent' /\ OneOwner'
  BY <1>a, <1>e DEF IndInv, EntriesCurrent, OneOwner, EntryOf, TimerOf
<1>3. QueuedExist'
  BY <1>f, <1>g, <1>k DEF IndInv, QueuedExist
<1>4. BatchAndIds'
  <2>1. Names(id) => id[2] < numCreated
    BY DEF IndInv, BatchAndIds, Names, TimerOf
  <2> QED
    BY <1>a, <2>1 DEF IndInv, BatchAndIds
<1>5. CancelHonoured'
  <2> SUFFICES ASSUME NEW x \in cancelled', Names(x)
               PROVE  \/ x \in canceling /\ \E e \in expired : e[2] = x[1]
                      \/ \E j \in DOMAIN pending' :
                           /\ pending'[j] = Cancel(x)
                           /\ \A i \in DOMAIN pending' : pending'[i] = Add(x) => i < j
    BY <1>a, <1>k DEF CancelHonoured
  <2>1. CASE x = id
    BY <1>g, <1>i, <1>j, <2>1
  <2>2. CASE x # id
    <3>1. x \in cancelled
      BY <1>a, <2>2
    <3>2. CASE x \in canceling /\ \E e \in expired : e[2] = x[1]
      BY <3>2
    <3>3. CASE \E j \in DOMAIN pending : /\ pending[j] = Cancel(x)
                                         /\ \A i \in DOMAIN pending : pending[i] = Add(x) => i < j
      BY <1>g, <1>h, <1>j, <3>3
    <3> QED
      BY <3>1, <3>2, <3>3 DEF IndInv, CancelHonoured
  <2> QED
    BY <2>1, <2>2
<1> QED
  BY <1>1, <1>a, <1>2, <1>3, <1>4, <1>5 DEF IndInv

\* Taking the first functor keeps the promise of every cancel behind it.
LEMMA TailKeepsCancels ==
  ASSUME TypeOK, pending # <<>>, pending' = Tail(pending), NEW x,
         NEW j \in DOMAIN pending, j # 1, pending[j] = Cancel(x),
         \A i \in DOMAIN pending : pending[i] = Add(x) => i < j
  PROVE  \E k \in DOMAIN pending' : /\ pending'[k] = Cancel(x)
                                    /\ \A i \in DOMAIN pending' : pending'[i] = Add(x) => i < k
<1>1. /\ \A i \in DOMAIN pending' : i \in Nat /\ i + 1 \in DOMAIN pending
                                    /\ pending'[i] = pending[i + 1]
      /\ j \in Nat /\ j - 1 \in DOMAIN pending' /\ pending'[j - 1] = pending[j]
  BY TailFunctor
<1>2. ASSUME NEW i \in DOMAIN pending', pending'[i] = Add(x) PROVE i < j - 1
  <2>1. i \in Nat /\ i + 1 \in DOMAIN pending /\ pending[i + 1] = Add(x)
    BY <1>1, <1>2
  <2>2. i + 1 < j
    BY <2>1
  <2> QED
    BY <1>1, <2>1, <2>2
<1> QED
  BY <1>1, <1>2

\* The loop runs a queued addTimerInLoop: the sets become the Timer's owner.
LEMMA FunctorAddInv ==
  ASSUME IndInv, doPendingFunctors, Head(pending).op = "add"
  PROVE  IndInv'
<1> DEFINE a == Head(pending).timer[1]
           entry == <<expiration[a], a>>
           timer == <<a, sequence[a]>>
<1>0. TypeOK /\ pending # <<>> /\ pending' = Tail(pending)
  BY DEF IndInv, doPendingFunctors
<1>t. /\ pending' \in Seq(Functor)
      /\ Head(pending) \in Functor /\ 1 \in DOMAIN pending /\ pending[1] = Head(pending)
      /\ \A i \in DOMAIN pending' : i \in Nat /\ i + 1 \in DOMAIN pending
                                    /\ pending'[i] = pending[i + 1]
      /\ \A i \in DOMAIN pending : /\ i \in Nat
                                   /\ i # 1 => i - 1 \in DOMAIN pending' /\ pending'[i - 1] = pending[i]
  BY <1>0, TailFunctor
<1>a. /\ addTimerInLoop(expiration[a], TimerOf(a))
      /\ UNCHANGED <<live, sequence, expiration, interval, numCreated, canceling, returning,
                     phase, expired, toRun, now, ids, cancelled>>
  BY DEF doPendingFunctors, heapVars, batchVars, userVars
<1>b. /\ timers' = timers \cup {entry} /\ active' = active \cup {timer}
      /\ failed' = (failed \/ ~(SizesAgree /\ entry \notin timers /\ timer \notin active))
  BY <1>a DEF addTimerInLoop, Asserts, TimerOf
<1>c. armed' \in BOOLEAN /\ readable' \in BOOLEAN
  BY <1>0, <1>a, Zenon DEF addTimerInLoop, fdVars, TypeOK
<1>d. a \in queued /\ a \in live /\ Head(pending).timer = timer
  BY <1>t DEF queued, IndInv, QueuedExist, Names, TimerOf
<1>e. a \in Addrs /\ entry \in Stamps \X Addrs /\ timer \in Addrs \X Nat
  BY <1>0, <1>d DEF TypeOK
<1>f. queued' = queued \ {a}
  <2>1. ASSUME NEW i \in DOMAIN pending', pending'[i].op = "add"
        PROVE  pending'[i].timer[1] \in queued \ {a}
    <3>1. i \in Nat /\ i + 1 \in DOMAIN pending /\ pending'[i] = pending[i + 1] /\ i + 1 # 1
      BY <1>0, <1>t, LenProperties
    <3>2. pending[i + 1].timer # timer
      BY <1>d, <1>t, <2>1, <3>1 DEF IndInv, QueuedExist
    <3>3. pending[i + 1].timer[1] # a
      BY <2>1, <3>1, <3>2 DEF IndInv, QueuedExist, Names, TimerOf
    <3> QED
      BY <2>1, <3>1, <3>3 DEF queued
  <2>2. ASSUME NEW i \in DOMAIN pending, pending[i].op = "add", pending[i].timer[1] # a
        PROVE  pending[i].timer[1] \in queued'
    <3>1. i # 1
      BY <1>t, <2>2
    <3> QED
      BY <1>t, <2>2, <3>1 DEF queued
  <2> QED
    BY <2>1, <2>2 DEF queued
<1>g. entry \notin timers /\ entry \notin expired /\ timer \notin active
  BY <1>d DEF IndInv, OneOwner, EntriesCurrent, EntryOf, TimerOf
<1> HIDE DEF a
<1>1. TypeOK'
  <2>1. failed' \in BOOLEAN
    BY <1>b, Zenon
  <2> QED
    BY <1>0, <1>t, <1>a, <1>b, <1>c, <1>e, <2>1 DEF TypeOK
<1>2. EntriesCurrent'
  BY <1>0, <1>a, <1>b, <1>d, <1>e DEF IndInv, TypeOK, EntriesCurrent, EntryOf, TimerOf
<1>3. OneOwner'
  BY <1>a, <1>b, <1>d, <1>f, <1>g DEF IndInv, OneOwner, EntryOf
<1>4. QueuedExist'
  <2>1. ASSUME NEW i \in DOMAIN pending', pending'[i].op = "add" PROVE Names(pending[i].timer)'
    BY <1>t, <1>a, <2>1 DEF IndInv, QueuedExist, Names, TimerOf
  <2>2. ASSUME NEW i \in DOMAIN pending', NEW j \in DOMAIN pending', pending'[i].op = "add",
               pending'[j].op = "add", pending'[i].timer = pending'[j].timer
        PROVE  i = j
    <3>1. i + 1 = j + 1
      BY <1>t, <2>2 DEF IndInv, QueuedExist
    <3> QED
      BY <1>t, <3>1
  <2> QED
    BY <2>1, <2>2 DEF QueuedExist
<1>5. BatchAndIds'
  BY <1>a DEF IndInv, BatchAndIds
<1>6. CancelHonoured'
  <2> SUFFICES ASSUME NEW x \in cancelled, Names(x)
               PROVE  \/ x \in canceling /\ \E e \in expired : e[2] = x[1]
                      \/ \E k \in DOMAIN pending' :
                           /\ pending'[k] = Cancel(x)
                           /\ \A i \in DOMAIN pending' : pending'[i] = Add(x) => i < k
    BY <1>a DEF CancelHonoured, Names, TimerOf
  <2>1. CASE x \in canceling /\ \E e \in expired : e[2] = x[1]
    BY <2>1
  <2>2. ASSUME NEW j \in DOMAIN pending, pending[j] = Cancel(x),
               \A i \in DOMAIN pending : pending[i] = Add(x) => i < j
        PROVE  \E k \in DOMAIN pending' :
                 /\ pending'[k] = Cancel(x)
                 /\ \A i \in DOMAIN pending' : pending'[i] = Add(x) => i < k
    <3>1. j # 1
      BY <1>t, <2>2 DEF Cancel
    <3> QED
      BY <1>0, <2>2, <3>1, TailKeepsCancels
  <2> QED
    BY <2>1, <2>2 DEF IndInv, CancelHonoured
<1>7. ~failed'
  BY <1>b, <1>g, SizesAgreeLemma DEF IndInv
<1> QED
  BY <1>1, <1>a, <1>2, <1>3, <1>4, <1>5, <1>6, <1>7 DEF IndInv

\* The loop runs a queued cancelInLoop: a Timer it was promised to delete is no
\* longer queued, as its addTimerInLoop came first, and no batch is running, so
\* it is found in the sets.
LEMMA FunctorCancelInv ==
  ASSUME IndInv, doPendingFunctors, Head(pending).op = "cancel"
  PROVE  IndInv'
<1>0. TypeOK /\ pending # <<>> /\ pending' = Tail(pending) /\ phase = "idle" /\ expired = {}
  BY DEF IndInv, BatchAndIds, doPendingFunctors
<1>t. /\ pending' \in Seq(Functor)
      /\ Head(pending) \in Functor /\ 1 \in DOMAIN pending /\ pending[1] = Head(pending)
      /\ \A i \in DOMAIN pending' : i \in Nat /\ i + 1 \in DOMAIN pending
                                    /\ pending'[i] = pending[i + 1]
      /\ \A i \in DOMAIN pending : /\ i \in Nat
                                   /\ i # 1 => i - 1 \in DOMAIN pending' /\ pending'[i - 1] = pending[i]
  BY <1>0, TailFunctor
<1>b. PICK id \in Addrs \X Nat : id = Head(pending).timer
  BY <1>t DEF Functor
<1>a. /\ cancelInLoop(id)
      /\ UNCHANGED <<armed, readable, returning, phase, expired, toRun, now, ids, cancelled>>
  BY <1>b DEF doPendingFunctors, fdVars, batchVars, userVars
<1>q. queued' = queued
  <2>1. \A i \in DOMAIN pending : pending[i].op = "add" => i # 1
    BY <1>t
  <2> QED
    BY <1>t, <2>1 DEF queued
<1>c. /\ live' \subseteq Addrs /\ IsFiniteSet(live')
      /\ timers' \subseteq Stamps \X Addrs /\ active' \subseteq Addrs \X Nat
      /\ canceling' \subseteq Addrs \X Nat
      /\ failed' = FALSE
      /\ UNCHANGED <<sequence, expiration, interval, numCreated>>
      /\ EntriesCurrent' /\ OneOwner'
      /\ live' \subseteq live
      /\ \A a \in queued : a \in live'
      /\ id \in active => ~Names(id)'
      /\ Names(id) /\ id[1] \notin queued /\ id \notin active => \E e \in expired : e[2] = id[1]
  <2>1. UNCHANGED <<phase, expired>> /\ queued' \subseteq queued
        /\ \A a \in live : a \in queued => a \in queued'
    BY <1>a, <1>q
  <2> QED
    BY <1>a, <1>b, <2>1, CancelInLoop
<1>d. \A x : Names(x)' => Names(x)
  BY <1>c DEF Names, TimerOf
<1>h. Head(pending) = Cancel(id)
  BY <1>b, <1>t DEF Functor, Cancel
<1>1. TypeOK'
  BY <1>0, <1>t, <1>a, <1>c DEF TypeOK
<1>2. QueuedExist'
  <2>1. ASSUME NEW i \in DOMAIN pending', pending'[i].op = "add" PROVE Names(pending[i].timer)'
    <3>1. i + 1 \in DOMAIN pending /\ pending'[i] = pending[i + 1]
      BY <1>t
    <3>2. Names(pending'[i].timer) /\ pending'[i].timer[1] \in queued
      BY <2>1, <3>1 DEF IndInv, QueuedExist, queued
    <3> QED
      BY <1>c, <3>2 DEF Names, TimerOf
  <2>2. ASSUME NEW i \in DOMAIN pending', NEW j \in DOMAIN pending', pending'[i].op = "add",
               pending'[j].op = "add", pending'[i].timer = pending'[j].timer
        PROVE  i = j
    <3>1. i + 1 = j + 1
      BY <1>t, <2>2 DEF IndInv, QueuedExist
    <3> QED
      BY <1>t, <3>1
  <2> QED
    BY <2>1, <2>2 DEF QueuedExist
<1>3. BatchAndIds'
  BY <1>a, <1>c DEF IndInv, BatchAndIds
<1>4. CancelHonoured'
  <2> SUFFICES ASSUME NEW x \in cancelled, Names(x)'
               PROVE  \E k \in DOMAIN pending' :
                        /\ pending'[k] = Cancel(x)
                        /\ \A i \in DOMAIN pending' : pending'[i] = Add(x) => i < k
    BY <1>a DEF CancelHonoured
  <2>1. Names(x)
    BY <1>d
  <2>2. PICK j \in DOMAIN pending : /\ pending[j] = Cancel(x)
                                    /\ \A i \in DOMAIN pending : pending[i] = Add(x) => i < j
    BY <1>0, <2>1 DEF IndInv, CancelHonoured
  <2>3. j # 1
    <3> SUFFICES ASSUME j = 1 PROVE FALSE
      OBVIOUS
    <3>1. x = id
      BY <1>t, <1>h, <2>2 DEF Cancel
    <3>2. \A i \in DOMAIN pending : pending[i] # Add(x)
      <4> SUFFICES ASSUME NEW i \in DOMAIN pending, pending[i] = Add(x) PROVE FALSE
        OBVIOUS
      <4>1. i < 1 /\ i \in DOMAIN pending
        BY <2>2
      <4>2. i \in 1 .. Len(pending) /\ Len(pending) \in Nat
        BY <1>0, <4>1, LenProperties DEF TypeOK
      <4> QED
        BY <4>1, <4>2
    <3>3. x[1] \notin queued
      <4> SUFFICES ASSUME NEW i \in DOMAIN pending, pending[i].op = "add",
                          pending[i].timer[1] = x[1]
                   PROVE  FALSE
        BY DEF queued
      <4>1. pending[i].timer = x
        BY <2>1 DEF IndInv, QueuedExist, Names, TimerOf
      <4>2. pending[i] = Add(x)
        <5>1. pending[i] \in Functor
          BY <1>0, LenProperties DEF TypeOK
        <5> QED
          BY <4>1, <5>1 DEF Functor, Add
      <4> QED
        BY <3>2, <4>2
    <3>4. id \in active
      BY <1>0, <1>c, <2>1, <3>1, <3>3
    <3>5. ~Names(x)'
      BY <1>c, <3>1, <3>4
    <3> QED
      BY <3>5
  <2> QED
    BY <1>0, <2>2, <2>3, TailKeepsCancels
<1> QED
  BY <1>1, <1>c, <1>2, <1>3, <1>4 DEF IndInv

\* The kernel touches only the timerfd.
LEMMA TimerfdExpiresInv == IndInv /\ TimerfdExpires => IndInv'
<1> SUFFICES ASSUME IndInv, TimerfdExpires PROVE IndInv'
  OBVIOUS
<1> USE DEF TimerfdExpires, heapVars, callVars, setVars, batchVars, userVars
<1>1. TypeOK'
  BY DEF IndInv, TypeOK
<1>2. (EntriesCurrent /\ OneOwner /\ QueuedExist /\ BatchAndIds /\ CancelHonoured)'
  BY SameFunctors
     DEF IndInv, EntriesCurrent, OneOwner, QueuedExist, BatchAndIds, CancelHonoured, EntryOf, TimerOf, Names
<1> QED
  BY <1>1, <1>2 DEF IndInv

\* handleRead moves the expired entries from both sets to the batch.
LEMMA HandleReadInv ==
  ASSUME IndInv, NEW r \in Readings, handleRead(r)
  PROVE  IndInv'
<1> DEFINE past == {e \in timers : e[1] <= TimeStamp(r)}
<1> USE DEF handleRead, heapVars, callVars, userVars, EntryOf, TimerOf, Asserts
<1>0. TypeOK /\ expired = {} /\ past \subseteq timers
  BY DEF IndInv, BatchAndIds
<1>a. expired' = past /\ timers' = timers \ past
      /\ active' = active \ {TimerOf(e[2]) : e \in past}
  OBVIOUS
<1>b. \A e \in past : e[2] \in live /\ e = EntryOf(e[2]) /\ TimerOf(e[2]) \in active
  BY <1>0 DEF IndInv, EntriesCurrent, TypeOK
<1>1. TypeOK'
  <2>1. TimeStamp(r) \in Stamps
    BY TimerAssumption
  <2>2. failed' \in BOOLEAN
    BY Zenon
  <2> QED
    BY <1>0, <2>1, <2>2 DEF TypeOK
<1> HIDE DEF past
<1>2. EntriesCurrent'
  <2>1. \A a \in live : TimerOf(a) \in {TimerOf(e[2]) : e \in past} <=> EntryOf(a) \in past
    BY <1>b
  <2> QED
    BY <1>0, <1>a, <1>b, <2>1 DEF IndInv, EntriesCurrent
<1>3. OneOwner'
  BY <1>0, <1>a, SameFunctors DEF IndInv, OneOwner
<1>4. BatchAndIds' /\ QueuedExist'
  BY DEF IndInv, BatchAndIds, QueuedExist, Names
<1>5. CancelHonoured'
  BY <1>0 DEF IndInv, CancelHonoured, Names
<1>6. ~failed'
  <2>1. SizesAgree
    BY SizesAgreeLemma
  <2>2. failed' = (failed \/ ~(SizesAgree /\ \A e \in past : TimerOf(e[2]) \in active))
    BY DEF past
  <2> QED
    BY <1>b, <2>1, <2>2 DEF IndInv
<1> QED
  BY <1>1, <1>2, <1>3, <1>4, <1>5, <1>6 DEF IndInv

\* Running a callback changes neither set nor the batch.
LEMMA RunCallbackInv ==
  ASSUME IndInv, NEW e \in toRun, runCallback(e)
  PROVE  IndInv'
<1> USE DEF runCallback, heapVars, callVars, setVars, fdVars, userVars
<1>1. TypeOK'
  BY DEF IndInv, TypeOK
<1>2. (EntriesCurrent /\ OneOwner /\ QueuedExist /\ CancelHonoured)'
  BY SameFunctors
     DEF IndInv, EntriesCurrent, OneOwner, QueuedExist, CancelHonoured, EntryOf, TimerOf, Names
<1>3. BatchAndIds'
  BY DEF IndInv, BatchAndIds
<1> QED
  BY <1>1, <1>2, <1>3 DEF IndInv

\* reset deletes the Timers that end and schedules the others again.
LEMMA ResetInv == IndInv /\ reset => IndInv'
<1> SUFFICES ASSUME IndInv, reset PROVE IndInv'
  OBVIOUS
<1> DEFINE again == {e[2] : e \in {f \in expired : Restarts(f[2])}}
           over  == {e[2] : e \in {f \in expired : Ended(f[2])}}
           exp   == [a \in Addrs |-> IF a \in again THEN addTime(now, interval[a])
                                                   ELSE expiration[a]]
<1> USE DEF EntryOf, TimerOf
<1>0. TypeOK
  BY DEF IndInv
<1>x. \A e \in expired : e[2] \in live /\ e = EntryOf(e[2])
  BY <1>0 DEF IndInv, EntriesCurrent, TypeOK
<1>y. \A a : EntryOf(a)[2] = a
  OBVIOUS
<1>a. \A a : a \in again <=> a \in live /\ EntryOf(a) \in expired /\ Restarts(a)
  BY <1>x, <1>y
<1>b. \A a : a \in over <=> a \in live /\ EntryOf(a) \in expired /\ ~Restarts(a)
  BY <1>x, <1>y DEF Ended
<1>c. /\ phase' = "idle" /\ expired' = {} /\ toRun = {} /\ toRun' = {}
      /\ expiration' = exp
      /\ timers' = timers \cup {<<exp[a], a>> : a \in again}
      /\ active' = active \cup {TimerOf(a) : a \in again}
      /\ live' = live \ over
      /\ failed' = (failed \/ ~(/\ SizesAgree
                                /\ \A a \in again : <<exp[a], a>> \notin timers
                                                    /\ TimerOf(a) \notin active))
      /\ UNCHANGED <<sequence, interval, numCreated, pending, returning, canceling, now, ids, cancelled>>
  BY DEF reset, Asserts, callVars, userVars
<1>d. exp \in [Addrs -> Stamps]
  <2>1. ASSUME NEW a \in Addrs, a \in again PROVE addTime(now, interval[a]) \in Stamps
    <3>0. Restarts(a)
      BY <1>a, <2>1
    <3> HIDE DEF again, exp
    <3>1. interval[a] \in Intervals /\ now \in Stamps
      BY <1>0, <3>0 DEF TypeOK, Restarts
    <3> QED
      BY <3>1, TimerAssumption DEF addTime
  <2> QED
    BY <1>0, <2>1 DEF TypeOK
<1>e. \A a \in Addrs : a \notin again => exp[a] = expiration[a]
  OBVIOUS
<1>f. again \subseteq Addrs /\ again \subseteq live /\ again \cap over = {} /\ live \subseteq Addrs
  BY <1>0, <1>a, <1>b DEF TypeOK
<1>g. armed' \in BOOLEAN /\ readable' \in BOOLEAN
  BY <1>0, Zenon DEF reset, fdVars, TypeOK
<1> HIDE DEF again, over, exp
<1>h. \A e \in timers : e[2] \notin again /\ e[2] \notin over
  BY <1>0, <1>a, <1>b DEF IndInv, OneOwner, EntriesCurrent, TypeOK
<1>i. \A x \in active : x[1] \notin again /\ x[1] \notin over
  <2>1. ASSUME NEW x \in active PROVE EntryOf(x[1]) \in timers
    <3>1. x[1] \in live /\ x = TimerOf(x[1])
      BY <1>0 DEF IndInv, EntriesCurrent, TypeOK
    <3> QED
      BY <3>1 DEF IndInv, EntriesCurrent
  <2> QED
    BY <1>h, <2>1
<1>1. TypeOK'
  <2>1. failed' \in BOOLEAN
    BY <1>c, Zenon
  <2>2. (timers \subseteq Stamps \X Addrs)' /\ (active \subseteq Addrs \X Nat)'
    BY <1>0, <1>c, <1>d, <1>f DEF TypeOK
  <2> QED
    BY <1>0, <1>c, <1>d, <1>g, <2>1, <2>2 DEF TypeOK
<1>2. IsFiniteSet(live')
  BY <1>c, FS_Difference DEF IndInv
<1>3. EntriesCurrent'
  <2>1. \A e \in timers' : (e[2] \in live /\ e[1] = expiration[e[2]])'
    <3>1. ASSUME NEW e \in timers PROVE (e[2] \in live /\ e[1] = expiration[e[2]])'
      BY <1>0, <1>c, <1>e, <1>h DEF IndInv, EntriesCurrent, TypeOK
    <3>2. ASSUME NEW a \in again PROVE a \in live' /\ exp[a] = expiration'[a]
      BY <1>c, <1>f
    <3> QED
      BY <1>c, <3>1, <3>2
  <2>2. \A x \in active' : (x[1] \in live /\ x[2] = sequence[x[1]])'
    BY <1>0, <1>c, <1>f, <1>i DEF IndInv, EntriesCurrent, TypeOK
  <2>3. ASSUME NEW a \in live' PROVE (EntryOf(a) \in timers <=> TimerOf(a) \in active)'
    <3>1. CASE a \in again
      BY <1>c, <3>1
    <3>2. CASE a \notin again
      <4>1. a \in live /\ a \in Addrs /\ expiration'[a] = expiration[a]
        BY <1>0, <1>c, <1>e, <3>2 DEF TypeOK
      <4>2. EntryOf(a)' \in timers' <=> EntryOf(a) \in timers
        BY <1>c, <3>2, <4>1
      <4>3. TimerOf(a)' \in active' <=> TimerOf(a) \in active
        BY <1>c, <3>2, <4>1
      <4> QED
        BY <4>1, <4>2, <4>3 DEF IndInv, EntriesCurrent
    <3> QED
      BY <3>1, <3>2
  <2> QED
    BY <1>c, <2>1, <2>2, <2>3 DEF EntriesCurrent
<1>4. OneOwner'
  <2>0. queued' = queued
    BY <1>c, SameFunctors
  <2>1. queued' \subseteq live' /\ queued \cap again = {}
    BY <1>a, <1>b, <1>c, <2>0 DEF IndInv, OneOwner
  <2>2. \A a \in queued' : EntryOf(a)' \notin timers'
    BY <1>0, <1>c, <1>e, <2>0, <2>1 DEF IndInv, OneOwner, TypeOK
  <2>3. \A a \in live' : a \in queued' \/ EntryOf(a)' \in timers'
    <3>1. ASSUME NEW a \in live', a \notin queued, a \notin again PROVE EntryOf(a)' \in timers'
      <4>1. a \in live /\ a \notin over /\ expiration'[a] = expiration[a]
        BY <1>c, <1>e, <1>f, <3>1
      <4>2. EntryOf(a) \notin expired
        BY <1>a, <1>b, <3>1, <4>1
      <4>3. EntryOf(a) \in timers
        BY <3>1, <4>1, <4>2 DEF IndInv, OneOwner
      <4> QED
        BY <1>c, <4>1, <4>3
    <3> QED
      BY <1>c, <2>0, <3>1
  <2> QED
    BY <1>c, <2>1, <2>2, <2>3 DEF OneOwner
<1>5. BatchAndIds' /\ QueuedExist'
  <2>1. \A i \in DOMAIN pending : pending[i].op = "add" => pending[i].timer[1] \notin over
    BY <1>b DEF IndInv, OneOwner, queued
  <2> QED
    BY <1>c, <2>1 DEF IndInv, BatchAndIds, QueuedExist, Names
<1>6. CancelHonoured'
  <2> SUFFICES ASSUME NEW id \in cancelled, Names(id)'
               PROVE  \E j \in DOMAIN pending :
                        /\ pending[j] = Cancel(id)
                        /\ \A i \in DOMAIN pending : pending[i] = Add(id) => i < j
    BY <1>c DEF CancelHonoured
  <2>1. Names(id) /\ id[1] \notin over
    BY <1>c DEF Names
  <2>2. ~(id \in canceling /\ \E e \in expired : e[2] = id[1])
    BY <1>b, <2>1 DEF IndInv, EntriesCurrent, Restarts, TypeOK, Names
  <2> QED
    BY <2>1, <2>2 DEF IndInv, CancelHonoured
<1>7. ~failed'
  <2>1. SizesAgree
    BY SizesAgreeLemma
  <2>2. \A a \in again : <<exp[a], a>> \notin timers /\ TimerOf(a) \notin active
    BY <1>h, <1>i
  <2> QED
    BY <1>c, <2>1, <2>2 DEF IndInv
<1> QED
  BY <1>1, <1>2, <1>3, <1>4, <1>5, <1>6, <1>7 DEF IndInv

\* A stuttering step changes nothing the invariant is about.
LEMMA StutterInv == IndInv /\ UNCHANGED vars => IndInv'
<1> SUFFICES ASSUME IndInv, UNCHANGED vars PROVE IndInv'
  OBVIOUS
<1> USE DEF vars, heapVars, callVars, setVars, batchVars, fdVars, userVars
<1>1. TypeOK'
  BY DEF IndInv, TypeOK
<1>2. (EntriesCurrent /\ OneOwner /\ QueuedExist /\ BatchAndIds /\ CancelHonoured)'
  BY SameFunctors
     DEF IndInv, EntriesCurrent, OneOwner, QueuedExist, BatchAndIds, CancelHonoured, EntryOf, TimerOf, Names
<1> QED
  BY <1>1, <1>2 DEF IndInv, vars

-----------------------------------------------------------------------------
\* Every step of every thread preserves the invariant.
THEOREM Invariance == Spec => []IndInv
<1>1. Init => IndInv
  BY InitInv
<1>2. IndInv /\ [Next]_vars => IndInv'
  <2> SUFFICES ASSUME IndInv, [Next]_vars PROVE IndInv'
    OBVIOUS
  <2>1. ASSUME NEW a \in Addrs, NEW d \in Delays, NEW i \in Intervals, NEW r \in Readings,
               addTimer(a, d, i, r)
        PROVE  IndInv'
    BY <2>1, AddTimerInv
  <2>2. ASSUME NEW a \in Addrs, NEW d \in Delays, NEW i \in Intervals, NEW r \in Readings,
               addTimerElsewhere(a, d, i, r)
        PROVE  IndInv'
    BY <2>2, AddTimerElsewhereInv
  <2>3. CASE TimerfdExpires
    BY <2>3, TimerfdExpiresInv
  <2>4. CASE doPendingFunctors
    <3>1. Head(pending).op = "add" \/ Head(pending).op = "cancel"
      BY <2>4 DEF doPendingFunctors
    <3> QED
      BY <2>4, <3>1, FunctorAddInv, FunctorCancelInv
  <2>5. ASSUME NEW r \in Readings, handleRead(r) PROVE IndInv'
    BY <2>5, HandleReadInv
  <2>6. ASSUME NEW e \in toRun, runCallback(e) PROVE IndInv'
    BY <2>6, RunCallbackInv
  <2>7. CASE reset
    BY <2>7, ResetInv
  <2>8. CASE UNCHANGED vars
    BY <2>8, StutterInv
  <2>9. ASSUME NEW call \in returning, addTimerReturns(call) PROVE IndInv'
    BY <2>9, AddTimerReturnsInv
  <2>10. ASSUME NEW id \in ids, cancel(id) PROVE IndInv'
    BY <2>10, CancelInv
  <2>11. ASSUME NEW id \in ids, cancelElsewhere(id) PROVE IndInv'
    BY <2>11, CancelElsewhereInv
  <2> QED
    BY <2>1, <2>2, <2>3, <2>4, <2>5, <2>6, <2>7, <2>8, <2>9, <2>10, <2>11
       DEF Next, HandlesRead, BatchStep
<1> QED
  BY <1>1, <1>2, PTL DEF Spec

\* The types hold whatever TimeStamp's constructor does with its argument.
THEOREM TypeCorrect == Spec => []TypeOK
<1>1. IndInv => TypeOK
  BY DEF IndInv
<1> QED
  BY <1>1, Invariance, PTL

\* No assert of addTimerInLoop, cancelInLoop, getExpired, reset or insert fails.
THEOREM NoAssertFails == Spec => []AssertsHold
<1>1. IndInv => AssertsHold
  BY DEF IndInv, AssertsHold
<1> QED
  BY <1>1, Invariance, PTL

\* timers_ and activeTimers_ are two indexes of one set of Timers.
THEOREM TheSetsAgree == Spec => []SetsAgree
<1>1. IndInv => SetsAgree
  <2> SUFFICES ASSUME IndInv PROVE SetsAgree
    OBVIOUS
  <2> DEFINE S == {a \in live : EntryOf(a) \in timers}
  <2>1. \A e \in timers : e[2] \in live /\ e = EntryOf(e[2])
    BY DEF IndInv, TypeOK, EntriesCurrent, EntryOf
  <2>2. \A x \in active : x[1] \in live /\ x = TimerOf(x[1]) /\ EntryOf(x[1]) \in timers
    <3>1. \A x \in active : x[1] \in live /\ x = TimerOf(x[1])
      BY DEF IndInv, TypeOK, EntriesCurrent, TimerOf
    <3> QED
      BY <3>1 DEF IndInv, EntriesCurrent
  <2>3. \A a \in S : TimerOf(a) \in active
    BY DEF IndInv, EntriesCurrent
  <2>4. timers = {EntryOf(a) : a \in S}
    BY <2>1
  <2>5. active = {TimerOf(a) : a \in S}
    BY <2>2, <2>3
  <2> QED
    BY <2>4, <2>5 DEF SetsAgree
<1> QED
  BY <1>1, Invariance, PTL

\* The loop leaks no Timer, deletes none twice and uses none it has deleted,
\* whatever addTimer reads in other threads (which OwnedOnce leaves open).
THEOREM NoLeakNoDangling == Spec => []OwnedOnce
<1>1. IndInv => OwnedOnce
  <2> SUFFICES ASSUME IndInv PROVE OwnedOnce
    OBVIOUS
  <2>1. \A e \in timers \cup expired : e[2] \in live /\ e = EntryOf(e[2])
    BY DEF IndInv, TypeOK, EntriesCurrent, EntryOf
  <2>2. live = queued \cup {e[2] : e \in timers} \cup {e[2] : e \in expired}
    <3>1. \A a \in live : EntryOf(a)[2] = a
      BY DEF EntryOf
    <3> QED
      BY <2>1, <3>1 DEF IndInv, OneOwner
  <2>3. queued \cap {e[2] : e \in timers} = {} /\ queued \cap {e[2] : e \in expired} = {}
    BY <2>1 DEF IndInv, OneOwner
  <2>4. {e[2] : e \in timers} \cap {e[2] : e \in expired} = {}
    BY <2>1 DEF IndInv, OneOwner
  <2>5. ASSUME NEW i \in DOMAIN pending, NEW j \in DOMAIN pending, pending[i].op = "add",
               pending[j].op = "add", pending[i].timer[1] = pending[j].timer[1]
        PROVE  i = j
    BY <2>5 DEF IndInv, QueuedExist, Names, TimerOf
  <2> QED
    BY <2>2, <2>3, <2>4, <2>5 DEF OwnedOnce
<1> QED
  BY <1>1, Invariance, PTL

\* A cancel that does not overtake its addTimerInLoop is honoured, whichever
\* thread it came from; the functors' order keeps one from another thread from
\* overtaking.
THEOREM CancelIsFinal == Spec => []CancelHonoured
<1>1. IndInv => CancelHonoured
  BY DEF IndInv
<1> QED
  BY <1>1, Invariance, PTL

=============================================================================
