------------------------ MODULE TcpConnectionThreads -------------------------
(***************************************************************************)
(* TcpConnection used from threads other than its IO loop's, as            *)
(* TcpConnection::send, shutdown and forceClose provide for: each checks   *)
(* state_, may overwrite it, and queues a functor to the IO loop, and the  *)
(* loop moves between any two of these steps.  (That the functors of send  *)
(* and shutdown may outlive the connection is a hazard of its own: a step  *)
(* here stands for executions in which the object is still there.)         *)
(***************************************************************************)
EXTENDS TcpConnection

CONSTANT Foreign  \* threads that got a TcpConnectionPtr from user code

VARIABLES
  call,   \* what each foreign thread has checked state_ for
  holds   \* the foreign threads that own a TcpConnectionPtr

foreignVars == <<call, holds>>
tvars == <<vars, foreignVars>>

\* The functors send and shutdown queue from another thread; they are bound to
\* the raw this pointer, so they own nothing.
RawFunctors == {"sendInLoop", "shutdownInLoop"}

TInit ==
  /\ Init
  /\ call = [t \in Foreign |-> "none"]
  /\ holds = {}

\* A callback hands its TcpConnectionPtr to the thread.
Obtain(t) ==
  /\ pc = "user" /\ holds' = holds \cup {t}
  /\ UNCHANGED <<vars, call>>

Release(t) ==
  /\ t \in holds /\ call[t] = "none"
  /\ holds' = holds \ {t}
  /\ UNCHANGED <<vars, call>>

\* if (state_ == ...) of the three calls.
CheckState(t) ==
  /\ t \in holds /\ call[t] = "none"
  /\ Len(pending) < MaxQueued
  /\ \/ /\ state = "kConnected" /\ accepted < MaxBytes
        /\ call' = [call EXCEPT ![t] = "send"]
     \/ /\ state = "kConnected"
        /\ call' = [call EXCEPT ![t] = "shutdown"]
     \/ /\ state \in {"kConnected", "kDisconnecting"}
        /\ call' = [call EXCEPT ![t] = "forceClose"]
  /\ UNCHANGED <<vars, holds>>

\* setState(kDisconnecting), whatever state_ has become since the check.
SetState(t) ==
  /\ call[t] \in {"shutdown", "forceClose"}
  /\ state' = "kDisconnecting"
  /\ call' = [call EXCEPT ![t] = IF @ = "shutdown" THEN "queueShutdown" ELSE "queueForceClose"]
  /\ UNCHANGED <<loopVars, queueVars, events, index, outputBuffer, serverVars,
                 kernelVars, ghostVars, failed, holds>>

QueueInLoop(t) ==
  /\ call[t] \in {"send", "queueShutdown", "queueForceClose"}
  /\ pending' = Append(pending, CASE call[t] = "send" -> "sendInLoop"
                                  [] call[t] = "queueShutdown" -> "shutdownInLoop"
                                  [] call[t] = "queueForceClose" -> "forceCloseInLoop")
  /\ call' = [call EXCEPT ![t] = "none"]
  /\ UNCHANGED <<loopVars, batch, batchHolds, connVars, serverVars, kernelVars,
                 ghostVars, failed, holds>>

RunSendInLoop ==
  /\ Next_("sendInLoop")
  /\ IF state = "kDisconnected" \/ accepted = MaxBytes
     THEN UNCHANGED <<loopVars, pending, connVars, serverVars, kernelVars, ghostVars, failed>>
     ELSE /\ sendInLoop(1, "functors")
          /\ UNCHANGED <<ret, revents>>
  /\ UNCHANGED foreignVars

RunShutdownInLoop ==
  /\ Next_("shutdownInLoop")
  /\ shutdownInLoop
  /\ UNCHANGED <<loopVars, pending, connVars, serverVars, ghostVars, failed,
                 inflight, wire, peer, soError, unread, received, foreignVars>>

TNext ==
  \/ Next /\ UNCHANGED foreignVars
  \/ RunSendInLoop \/ RunShutdownInLoop
  \/ \E t \in Foreign : \/ Obtain(t) \/ Release(t) \/ CheckState(t)
                        \/ SetState(t) \/ QueueInLoop(t)

TSpec == TInit /\ [][TNext]_tvars

-----------------------------------------------------------------------------
\* EPollPoller::removeChannel asserts that channels_ knows the fd, and
\* Channel::remove that it has no events: a connection is destroyed once.
ConnectionDestroyedOnce == AssertsHold

=============================================================================
