------------------------------- MODULE TaskPool -------------------------------
(***************************************************************************)
(* What a ThreadPool promises: tasks begin in the order in which they were *)
(* accepted, each once; until stop() every accepted task does begin, and   *)
(* after it none is accepted.  Before start(), and in a pool that start(0) *)
(* has left without threads ("new" all its life), a task begins at once.   *)
(***************************************************************************)
EXTENDS Sequences

CONSTANT Tasks

VARIABLES
  phase,    \* "new", "running" or "stopped"
  queue,    \* accepted tasks that have not begun
  begun     \* tasks in the order in which they began

vars == <<phase, queue, begun>>

Known == {queue[i] : i \in DOMAIN queue} \cup {begun[i] : i \in DOMAIN begun}

Init == phase = "new" /\ queue = <<>> /\ begun = <<>>

Start == phase = "new" /\ phase' = "running" /\ UNCHANGED <<queue, begun>>
Stop  == phase = "running" /\ phase' = "stopped" /\ UNCHANGED <<queue, begun>>

Inline ==
  /\ phase = "new"
  /\ \E t \in Tasks \ Known : begun' = Append(begun, t)
  /\ UNCHANGED <<phase, queue>>

Accept ==
  /\ phase = "running"
  /\ \E t \in Tasks \ Known : queue' = Append(queue, t)
  /\ UNCHANGED <<phase, begun>>

Begin ==
  /\ queue # <<>>
  /\ begun' = Append(begun, Head(queue))
  /\ queue' = Tail(queue)
  /\ UNCHANGED phase

Next == Start \/ Stop \/ Inline \/ Accept \/ Begin

Spec == Init /\ [][Next]_vars /\ WF_vars(phase = "running" /\ Begin)

=============================================================================
