------------------------------ MODULE ByteQueue ------------------------------
(***************************************************************************)
(* What a Buffer promises its users: a queue of bytes.  Data is added at   *)
(* either end, removed from either end, and never altered in between.      *)
(***************************************************************************)
EXTENDS Integers, Sequences

CONSTANT Strings   \* the byte strings one call may carry

VARIABLES
  queue,
  call      \* the last call: its kind, and the bytes it took or returned

vars == <<queue, call>>

Init == queue = <<>> /\ call = [op |-> "new", bytes |-> <<>>]

Put(s)     == queue' = queue \o s /\ call' = [op |-> "put", bytes |-> s]
PutBack(s) == queue' = s \o queue /\ call' = [op |-> "putBack", bytes |-> s]

Take(n) ==
  /\ queue' = SubSeq(queue, n + 1, Len(queue))
  /\ call' = [op |-> "take", bytes |-> SubSeq(queue, 1, n)]

Undo(n) ==
  /\ queue' = SubSeq(queue, 1, Len(queue) - n)
  /\ call' = [op |-> "undo", bytes |-> SubSeq(queue, Len(queue) - n + 1, Len(queue))]

Next ==
  \/ \E s \in Strings : Put(s) \/ PutBack(s)
  \/ \E n \in 0 .. Len(queue) : Take(n) \/ Undo(n)

Spec == Init /\ [][Next]_vars

=============================================================================
