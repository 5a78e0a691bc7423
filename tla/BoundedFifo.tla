---------------------------- MODULE BoundedFifo ----------------------------
(***************************************************************************)
(* What a bounded queue promises to its callers: elements come out once,   *)
(* in the order in which they went in, and at most Capacity are in it.     *)
(***************************************************************************)
EXTENDS Naturals, Sequences

CONSTANTS Thread, Value, Capacity

VARIABLES queue, \* the elements, the oldest first
          out    \* what each thread took last

Init == queue = <<>> /\ out \in [Thread -> Value]

Enqueue(v) ==
  /\ Len(queue) < Capacity
  /\ queue' = Append(queue, v)
  /\ UNCHANGED out

Dequeue(t) ==
  /\ queue # <<>>
  /\ queue' = Tail(queue)
  /\ out' = [out EXCEPT ![t] = Head(queue)]

Next == (\E v \in Value : Enqueue(v)) \/ (\E t \in Thread : Dequeue(t))

Spec == Init /\ [][Next]_<<queue, out>>

=============================================================================
