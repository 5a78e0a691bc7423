----------------------------- MODULE MpmcQueue -----------------------------
(***************************************************************************)
(* Common::Mpmc_bounded_lfq: a bounded queue for several producers and     *)
(* several consumers, without locks.  A thread claims a ticket by moving   *)
(* _head_seq or _tail_seq; the sequence number of the ticket's node says   *)
(* whose turn it is.  Every load, store and compare-exchange of a shared   *)
(* variable is a step.  A sequence number is a natural number here: 64     *)
(* bits do not wrap in practice.                                           *)
(***************************************************************************)
EXTENDS Integers, Sequences

CONSTANTS Thread, Value,
          Size \* of the buffer: a power of 2, so "& _mask" is "% Size"

ASSUME SizeAssumption == Size \in Nat \ {0}
ASSUME ValueAssumption == Value # {}

Slot == 0 .. Size - 1

VARIABLES head, tail, \* _head_seq, _tail_seq
          seq, data,  \* of each node
          pc,
          pos,        \* each thread's head_seq or tail_seq
          arg, out,   \* the data of its enqueue, of its dequeue
          item        \* the element of every ticket so far, in order

vars == <<head, tail, seq, data, pc, pos, arg, out, item>>

node(p) == p % Size

Init ==
  /\ head = 0 /\ tail = 0
  /\ seq = [i \in Slot |-> i]
  /\ data \in [Slot -> Value]
  /\ pc = [t \in Thread |-> "idle"]
  /\ pos = [t \in Thread |-> 0]
  /\ arg = [t \in Thread |-> CHOOSE v \in Value : TRUE] /\ out = arg
  /\ item = <<>>

-----------------------------------------------------------------------------
\* enqueue: the load of _head_seq ...
Enqueue(t, v) ==
  /\ pc[t] = "idle"
  /\ arg' = [arg EXCEPT ![t] = v]
  /\ pos' = [pos EXCEPT ![t] = head]
  /\ pc' = [pc EXCEPT ![t] = "enq_check"]
  /\ UNCHANGED <<head, tail, seq, data, out, item>>

\* ... the load of the node's sequence number: go on if the node is empty,
\* fail if it is full, look again if another producer was first ...
EnqueueCheck(t) ==
  LET dif == seq[node(pos[t])] - pos[t]
  IN /\ pc[t] = "enq_check"
     /\ pc' = [pc EXCEPT ![t] = IF dif = 0 THEN "enq_claim" ELSE IF dif < 0 THEN "idle" ELSE "enq_load"]
     /\ UNCHANGED <<head, tail, seq, data, pos, arg, out, item>>

EnqueueLoad(t) ==
  /\ pc[t] = "enq_load"
  /\ pos' = [pos EXCEPT ![t] = head]
  /\ pc' = [pc EXCEPT ![t] = "enq_check"]
  /\ UNCHANGED <<head, tail, seq, data, arg, out, item>>

\* Mutants: a store for the compare-exchange; a node published before its
\* data is stored.
EnqueueClaimBlind(t) ==
  /\ pc[t] = "enq_claim"
  /\ head' = pos[t] + 1
  /\ item' = Append(item, arg[t])
  /\ pc' = [pc EXCEPT ![t] = "enq_write"]
  /\ UNCHANGED <<tail, seq, data, pos, arg, out>>

EnqueueClaimPublished(t) ==
  /\ pc[t] = "enq_claim"
  /\ head = pos[t]
  /\ head' = pos[t] + 1
  /\ item' = Append(item, arg[t])
  /\ seq' = [seq EXCEPT ![node(pos[t])] = pos[t] + 1]
  /\ pc' = [pc EXCEPT ![t] = "enq_write"]
  /\ UNCHANGED <<tail, data, pos, arg, out>>

\* ... the compare-exchange, which loads _head_seq if it fails, and may fail
\* for no reason ...
EnqueueClaim(t) ==
  /\ pc[t] = "enq_claim"
  /\ head = pos[t]
  /\ head' = pos[t] + 1
  /\ item' = Append(item, arg[t])
  /\ pc' = [pc EXCEPT ![t] = "enq_write"]
  /\ UNCHANGED <<tail, seq, data, pos, arg, out>>

EnqueueRetry(t) ==
  /\ pc[t] = "enq_claim"
  /\ pos' = [pos EXCEPT ![t] = head]
  /\ pc' = [pc EXCEPT ![t] = "enq_check"]
  /\ UNCHANGED <<head, tail, seq, data, arg, out, item>>

\* ... the store of the data, and of the sequence number that hands it over.
EnqueueWrite(t) ==
  /\ pc[t] = "enq_write"
  /\ data' = [data EXCEPT ![node(pos[t])] = arg[t]]
  /\ pc' = [pc EXCEPT ![t] = "enq_publish"]
  /\ UNCHANGED <<head, tail, seq, pos, arg, out, item>>

EnqueuePublish(t) ==
  /\ pc[t] = "enq_publish"
  /\ seq' = [seq EXCEPT ![node(pos[t])] = pos[t] + 1]
  /\ pc' = [pc EXCEPT ![t] = "idle"]
  /\ UNCHANGED <<head, tail, data, pos, arg, out, item>>

-----------------------------------------------------------------------------
\* dequeue, the same from the other end.
Dequeue(t) ==
  /\ pc[t] = "idle"
  /\ pos' = [pos EXCEPT ![t] = tail]
  /\ pc' = [pc EXCEPT ![t] = "deq_check"]
  /\ UNCHANGED <<head, tail, seq, data, arg, out, item>>

DequeueCheck(t) ==
  LET dif == seq[node(pos[t])] - (pos[t] + 1)
  IN /\ pc[t] = "deq_check"
     /\ pc' = [pc EXCEPT ![t] = IF dif = 0 THEN "deq_claim" ELSE IF dif < 0 THEN "idle" ELSE "deq_load"]
     /\ UNCHANGED <<head, tail, seq, data, pos, arg, out, item>>

DequeueLoad(t) ==
  /\ pc[t] = "deq_load"
  /\ pos' = [pos EXCEPT ![t] = tail]
  /\ pc' = [pc EXCEPT ![t] = "deq_check"]
  /\ UNCHANGED <<head, tail, seq, data, arg, out, item>>

\* Mutant: a store for the compare-exchange.
DequeueClaimBlind(t) ==
  /\ pc[t] = "deq_claim"
  /\ tail' = pos[t] + 1
  /\ pc' = [pc EXCEPT ![t] = "deq_read"]
  /\ UNCHANGED <<head, seq, data, pos, arg, out, item>>

DequeueClaim(t) ==
  /\ pc[t] = "deq_claim"
  /\ tail = pos[t]
  /\ tail' = pos[t] + 1
  /\ pc' = [pc EXCEPT ![t] = "deq_read"]
  /\ UNCHANGED <<head, seq, data, pos, arg, out, item>>

DequeueRetry(t) ==
  /\ pc[t] = "deq_claim"
  /\ pos' = [pos EXCEPT ![t] = tail]
  /\ pc' = [pc EXCEPT ![t] = "deq_check"]
  /\ UNCHANGED <<head, tail, seq, data, arg, out, item>>

DequeueRead(t) ==
  /\ pc[t] = "deq_read"
  /\ out' = [out EXCEPT ![t] = data[node(pos[t])]]
  /\ pc' = [pc EXCEPT ![t] = "deq_release"]
  /\ UNCHANGED <<head, tail, seq, data, pos, arg, item>>

\* Mutant: _mask for _mask + 1.
DequeueReleaseMask(t) ==
  /\ pc[t] = "deq_release"
  /\ seq' = [seq EXCEPT ![node(pos[t])] = pos[t] + Size - 1]
  /\ pc' = [pc EXCEPT ![t] = "idle"]
  /\ UNCHANGED <<head, tail, data, pos, arg, out, item>>

DequeueRelease(t) ==
  /\ pc[t] = "deq_release"
  /\ seq' = [seq EXCEPT ![node(pos[t])] = pos[t] + Size]
  /\ pc' = [pc EXCEPT ![t] = "idle"]
  /\ UNCHANGED <<head, tail, data, pos, arg, out, item>>

Step(t) ==
  \/ (\E v \in Value : Enqueue(t, v)) \/ EnqueueCheck(t) \/ EnqueueLoad(t) \/ EnqueueClaim(t)
  \/ EnqueueRetry(t) \/ EnqueueWrite(t) \/ EnqueuePublish(t)
  \/ Dequeue(t) \/ DequeueCheck(t) \/ DequeueLoad(t) \/ DequeueClaim(t)
  \/ DequeueRetry(t) \/ DequeueRead(t) \/ DequeueRelease(t)

Next == \E t \in Thread : Step(t)

Spec == Init /\ [][Next]_vars

=============================================================================
