---------------------------- MODULE MpmcQueueInv ----------------------------
(***************************************************************************)
(* What Mpmc_bounded_lfq keeps to, with at least two nodes.                *)
(***************************************************************************)
EXTENDS MpmcQueue

ASSUME TwoNodesAssumption == Size > 1

Pc == {"idle", "enq_check", "enq_load", "enq_claim", "enq_write", "enq_publish",
       "deq_check", "deq_load", "deq_claim", "deq_read", "deq_release"}

\* The type of each variable; item has one element for every ticket drawn.
TypeOK ==
  /\ head \in Nat /\ tail \in Nat
  /\ seq \in [Slot -> Nat] /\ data \in [Slot -> Value]
  /\ pc \in [Thread -> Pc] /\ pos \in [Thread -> Nat]
  /\ arg \in [Thread -> Value] /\ out \in [Thread -> Value]
  /\ item \in Seq(Value) /\ Len(item) = head

\* Threads that hold ticket p: between claiming it and handing its node over.
Writes(t, p) == pc[t] \in {"enq_write", "enq_publish"} /\ pos[t] = p
Reads(t, p) == pc[t] \in {"deq_read", "deq_release"} /\ pos[t] = p

\* The node of a ticket that is in the queue: its producer is still writing,
\* or the element is there.
QueuedOK(p) ==
  \/ (\E t \in Thread : Writes(t, p)) /\ seq[node(p)] = p
  \/ /\ \A t \in Thread : ~Writes(t, p)
     /\ seq[node(p)] = p + 1 /\ data[node(p)] = item[p + 1]

\* The node of a ticket to come: the consumer of the round before is still
\* reading, or the node is free.
FreeOK(p) ==
  \/ /\ \E t \in Thread : Reads(t, p - Size)
     /\ seq[node(p)] = p - Size + 1 /\ data[node(p)] = item[p - Size + 1]
  \/ (\A t \in Thread : ~Reads(t, p - Size)) /\ seq[node(p)] = p

\* What a thread knows of the ticket it is at.
ThreadOK(t) ==
  /\ pc[t] \in {"enq_check", "enq_load", "enq_claim"} => pos[t] <= head
  /\ pc[t] = "enq_check" /\ pos[t] < head => seq[node(pos[t])] >= pos[t]
  /\ pc[t] = "enq_claim" => seq[node(pos[t])] >= pos[t]
  /\ pc[t] \in {"enq_write", "enq_publish"} =>
       tail <= pos[t] /\ pos[t] < head /\ arg[t] = item[pos[t] + 1]
  /\ pc[t] = "enq_publish" => data[node(pos[t])] = arg[t]
  /\ pc[t] \in {"deq_check", "deq_load", "deq_claim"} => pos[t] <= tail
  /\ pc[t] = "deq_claim" => seq[node(pos[t])] >= pos[t] + 1
  /\ pc[t] \in {"deq_read", "deq_release"} => head - Size <= pos[t] /\ pos[t] < tail
  /\ pc[t] = "deq_release" => out[t] = item[pos[t] + 1]

Exclusive ==
  \A t, u \in Thread : t # u /\ pos[t] = pos[u] =>
    /\ ~(pc[t] \in {"enq_write", "enq_publish"} /\ pc[u] \in {"enq_write", "enq_publish"})
    /\ ~(pc[t] \in {"deq_read", "deq_release"} /\ pc[u] \in {"deq_read", "deq_release"})

IInv ==
  /\ TypeOK
  /\ tail <= head /\ head <= tail + Size
  /\ \A p \in tail .. head - 1 : QueuedOK(p)
  /\ \A p \in head .. tail + Size - 1 : FreeOK(p)
  /\ \A t \in Thread : ThreadOK(t)
  /\ Exclusive

-----------------------------------------------------------------------------
\* No data race on a node: while enqueue stores its data no other thread
\* stores or loads it.
NodeExclusive ==
  \A t, u \in Thread :
    /\ t # u /\ pc[t] = "enq_write" /\ pc[u] \in {"enq_write", "enq_publish", "deq_read"}
    => node(pos[t]) # node(pos[u])

\* A dequeue returns the element of its own ticket: the k-th claimed by a
\* consumer is the k-th claimed by a producer.
OwnElement ==
  \A t \in Thread :
    /\ pc[t] = "deq_read" => data[node(pos[t])] = item[pos[t] + 1]
    /\ pc[t] = "deq_release" => out[t] = item[pos[t] + 1]

\* enqueue returns false only when it is "blocked, or full", as its header
\* says: there are as many elements as nodes, or the consumer that claimed the
\* element of the round before in the node at head has not handed the node
\* back.  A producer that is slow, or that was first, never makes it fail.
BlockedOrFull ==
  \A t \in Thread :
    pc[t] = "enq_check" /\ seq[node(pos[t])] < pos[t] =>
      head - tail = Size \/ \E u \in Thread : Reads(u, head - Size)

\* What the comment in enqueue says of that answer: "this slot is full and
\* therefore the buffer is full", that is, no node is free for a ticket to
\* come.  A consumer that stalls on the oldest ticket makes it false when
\* others have emptied the nodes after it.
FullMeansFull ==
  \A t \in Thread :
    pc[t] = "enq_check" /\ seq[node(pos[t])] < pos[t] =>
      \A p \in head .. tail + Size - 1 : seq[node(p)] # p

\* The queue as its callers see it: an element is in when its ticket is
\* claimed, and out when its consumer claims the ticket, who then has it.
Queued == SubSeq(item, tail + 1, head)
Taken == [t \in Thread |-> IF pc[t] = "deq_read" THEN data[node(pos[t])] ELSE out[t]]

Fifo == INSTANCE BoundedFifo WITH Capacity <- Size, queue <- Queued, out <- Taken

\* Mpmc_bounded_lfq is a bounded queue, first in first out.
ImplementsFifo == Fifo!Spec

=============================================================================
