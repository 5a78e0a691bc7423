---------------------------- MODULE CommonProofs ----------------------------
(***************************************************************************)
(* The queues and the lock of lib/common, for every value of their         *)
(* constants.                                                              *)
(*                                                                         *)
(* Mpmc_bounded_lfq, for any number of threads, any elements and any size  *)
(* above one; Spsc_bounded_lfq, for any size of the ring and limit of the  *)
(* semaphore: its two threads never touch a slot at once.  Both are        *)
(* queues, first in first out, whose operations take effect at one step    *)
(* each.  Ticket_lock excludes for every number of threads up to the       *)
(* number of tickets, although its counters wrap.                          *)
(***************************************************************************)
EXTENDS MpmcQueueInv, TLAPS

-----------------------------------------------------------------------------
\* Mpmc_bounded_lfq.

\* The elements of the abstract queue, BoundedFifo, are a part of a sequence,
LEMMA SubSeqProperties ==
  ASSUME NEW S, NEW s, NEW m \in Int, NEW n \in Int, \A i \in m .. n : s[i] \in S
  PROVE  /\ SubSeq(s, m, n) \in Seq(S)
         /\ Len(SubSeq(s, m, n)) = IF m <= n THEN n - m + 1 ELSE 0
         /\ \A i \in 1 .. n - m + 1 : SubSeq(s, m, n)[i] = s[m + i - 1]
OBVIOUS

\* or a sequence with one element more.
LEMMA AppendProperties ==
  ASSUME NEW S, NEW s \in Seq(S), NEW x \in S
  PROVE  /\ Append(s, x) \in Seq(S)
         /\ Len(Append(s, x)) = Len(s) + 1
         /\ \A i \in 1 .. Len(s) : Append(s, x)[i] = s[i]
         /\ Append(s, x)[Len(s) + 1] = x
OBVIOUS

\* A sequence given by its elements.
LEMMA IsASeq ==
  ASSUME NEW n \in Nat, NEW e(_), NEW S, \A i \in 1 .. n : e(i) \in S
  PROVE  [i \in 1 .. n |-> e(i)] \in Seq(S)
OBVIOUS

\* Sequences with the same elements are the same.
LEMMA SeqEqual ==
  ASSUME NEW S, NEW s \in Seq(S), NEW t \in Seq(S),
         Len(s) = Len(t), \A i \in 1 .. Len(s) : s[i] = t[i]
  PROVE  s = t
OBVIOUS

\* A ticket has a node.
LEMMA NodeType == \A p \in Nat : node(p) \in Slot
BY SizeAssumption DEF node, Slot

\* A ticket is so many rounds and its node.
LEMMA Rounds ==
  ASSUME NEW p \in Nat
  PROVE  \E a \in Nat : p = a * Size + node(p)
<1>1. p \div Size \in Nat /\ p = (p \div Size) * Size + node(p)
  BY SizeAssumption DEF node
<1> QED BY <1>1

\* The node of a ticket that is so many rounds and a remainder.
LEMMA RoundsUnique ==
  ASSUME NEW p \in Nat, NEW a \in Nat, NEW r \in Slot, p = a * Size + r
  PROVE  node(p) = r
BY SizeAssumption DEF node, Slot

\* Tickets less than a round apart have different nodes.
LEMMA NodeApart ==
  ASSUME NEW p \in Nat, NEW q \in Nat, p < q, q < p + Size
  PROVE  node(p) # node(q)
<1> SUFFICES ASSUME node(p) = node(q) PROVE FALSE
  OBVIOUS
<1>1. PICK a \in Nat : p = a * Size + node(p)
  BY Rounds
<1>2. PICK b \in Nat : q = b * Size + node(q)
  BY Rounds
<1>3. node(p) \in Nat /\ node(p) = node(q)
  BY NodeType, SizeAssumption DEF Slot
<1>4. CASE b <= a
  <2>1. (a - b) \in Nat /\ (a - b) * Size \in Nat
    BY <1>4, SizeAssumption
  <2>2. p = (a - b) * Size + q
    BY <1>1, <1>2, <1>3, SizeAssumption
  <2> QED BY <2>1, <2>2
<1>5. CASE b > a
  <2>1. (b - a - 1) \in Nat /\ (b - a - 1) * Size \in Nat
    BY <1>5, SizeAssumption
  <2>2. q = (b - a - 1) * Size + Size + p
    BY <1>1, <1>2, <1>3, SizeAssumption
  <2> QED BY <2>1, <2>2, SizeAssumption
<1> QED BY <1>4, <1>5

\* A round later a ticket has the same node.
LEMMA NodeRound ==
  ASSUME NEW p \in Nat
  PROVE  node(p + Size) = node(p)
<1>1. PICK a \in Nat : p = a * Size + node(p) /\ node(p) \in Slot
  BY Rounds, NodeType
<1>2. p + Size = (a + 1) * Size + node(p) /\ p + Size \in Nat /\ a + 1 \in Nat
  BY <1>1, SizeAssumption DEF Slot
<1> QED BY <1>1, <1>2, RoundsUnique

\* The tickets in the queue and those to come are one round, and have a node
\* each.
LEMMA OneRound ==
  ASSUME tail \in Nat
  PROVE  \A p, q \in tail .. tail + Size - 1 : p # q => node(p) # node(q)
<1> TAKE p, q \in tail .. tail + Size - 1
<1> HAVE p # q
<1>1. p \in Nat /\ q \in Nat /\ ((p < q /\ q < p + Size) \/ (q < p /\ p < q + Size))
  BY SizeAssumption
<1> QED BY <1>1, NodeApart

Holding == {"enq_write", "enq_publish", "deq_read", "deq_release"}

\* A step of a thread that holds no ticket and gains none.
LEMMA QuietStep ==
  ASSUME IInv, NEW t \in Thread,
         pc[t] \notin Holding, pc'[t] \notin Holding,
         \A u \in Thread \ {t} : pc'[u] = pc[u] /\ pos'[u] = pos[u] /\ arg'[u] = arg[u],
         UNCHANGED <<head, tail, seq, data, out, item>>,
         TypeOK', ThreadOK(t)'
  PROVE  IInv'
<1>1. \A p \in Int : \A u \in Thread : (Writes(u, p)' <=> Writes(u, p)) /\ (Reads(u, p)' <=> Reads(u, p))
  BY DEF Writes, Reads, Holding
<1>2. \A p \in tail .. head - 1 : QueuedOK(p)'
  <2> TAKE p \in tail .. head - 1
  <2>1. QueuedOK(p) /\ p \in Int
    BY DEF IInv, TypeOK
  <2> QED BY <1>1, <2>1 DEF QueuedOK, node
<1>3. \A p \in head .. tail + Size - 1 : FreeOK(p)'
  <2> TAKE p \in head .. tail + Size - 1
  <2>1. FreeOK(p) /\ p - Size \in Int
    BY SizeAssumption DEF IInv, TypeOK
  <2> QED BY <1>1, <2>1 DEF FreeOK, node
<1>4. \A u \in Thread : ThreadOK(u)'
  <2> TAKE u \in Thread
  <2>1. CASE u = t
    BY <2>1
  <2>2. CASE u # t
    <3>1. ThreadOK(u)
      BY DEF IInv
    <3> QED BY <2>2, <3>1 DEF ThreadOK, node
  <2> QED BY <2>1, <2>2
<1>5. Exclusive'
  <2>1. Exclusive
    BY DEF IInv
  <2> QED BY <2>1 DEF Exclusive, Holding
<1> QED BY <1>2, <1>3, <1>4, <1>5 DEF IInv

\* The loads of enqueue and dequeue, and the compare-exchange that fails.
LEMMA QuietSteps ==
  ASSUME IInv, NEW t \in Thread,
         \/ \E v \in Value : Enqueue(t, v)
         \/ EnqueueCheck(t) \/ EnqueueLoad(t) \/ EnqueueRetry(t)
         \/ Dequeue(t) \/ DequeueCheck(t) \/ DequeueLoad(t) \/ DequeueRetry(t)
  PROVE  IInv'
<1>1. TypeOK /\ ThreadOK(t)
  BY DEF IInv
<1>2. seq[node(pos[t])] \in Nat
  BY <1>1, NodeType DEF TypeOK
<1>3. CASE \E v \in Value : Enqueue(t, v)
  <2>1. TypeOK' /\ ThreadOK(t)'
    BY <1>1, <1>3 DEF TypeOK, ThreadOK, Enqueue, Pc
  <2> QED BY ZenonT(30), <1>1, <1>3, <2>1, QuietStep DEF Enqueue, Holding, TypeOK
<1>4. CASE EnqueueCheck(t)
  <2>1. TypeOK' /\ ThreadOK(t)'
    BY <1>1, <1>2, <1>4 DEF TypeOK, ThreadOK, EnqueueCheck, Pc, node
  <2> QED BY ZenonT(30), <1>1, <1>4, <2>1, QuietStep DEF EnqueueCheck, Holding, TypeOK
<1>5. CASE EnqueueLoad(t)
  <2>1. TypeOK' /\ ThreadOK(t)'
    BY <1>1, <1>5 DEF TypeOK, ThreadOK, EnqueueLoad, Pc
  <2> QED BY ZenonT(30), <1>1, <1>5, <2>1, QuietStep DEF EnqueueLoad, Holding, TypeOK
<1>6. CASE EnqueueRetry(t)
  <2>1. TypeOK' /\ ThreadOK(t)'
    BY <1>1, <1>6 DEF TypeOK, ThreadOK, EnqueueRetry, Pc
  <2> QED BY ZenonT(30), <1>1, <1>6, <2>1, QuietStep DEF EnqueueRetry, Holding, TypeOK
<1>7. CASE Dequeue(t)
  <2>1. TypeOK' /\ ThreadOK(t)'
    BY <1>1, <1>7 DEF TypeOK, ThreadOK, Dequeue, Pc
  <2> QED BY ZenonT(30), <1>1, <1>7, <2>1, QuietStep DEF Dequeue, Holding, TypeOK
<1>8. CASE DequeueCheck(t)
  <2>1. TypeOK' /\ ThreadOK(t)'
    BY <1>1, <1>2, <1>8 DEF TypeOK, ThreadOK, DequeueCheck, Pc, node
  <2> QED BY ZenonT(30), <1>1, <1>8, <2>1, QuietStep DEF DequeueCheck, Holding, TypeOK
<1>9. CASE DequeueLoad(t)
  <2>1. TypeOK' /\ ThreadOK(t)'
    BY <1>1, <1>9 DEF TypeOK, ThreadOK, DequeueLoad, Pc
  <2> QED BY ZenonT(30), <1>1, <1>9, <2>1, QuietStep DEF DequeueLoad, Holding, TypeOK
<1>10. CASE DequeueRetry(t)
  <2>1. TypeOK' /\ ThreadOK(t)'
    BY <1>1, <1>10 DEF TypeOK, ThreadOK, DequeueRetry, Pc
  <2> QED BY ZenonT(30), <1>1, <1>10, <2>1, QuietStep DEF DequeueRetry, Holding, TypeOK
<1> QED BY <1>3, <1>4, <1>5, <1>6, <1>7, <1>8, <1>9, <1>10

-----------------------------------------------------------------------------
\* The steps that hand a node from one thread to another.

\* The compare-exchange of _head_seq succeeds only when the node is free.
LEMMA EnqueueClaimStep ==
  ASSUME IInv, NEW t \in Thread, EnqueueClaim(t)
  PROVE  IInv'
<1>1. /\ TypeOK /\ ThreadOK(t) /\ Exclusive
      /\ tail <= head /\ head <= tail + Size
      /\ \A p \in tail .. head - 1 : QueuedOK(p)
      /\ \A p \in head .. tail + Size - 1 : FreeOK(p)
  BY DEF IInv
<1>2. /\ pc[t] = "enq_claim" /\ pos[t] = head /\ head' = head + 1
      /\ item' = Append(item, arg[t]) /\ pc' = [pc EXCEPT ![t] = "enq_write"]
      /\ UNCHANGED <<tail, seq, data, pos, arg, out>>
  BY DEF EnqueueClaim
<1>3. head \in Nat /\ tail \in Nat /\ Size \in Nat /\ Size > 1 /\ head' \in Nat
  BY <1>1, <1>2, SizeAssumption, TwoNodesAssumption DEF TypeOK
<1>4. seq[node(head)] >= head
  BY <1>1, <1>2 DEF ThreadOK
<1>5. head < tail + Size
  <2> SUFFICES ASSUME head = tail + Size PROVE FALSE
    BY <1>1, <1>3
  <2>1. node(head) = node(tail) /\ tail \in tail .. head - 1
    BY <1>3, NodeRound
  <2>2. seq[node(tail)] = tail \/ seq[node(tail)] = tail + 1
    BY <1>1, <2>1 DEF QueuedOK
  <2> QED BY <1>3, <1>4, <2>1, <2>2
<1>6. seq[node(head)] = head /\ \A u \in Thread : ~Reads(u, head - Size)
  <2>1. FreeOK(head)
    BY <1>1, <1>3, <1>5
  <2> QED BY <1>3, <1>4, <2>1 DEF FreeOK
<1>7. /\ item' \in Seq(Value) /\ Len(item') = head + 1 /\ item'[head + 1] = arg[t]
      /\ \A i \in 1 .. head : item'[i] = item[i]
  BY <1>1, <1>2, <1>3 DEF TypeOK
<1>8. TypeOK'
  BY <1>1, <1>2, <1>3, <1>7 DEF TypeOK, Pc
<1>9. \A u \in Thread : \A p \in Int :
        /\ Reads(u, p)' <=> Reads(u, p)
        /\ p # head => (Writes(u, p)' <=> Writes(u, p))
  BY <1>1, <1>2 DEF TypeOK, Reads, Writes
<1>10. \A p \in tail .. head : QueuedOK(p)'
  <2> TAKE p \in tail .. head
  <2>1. CASE p = head
    <3>1. Writes(t, p)'
      BY <1>1, <1>2, <2>1 DEF Writes, TypeOK
    <3> QED BY <1>2, <1>6, <2>1, <3>1 DEF QueuedOK, node
  <2>2. CASE p # head
    <3>1. p \in tail .. head - 1 /\ p \in Int /\ p + 1 \in 1 .. head
      BY <1>3, <2>2
    <3>2. QueuedOK(p)
      BY <1>1, <3>1
    <3> QED BY ZenonT(30), <1>2, <1>7, <1>9, <2>2, <3>1, <3>2 DEF QueuedOK, node
  <2> QED BY <2>1, <2>2
<1>11. \A p \in head + 1 .. tail + Size - 1 : FreeOK(p)'
  <2> TAKE p \in head + 1 .. tail + Size - 1
  <2>1. FreeOK(p) /\ p - Size \in Int
    BY <1>1, <1>3
  <2>2. \A u \in Thread : Reads(u, p - Size) => p - Size + 1 \in 1 .. head
    BY <1>1, <1>3 DEF Reads, TypeOK
  <2> QED BY ZenonT(30), <1>2, <1>7, <1>9, <2>1, <2>2 DEF FreeOK, node
<1>12. \A u \in Thread : ThreadOK(u)'
  <2> TAKE u \in Thread
  <2>1. ThreadOK(u) /\ pos[u] \in Nat /\ pos'[u] = pos[u]
    BY <1>1, <1>2 DEF IInv, TypeOK
  <2>2. CASE u = t
    BY <1>1, <1>2, <1>3, <1>7, <2>2 DEF ThreadOK, TypeOK, node
  <2>3. CASE u # t
    <3>1. pc'[u] = pc[u]
      BY <1>1, <1>2, <2>3 DEF TypeOK
    <3>2. pos[u] < head => item'[pos[u] + 1] = item[pos[u] + 1]
      BY <1>3, <1>7, <2>1
    <3>3. pc[u] \in {"deq_read", "deq_release"} => pos[u] # head - Size
      BY <1>6 DEF Reads
    <3>4. tail <= head /\ seq' = seq /\ data' = data /\ arg' = arg /\ out' = out /\ tail' = tail
      BY <1>1, <1>2
    <3>5. pc[u] \in {"deq_read", "deq_release"} => head' - Size <= pos[u] /\ pos[u] < tail
      BY <1>2, <1>3, <2>1, <3>3 DEF ThreadOK
    <3>6. head' = head + 1 /\ (pos[u] = head => seq[node(pos[u])] >= pos[u])
      BY <1>2, <1>3, <1>6
    <3> QED BY <1>3, <2>1, <3>1, <3>2, <3>4, <3>5, <3>6 DEF ThreadOK, node
  <2> QED BY <2>2, <2>3
<1>13. Exclusive'
  <2>1. \A u \in Thread : pc[u] \in {"enq_write", "enq_publish"} => pos[u] # head
    BY <1>1, <1>3 DEF IInv, ThreadOK, TypeOK
  <2> QED BY <1>1, <1>2, <2>1 DEF Exclusive, TypeOK
<1>14. tail' = tail /\ head' - 1 = head /\ tail' <= head' /\ head' <= tail' + Size
  BY <1>1, <1>2, <1>3, <1>5
<1> QED BY <1>2, <1>8, <1>10, <1>11, <1>12, <1>13, <1>14 DEF IInv

\* The data is stored in a node that no other ticket of the round has.
LEMMA EnqueueWriteStep ==
  ASSUME IInv, NEW t \in Thread, EnqueueWrite(t)
  PROVE  IInv'
<1>1. /\ TypeOK /\ ThreadOK(t) /\ Exclusive
      /\ tail <= head /\ head <= tail + Size
      /\ \A p \in tail .. head - 1 : QueuedOK(p)
      /\ \A p \in head .. tail + Size - 1 : FreeOK(p)
  BY DEF IInv
<1>2. /\ pc[t] = "enq_write" /\ data' = [data EXCEPT ![node(pos[t])] = arg[t]]
      /\ pc' = [pc EXCEPT ![t] = "enq_publish"]
      /\ UNCHANGED <<head, tail, seq, pos, arg, out, item>>
  BY DEF EnqueueWrite
<1>3. head \in Nat /\ tail \in Nat /\ Size \in Nat /\ Size > 1 /\ pos[t] \in tail .. head - 1
  BY <1>1, <1>2, SizeAssumption, TwoNodesAssumption DEF TypeOK, ThreadOK
<1>4. node(pos[t]) \in Slot
  BY <1>3, NodeType
<1>5. \A p \in tail .. tail + Size - 1 : p # pos[t] => node(p) # node(pos[t])
  BY <1>1, <1>3, OneRound
<1>6. TypeOK'
  BY <1>1, <1>2, <1>4 DEF TypeOK, Pc
<1>7. \A p \in tail .. tail + Size - 1 : p # pos[t] => data'[node(p)] = data[node(p)]
  BY <1>1, <1>2, <1>3, <1>5, NodeType DEF TypeOK
<1>8. data'[node(pos[t])] = arg[t]
  BY <1>1, <1>2, <1>4 DEF TypeOK
<1>9. \A u \in Thread : \A p \in Int :
        (Reads(u, p)' <=> Reads(u, p)) /\ (Writes(u, p)' <=> Writes(u, p))
  BY <1>1, <1>2 DEF TypeOK, Reads, Writes
<1>10. \A p \in tail .. head - 1 : QueuedOK(p)'
  <2> TAKE p \in tail .. head - 1
  <2>1. QueuedOK(p) /\ p \in Int
    BY <1>1, <1>3
  <2>2. CASE p = pos[t]
    <3>1. Writes(t, p)
      BY <1>2, <2>2 DEF Writes
    <3> QED BY <1>2, <1>9, <2>1, <3>1 DEF QueuedOK, node
  <2>3. CASE p # pos[t]
    <3>1. data'[node(p)] = data[node(p)]
      BY <1>1, <1>3, <1>7, <2>3
    <3> QED BY <1>2, <1>9, <2>1, <3>1 DEF QueuedOK, node
  <2> QED BY <2>2, <2>3
<1>11. \A p \in head .. tail + Size - 1 : FreeOK(p)'
  <2> TAKE p \in head .. tail + Size - 1
  <2>1. FreeOK(p) /\ p - Size \in Int /\ data'[node(p)] = data[node(p)]
    BY <1>1, <1>3, <1>7
  <2> QED BY <1>2, <1>9, <2>1 DEF FreeOK, node
<1>12. \A u \in Thread : ThreadOK(u)'
  <2> TAKE u \in Thread
  <2>1. ThreadOK(u) /\ pos[u] \in Nat
    BY <1>1 DEF IInv, TypeOK
  <2>2. CASE u = t
    BY <1>1, <1>2, <1>3, <1>8, <2>2 DEF ThreadOK, TypeOK, node
  <2>3. CASE u # t
    <3>1. pc'[u] = pc[u]
      BY <1>1, <1>2, <2>3 DEF TypeOK
    <3>2. pc[u] = "enq_publish" => data'[node(pos[u])] = data[node(pos[u])]
      BY <1>1, <1>2, <1>3, <1>7, <2>1, <2>3 DEF Exclusive, ThreadOK
    <3> QED BY <1>2, <2>1, <3>1, <3>2 DEF ThreadOK, node
  <2> QED BY <2>2, <2>3
<1>13. Exclusive'
  BY <1>1, <1>2 DEF Exclusive, TypeOK
<1> QED BY <1>1, <1>2, <1>6, <1>10, <1>11, <1>12, <1>13 DEF IInv

\* The node's sequence number says that the data is there.
LEMMA EnqueuePublishStep ==
  ASSUME IInv, NEW t \in Thread, EnqueuePublish(t)
  PROVE  IInv'
<1>1. /\ TypeOK /\ ThreadOK(t) /\ Exclusive
      /\ tail <= head /\ head <= tail + Size
      /\ \A p \in tail .. head - 1 : QueuedOK(p)
      /\ \A p \in head .. tail + Size - 1 : FreeOK(p)
  BY DEF IInv
<1>2. /\ pc[t] = "enq_publish" /\ seq' = [seq EXCEPT ![node(pos[t])] = pos[t] + 1]
      /\ pc' = [pc EXCEPT ![t] = "idle"]
      /\ UNCHANGED <<head, tail, data, pos, arg, out, item>>
  BY DEF EnqueuePublish
<1>3. head \in Nat /\ tail \in Nat /\ Size \in Nat /\ Size > 1 /\ pos[t] \in tail .. head - 1
  BY <1>1, <1>2, SizeAssumption, TwoNodesAssumption DEF TypeOK, ThreadOK
<1>4. node(pos[t]) \in Slot
  BY <1>3, NodeType
<1>5. \A p \in tail .. tail + Size - 1 : p # pos[t] => node(p) # node(pos[t])
  BY <1>1, <1>3, OneRound
<1>6. seq'[node(pos[t])] = pos[t] + 1 /\ seq[node(pos[t])] = pos[t]
  <2>1. QueuedOK(pos[t]) /\ Writes(t, pos[t])
    BY <1>1, <1>2, <1>3 DEF Writes
  <2> QED BY <1>1, <1>2, <1>4, <2>1 DEF QueuedOK, TypeOK
<1>7. \A p \in tail .. tail + Size - 1 : p # pos[t] => seq'[node(p)] = seq[node(p)]
  BY <1>1, <1>2, <1>3, <1>5, NodeType DEF TypeOK
<1>8. \A i \in Slot : seq'[i] \in Nat /\ seq[i] \in Nat /\ seq'[i] >= seq[i]
  BY <1>1, <1>2, <1>3, <1>4, <1>6 DEF TypeOK
<1>9. TypeOK'
  BY <1>1, <1>2, <1>3, <1>4 DEF TypeOK, Pc
<1>10. \A u \in Thread : \A p \in Int :
         /\ Reads(u, p)' <=> Reads(u, p)
         /\ p # pos[t] => (Writes(u, p)' <=> Writes(u, p))
  BY <1>1, <1>2 DEF TypeOK, Reads, Writes
<1>11. \A p \in tail .. head - 1 : QueuedOK(p)'
  <2> TAKE p \in tail .. head - 1
  <2>1. QueuedOK(p) /\ p \in Int
    BY <1>1, <1>3
  <2>2. CASE p = pos[t]
    <3>1. \A u \in Thread : ~Writes(u, p)'
      BY <1>1, <1>2, <2>2 DEF Writes, Exclusive, TypeOK
    <3>2. data[node(p)] = item[p + 1]
      BY <1>1, <1>2, <2>2 DEF ThreadOK
    <3> QED BY <1>2, <1>6, <2>2, <3>1, <3>2 DEF QueuedOK, node
  <2>3. CASE p # pos[t]
    <3>1. seq'[node(p)] = seq[node(p)]
      BY <1>1, <1>3, <1>7, <2>3
    <3> QED BY <1>2, <1>10, <2>1, <2>3, <3>1 DEF QueuedOK, node
  <2> QED BY <2>2, <2>3
<1>12. \A p \in head .. tail + Size - 1 : FreeOK(p)'
  <2> TAKE p \in head .. tail + Size - 1
  <2>1. FreeOK(p) /\ p - Size \in Int /\ seq'[node(p)] = seq[node(p)]
    BY <1>1, <1>3, <1>7
  <2> QED BY <1>2, <1>10, <2>1 DEF FreeOK, node
<1>13. \A u \in Thread : ThreadOK(u)'
  <2> TAKE u \in Thread
  <2>1. ThreadOK(u) /\ pos[u] \in Nat /\ node(pos[u]) \in Slot
    BY <1>1, NodeType DEF IInv, TypeOK
  <2>2. CASE u = t
    <3>1. pc'[u] = "idle"
      BY ZenonT(30), <1>1, <1>2, <2>2 DEF TypeOK
    <3> QED BY <3>1 DEF ThreadOK
  <2>3. CASE u # t
    <3>1. pc'[u] = pc[u]
      BY <1>1, <1>2, <2>3 DEF TypeOK
    <3>2. seq'[node(pos[u])] \in Nat /\ seq[node(pos[u])] \in Nat
          /\ seq'[node(pos[u])] >= seq[node(pos[u])]
      BY <1>8, <2>1
    <3> QED BY <1>2, <2>1, <3>1, <3>2 DEF ThreadOK, node
  <2> QED BY <2>2, <2>3
<1>14. Exclusive'
  BY <1>1, <1>2 DEF Exclusive, TypeOK
<1> QED BY ZenonT(30), <1>1, <1>2, <1>9, <1>11, <1>12, <1>13, <1>14 DEF IInv

\* The compare-exchange of _tail_seq succeeds only when the element is there.
LEMMA DequeueClaimStep ==
  ASSUME IInv, NEW t \in Thread, DequeueClaim(t)
  PROVE  IInv'
<1>1. /\ TypeOK /\ ThreadOK(t) /\ Exclusive
      /\ tail <= head /\ head <= tail + Size
      /\ \A p \in tail .. head - 1 : QueuedOK(p)
      /\ \A p \in head .. tail + Size - 1 : FreeOK(p)
  BY DEF IInv
<1>2. /\ pc[t] = "deq_claim" /\ pos[t] = tail /\ tail' = tail + 1
      /\ pc' = [pc EXCEPT ![t] = "deq_read"]
      /\ UNCHANGED <<head, seq, data, pos, arg, out, item>>
  BY DEF DequeueClaim
<1>3. head \in Nat /\ tail \in Nat /\ Size \in Nat /\ Size > 1 /\ tail' \in Nat
  BY <1>1, <1>2, SizeAssumption, TwoNodesAssumption DEF TypeOK
<1>4. seq[node(tail)] >= tail + 1
  BY <1>1, <1>2 DEF ThreadOK
<1>5. tail < head
  <2> SUFFICES ASSUME head = tail PROVE FALSE
    BY <1>1, <1>3
  <2>1. FreeOK(tail)
    BY <1>1, <1>3
  <2> QED BY <1>3, <1>4, <2>1 DEF FreeOK
<1>6. /\ seq[node(tail)] = tail + 1 /\ data[node(tail)] = item[tail + 1]
      /\ \A u \in Thread : ~Writes(u, tail)
  <2>1. QueuedOK(tail)
    BY <1>1, <1>3, <1>5
  <2> QED BY <1>3, <1>4, <2>1 DEF QueuedOK
<1>7. TypeOK'
  BY <1>1, <1>2, <1>3 DEF TypeOK, Pc
<1>8. \A u \in Thread : \A p \in Int :
        /\ Writes(u, p)' <=> Writes(u, p)
        /\ p # tail => (Reads(u, p)' <=> Reads(u, p))
  BY <1>1, <1>2 DEF TypeOK, Reads, Writes
<1>9. \A p \in tail + 1 .. head - 1 : QueuedOK(p)'
  <2> TAKE p \in tail + 1 .. head - 1
  <2>1. QueuedOK(p) /\ p \in Int
    BY <1>1, <1>3
  <2> QED BY <1>2, <1>8, <2>1 DEF QueuedOK, node
<1>10. \A p \in head .. tail + Size : FreeOK(p)'
  <2> TAKE p \in head .. tail + Size
  <2>1. CASE p = tail + Size
    <3>1. p - Size = tail /\ node(p) = node(tail)
      BY <1>3, <2>1, NodeRound
    <3>2. Reads(t, p - Size)'
      BY <1>1, <1>2, <3>1 DEF Reads, TypeOK
    <3> QED BY <1>2, <1>6, <3>1, <3>2 DEF FreeOK, node
  <2>2. CASE p # tail + Size
    <3>1. FreeOK(p) /\ p - Size \in Int /\ p - Size # tail
      BY <1>1, <1>3, <2>2
    <3> QED BY <1>2, <1>8, <3>1 DEF FreeOK, node
  <2> QED BY <2>1, <2>2
<1>11. \A u \in Thread : ThreadOK(u)'
  <2> TAKE u \in Thread
  <2>1. ThreadOK(u) /\ pos[u] \in Nat /\ pos' = pos
    BY <1>1, <1>2 DEF IInv, TypeOK
  <2>2. CASE u = t
    <3>1. pc'[u] = "deq_read" /\ pos[u] = tail
      BY <1>1, <1>2, <2>2 DEF TypeOK
    <3>2. head' - Size <= tail /\ tail < tail'
      BY <1>1, <1>2, <1>3
    <3> QED BY <2>1, <3>1, <3>2 DEF ThreadOK
  <2>3. CASE u # t
    <3>1. pc'[u] = pc[u]
      BY <1>1, <1>2, <2>3 DEF TypeOK
    <3>2. pc[u] \in {"enq_write", "enq_publish"} => tail' <= pos[u]
      BY <1>2, <1>3, <1>6, <2>1 DEF Writes, ThreadOK
    <3>3. /\ pos[u] <= tail => pos[u] <= tail'
          /\ pos[u] < tail => pos[u] < tail'
      BY <1>2, <1>3, <2>1
    <3>4. UNCHANGED <<head, seq, data, arg, out, item>>
      BY <1>2
    <3> QED BY <2>1, <3>1, <3>2, <3>3, <3>4 DEF ThreadOK, node
  <2> QED BY <2>2, <2>3
<1>12. Exclusive'
  <2>1. \A u \in Thread : pc[u] \in {"deq_read", "deq_release"} => pos[u] # tail
    BY <1>1, <1>3 DEF IInv, ThreadOK, TypeOK
  <2> QED BY ZenonT(30), <1>1, <1>2, <2>1 DEF Exclusive, TypeOK
<1>13. /\ tail' <= head' /\ head' <= tail' + Size /\ head' = head
       /\ tail' = tail + 1 /\ tail' + Size - 1 = tail + Size
  BY <1>1, <1>2, <1>3, <1>5
<1> QED BY <1>7, <1>9, <1>10, <1>11, <1>12, <1>13 DEF IInv

\* The node of a dequeue between its ticket and its last store still holds
\* the element of the ticket.
LEMMA HeldNode ==
  ASSUME IInv, NEW t \in Thread, pc[t] \in {"deq_read", "deq_release"}
  PROVE  /\ pos[t] \in Nat /\ pos[t] + Size \in head .. tail + Size - 1
         /\ node(pos[t] + Size) = node(pos[t])
         /\ seq[node(pos[t])] = pos[t] + 1
         /\ data[node(pos[t])] = item[pos[t] + 1]
<1>1. pos[t] \in Nat /\ head \in Nat /\ tail \in Nat /\ Size \in Nat
  BY SizeAssumption DEF IInv, TypeOK
<1>2. pos[t] + Size \in head .. tail + Size - 1
  BY <1>1 DEF IInv, ThreadOK
<1>3. node(pos[t] + Size) = node(pos[t])
  BY <1>1, NodeRound
<1>4. FreeOK(pos[t] + Size) /\ pos[t] + Size - Size = pos[t]
  BY <1>1, <1>2 DEF IInv
<1>5. Reads(t, pos[t] + Size - Size)
  BY <1>4 DEF Reads
<1> QED BY <1>1, <1>2, <1>3, <1>4, <1>5 DEF FreeOK

\* The element is loaded from the node.
LEMMA DequeueReadStep ==
  ASSUME IInv, NEW t \in Thread, DequeueRead(t)
  PROVE  IInv'
<1>1. /\ TypeOK /\ ThreadOK(t) /\ Exclusive
      /\ tail <= head /\ head <= tail + Size
      /\ \A p \in tail .. head - 1 : QueuedOK(p)
      /\ \A p \in head .. tail + Size - 1 : FreeOK(p)
  BY DEF IInv
<1>2. /\ pc[t] = "deq_read" /\ out' = [out EXCEPT ![t] = data[node(pos[t])]]
      /\ pc' = [pc EXCEPT ![t] = "deq_release"]
      /\ UNCHANGED <<head, tail, seq, data, pos, arg, item>>
  BY DEF DequeueRead
<1>3. /\ head \in Nat /\ tail \in Nat /\ Size \in Nat /\ pos[t] \in Nat
      /\ node(pos[t]) \in Slot /\ data[node(pos[t])] = item[pos[t] + 1]
  BY <1>1, <1>2, HeldNode, NodeType, SizeAssumption DEF TypeOK
<1>4. TypeOK'
  BY <1>1, <1>2, <1>3 DEF TypeOK, Pc
<1>5. \A u \in Thread : \A p \in Int :
        (Reads(u, p)' <=> Reads(u, p)) /\ (Writes(u, p)' <=> Writes(u, p))
  BY <1>1, <1>2 DEF TypeOK, Reads, Writes
<1>6. \A p \in tail .. head - 1 : QueuedOK(p)'
  <2> TAKE p \in tail .. head - 1
  <2>1. QueuedOK(p) /\ p \in Int
    BY <1>1, <1>3
  <2> QED BY <1>2, <1>5, <2>1 DEF QueuedOK, node
<1>7. \A p \in head .. tail + Size - 1 : FreeOK(p)'
  <2> TAKE p \in head .. tail + Size - 1
  <2>1. FreeOK(p) /\ p - Size \in Int
    BY <1>1, <1>3
  <2> QED BY <1>2, <1>5, <2>1 DEF FreeOK, node
<1>8. \A u \in Thread : ThreadOK(u)'
  <2> TAKE u \in Thread
  <2>1. ThreadOK(u)
    BY ZenonT(30) DEF IInv
  <2>2. CASE u = t
    <3>1. pc'[u] = "deq_release" /\ out'[u] = item[pos[u] + 1]
      BY <1>1, <1>2, <1>3, <2>2 DEF TypeOK
    <3>2. head - Size <= pos[u] /\ pos[u] < tail
      BY <1>2, <2>1, <2>2 DEF ThreadOK
    <3> QED BY <1>2, <3>1, <3>2 DEF ThreadOK
  <2>3. CASE u # t
    <3>1. pc'[u] = pc[u] /\ out'[u] = out[u]
      BY <1>1, <1>2, <2>3 DEF TypeOK
    <3> QED BY <1>2, <2>1, <3>1 DEF ThreadOK, node
  <2> QED BY <2>2, <2>3
<1>9. Exclusive'
  BY <1>1, <1>2 DEF Exclusive, TypeOK
<1> QED BY <1>1, <1>2, <1>4, <1>6, <1>7, <1>8, <1>9 DEF IInv

\* The node's sequence number says that the node is free for the next round.
LEMMA DequeueReleaseStep ==
  ASSUME IInv, NEW t \in Thread, DequeueRelease(t)
  PROVE  IInv'
<1>1. /\ TypeOK /\ ThreadOK(t) /\ Exclusive
      /\ tail <= head /\ head <= tail + Size
      /\ \A p \in tail .. head - 1 : QueuedOK(p)
      /\ \A p \in head .. tail + Size - 1 : FreeOK(p)
  BY DEF IInv
<1>2. /\ pc[t] = "deq_release" /\ seq' = [seq EXCEPT ![node(pos[t])] = pos[t] + Size]
      /\ pc' = [pc EXCEPT ![t] = "idle"]
      /\ UNCHANGED <<head, tail, data, pos, arg, out, item>>
  BY DEF DequeueRelease
<1>3. head \in Nat /\ tail \in Nat /\ Size \in Nat /\ Size > 1
  BY <1>1, SizeAssumption, TwoNodesAssumption DEF TypeOK
<1>4. /\ pos[t] \in Nat /\ pos[t] + Size \in head .. tail + Size - 1
      /\ pos[t] + Size \in tail .. tail + Size - 1
      /\ node(pos[t] + Size) = node(pos[t]) /\ node(pos[t]) \in Slot
      /\ seq[node(pos[t])] = pos[t] + 1
  BY <1>1, <1>2, <1>3, HeldNode, NodeType
<1>5. \A p \in tail .. tail + Size - 1 : p # pos[t] + Size => node(p) # node(pos[t])
  BY <1>3, <1>4, OneRound
<1>6. seq'[node(pos[t])] = pos[t] + Size
  BY <1>1, <1>2, <1>4 DEF TypeOK
<1>7. \A p \in tail .. tail + Size - 1 : p # pos[t] + Size => seq'[node(p)] = seq[node(p)]
  BY <1>1, <1>2, <1>3, <1>5, NodeType DEF TypeOK
<1>8. \A i \in Slot : seq'[i] \in Nat /\ seq[i] \in Nat /\ seq'[i] >= seq[i]
  BY <1>1, <1>2, <1>3, <1>4, <1>6 DEF TypeOK
<1>9. TypeOK'
  BY <1>1, <1>2, <1>3, <1>4 DEF TypeOK, Pc
<1>10. \A u \in Thread : \A p \in Int :
         /\ Writes(u, p)' <=> Writes(u, p)
         /\ p # pos[t] => (Reads(u, p)' <=> Reads(u, p))
  BY <1>1, <1>2 DEF TypeOK, Reads, Writes
<1>11. \A p \in tail .. head - 1 : QueuedOK(p)'
  <2> TAKE p \in tail .. head - 1
  <2>1. QueuedOK(p) /\ p \in Int /\ seq'[node(p)] = seq[node(p)]
    BY <1>1, <1>3, <1>4, <1>7
  <2> QED BY <1>2, <1>10, <2>1 DEF QueuedOK, node
<1>12. \A p \in head .. tail + Size - 1 : FreeOK(p)'
  <2> TAKE p \in head .. tail + Size - 1
  <2>1. FreeOK(p) /\ p - Size \in Int
    BY <1>1, <1>3
  <2>2. CASE p = pos[t] + Size
    <3>1. p - Size = pos[t] /\ seq'[node(p)] = p
      BY <1>3, <1>4, <1>6, <2>2
    <3>2. \A u \in Thread : ~Reads(u, p - Size)'
      BY <1>1, <1>2, <3>1 DEF Reads, Exclusive, TypeOK
    <3> QED BY <3>1, <3>2 DEF FreeOK, node
  <2>3. CASE p # pos[t] + Size
    <3>1. p - Size # pos[t] /\ seq'[node(p)] = seq[node(p)]
      BY <1>1, <1>3, <1>4, <1>7, <2>3
    <3> QED BY <1>2, <1>10, <2>1, <3>1 DEF FreeOK, node
  <2> QED BY <2>2, <2>3
<1>13. \A u \in Thread : ThreadOK(u)'
  <2> TAKE u \in Thread
  <2>1. ThreadOK(u) /\ pos[u] \in Nat /\ node(pos[u]) \in Slot
    BY <1>1, NodeType DEF IInv, TypeOK
  <2>2. CASE u = t
    <3>1. pc'[u] = "idle"
      BY ZenonT(30), <1>1, <1>2, <2>2 DEF TypeOK
    <3> QED BY <3>1 DEF ThreadOK
  <2>3. CASE u # t
    <3>1. pc'[u] = pc[u]
      BY <1>1, <1>2, <2>3 DEF TypeOK
    <3>2. seq'[node(pos[u])] \in Nat /\ seq[node(pos[u])] \in Nat
          /\ seq'[node(pos[u])] >= seq[node(pos[u])]
      BY <1>8, <2>1
    <3> QED BY <1>2, <2>1, <3>1, <3>2 DEF ThreadOK, node
  <2> QED BY <2>2, <2>3
<1>14. Exclusive'
  BY <1>1, <1>2 DEF Exclusive, TypeOK
<1> QED BY <1>1, <1>2, <1>9, <1>11, <1>12, <1>13, <1>14 DEF IInv

-----------------------------------------------------------------------------
\* The constructor leaves every node free for its first ticket.
LEMMA InitIInv == Init => IInv
<1> SUFFICES ASSUME Init PROVE IInv
  OBVIOUS
<1>1. Size \in Nat \ {0} /\ Size > 1
  BY SizeAssumption, TwoNodesAssumption
<1>2. TypeOK
  <2>1. (CHOOSE v \in Value : TRUE) \in Value
    BY ValueAssumption
  <2> QED BY <1>1, <2>1 DEF Init, TypeOK, Pc, Slot
<1>3. \A p \in 0 .. Size - 1 : FreeOK(p)
  <2> TAKE p \in 0 .. Size - 1
  <2>1. p \in Nat /\ p = 0 * Size + p
    BY <1>1
  <2>2. node(p) = p
    BY <2>1, RoundsUnique DEF Slot
  <2> QED BY <2>2 DEF Init, FreeOK, Reads, Slot
<1>4. \A t \in Thread : ThreadOK(t)
  BY ZenonT(30) DEF Init, ThreadOK
<1>5. Exclusive
  BY DEF Init, Exclusive
<1> QED BY <1>1, <1>2, <1>3, <1>4, <1>5 DEF Init, IInv

\* Every step of enqueue and dequeue keeps the invariant.
LEMMA NextIInv == IInv /\ [Next]_vars => IInv'
<1> SUFFICES ASSUME IInv, [Next]_vars PROVE IInv'
  BY ZenonT(30)
<1>1. CASE UNCHANGED vars
  BY <1>1 DEF vars, IInv, TypeOK, QueuedOK, FreeOK, ThreadOK, Exclusive, Writes, Reads, node
<1>2. CASE Next
  <2>1. PICK t \in Thread : Step(t)
    BY <1>2 DEF Next
  <2> QED BY <2>1, QuietSteps, EnqueueClaimStep, EnqueueWriteStep, EnqueuePublishStep,
             DequeueClaimStep, DequeueReadStep, DequeueReleaseStep DEF Step
<1> QED BY <1>1, <1>2

\* The inductive invariant of the queue.
THEOREM MpmcInvariance == Spec => []IInv
BY InitIInv, NextIInv, PTL DEF Spec

\* Sequence numbers, tickets and elements keep their types.
THEOREM MpmcTypeCorrect == Spec => []TypeOK
<1>1. IInv => TypeOK
  BY DEF IInv
<1> QED BY <1>1, MpmcInvariance, PTL

\* Two threads that hold tickets at the same time have different nodes.
LEMMA NodeExclusiveInv == IInv => NodeExclusive
<1> SUFFICES ASSUME IInv, NEW t \in Thread, NEW u \in Thread, t # u,
                    pc[t] = "enq_write", pc[u] \in {"enq_write", "enq_publish", "deq_read"}
             PROVE  node(pos[t]) # node(pos[u])
  BY DEF NodeExclusive
<1>1. /\ TypeOK /\ ThreadOK(t) /\ ThreadOK(u) /\ Exclusive
      /\ tail <= head /\ head <= tail + Size /\ Size \in Nat
      /\ tail \in Nat /\ head \in Nat /\ pos[t] \in Nat /\ pos[u] \in Nat
  BY SizeAssumption DEF IInv, TypeOK
<1>2. pos[t] \in tail .. head - 1 /\ pos[t] \in tail .. tail + Size - 1
  BY <1>1 DEF ThreadOK
<1>3. CASE pc[u] \in {"enq_write", "enq_publish"}
  <2>1. pos[u] \in tail .. tail + Size - 1 /\ pos[t] # pos[u]
    BY <1>1, <1>3 DEF ThreadOK, Exclusive
  <2> QED BY <1>1, <1>2, <2>1, OneRound
<1>4. CASE pc[u] = "deq_read"
  <2>1. pos[u] + Size \in head .. tail + Size - 1 /\ node(pos[u] + Size) = node(pos[u])
    BY <1>4, HeldNode
  <2>2. pos[u] + Size \in tail .. tail + Size - 1 /\ pos[t] # pos[u] + Size
    BY <1>1, <1>2, <2>1
  <2> QED BY <1>1, <1>2, <2>1, <2>2, OneRound
<1> QED BY <1>3, <1>4

\* enqueue never stores the data of a node that another thread stores or
\* loads: the plain (not atomic) accesses to node->data do not race.
THEOREM MpmcNoDataRace == Spec => []NodeExclusive
BY NodeExclusiveInv, MpmcInvariance, PTL

\* A dequeue that holds a ticket loads, or has loaded, the ticket's element.
LEMMA OwnElementInv == IInv => OwnElement
<1> SUFFICES ASSUME IInv, NEW t \in Thread
             PROVE  /\ pc[t] = "deq_read" => data[node(pos[t])] = item[pos[t] + 1]
                    /\ pc[t] = "deq_release" => out[t] = item[pos[t] + 1]
  BY ZenonT(30) DEF OwnElement
<1>1. ThreadOK(t)
  BY DEF IInv
<1> QED BY <1>1, HeldNode DEF ThreadOK

\* dequeue returns the element that enqueue put in under the same ticket.
THEOREM MpmcTakesItsOwn == Spec => []OwnElement
BY OwnElementInv, MpmcInvariance, PTL

\* enqueue fails only when the queue is full, or when the dequeue of the
\* oldest element is still under way.
THEOREM MpmcFailsWhenFull == Spec => []BlockedOrFull
<1>1. IInv => BlockedOrFull
  <2> SUFFICES ASSUME IInv, NEW t \in Thread, pc[t] = "enq_check",
                      seq[node(pos[t])] < pos[t], head - tail # Size
               PROVE  \E u \in Thread : Reads(u, head - Size)
    BY DEF BlockedOrFull
  <2>1. /\ ThreadOK(t) /\ tail <= head /\ head <= tail + Size /\ Size \in Nat
        /\ tail \in Nat /\ head \in Nat /\ pos[t] \in Nat /\ seq[node(pos[t])] \in Nat
    BY SizeAssumption, NodeType DEF IInv, TypeOK
  <2>2. pos[t] = head
    BY <2>1 DEF ThreadOK
  <2>3. head \in head .. tail + Size - 1
    BY <2>1
  <2>4. FreeOK(head)
    BY <2>3 DEF IInv
  <2> QED BY <2>1, <2>2, <2>4 DEF FreeOK
<1> QED BY <1>1, MpmcInvariance, PTL

-----------------------------------------------------------------------------
\* The elements between the two ends of the queue, as a sequence.
LEMMA Window ==
  ASSUME NEW s \in Seq(Value), NEW a \in Nat, NEW b \in Nat, a <= b, Len(s) = b
  PROVE  /\ SubSeq(s, a + 1, b) \in Seq(Value) /\ Len(SubSeq(s, a + 1, b)) = b - a
         /\ \A i \in 1 .. b - a : SubSeq(s, a + 1, b)[i] = s[a + i]
<1>1. \A i \in a + 1 .. b : s[i] \in Value
  OBVIOUS
<1>2. a + 1 \in Int /\ b \in Int
  OBVIOUS
<1>3. /\ SubSeq(s, a + 1, b) \in Seq(Value)
      /\ Len(SubSeq(s, a + 1, b)) = IF a + 1 <= b THEN b - (a + 1) + 1 ELSE 0
      /\ \A i \in 1 .. b - (a + 1) + 1 : SubSeq(s, a + 1, b)[i] = s[a + 1 + i - 1]
  BY <1>1, <1>2, SubSeqProperties
<1>4. ASSUME NEW i \in 1 .. b - a PROVE SubSeq(s, a + 1, b)[i] = s[a + i]
  <2>1. i \in 1 .. b - (a + 1) + 1 /\ a + 1 + i - 1 = a + i
    OBVIOUS
  <2>2. SubSeq(s, a + 1, b)[i] = s[a + 1 + i - 1]
    BY <1>3, <2>1
  <2> QED BY <2>1, <2>2
<1>5. Len(SubSeq(s, a + 1, b)) = b - a
  BY <1>3
<1> QED BY <1>3, <1>4, <1>5

\* What another thread has taken stays its own.
LEMMA TakenKept ==
  ASSUME IInv, NEW t \in Thread, EnqueueWrite(t)
  PROVE  Taken' = Taken
<1>1. TypeOK /\ NodeExclusive
  BY NodeExclusiveInv DEF IInv
<1>2. /\ pc[t] = "enq_write" /\ data' = [data EXCEPT ![node(pos[t])] = arg[t]]
      /\ pc' = [pc EXCEPT ![t] = "enq_publish"] /\ pos' = pos /\ out' = out
  BY DEF EnqueueWrite
<1>3. ASSUME NEW u \in Thread
      PROVE  (IF pc'[u] = "deq_read" THEN data'[node(pos'[u])] ELSE out'[u])
             = (IF pc[u] = "deq_read" THEN data[node(pos[u])] ELSE out[u])
  <2>1. CASE u = t
    BY <1>1, <1>2, <2>1 DEF TypeOK
  <2>2. CASE u # t
    <3>1. pc'[u] = pc[u] /\ node(pos[u]) \in Slot
      BY <1>1, <1>2, <2>2, NodeType DEF TypeOK
    <3>2. pc[u] = "deq_read" => node(pos[t]) # node(pos[u])
      BY <1>1, <1>2, <2>2 DEF NodeExclusive
    <3>3. pc[u] = "deq_read" => data'[node(pos[u])] = data[node(pos[u])]
      BY <1>1, <1>2, <3>1, <3>2 DEF TypeOK
    <3> QED BY <1>2, <3>1, <3>3
  <2> QED BY <2>1, <2>2
<1> QED BY <1>3 DEF Taken, node

\* Claiming a ticket of _head_seq appends to the queue.
LEMMA EnqueueClaimFifo ==
  ASSUME IInv, IInv', NEW t \in Thread, EnqueueClaim(t)
  PROVE  Fifo!Enqueue(arg[t])
<1>1. TypeOK /\ head' = head + 1 /\ head \in Nat /\ tail \in Nat /\ Size \in Nat
      /\ tail' = tail /\ tail <= head /\ head' <= tail' + Size /\ item \in Seq(Value)
      /\ Len(item) = head /\ arg[t] \in Value /\ item' = Append(item, arg[t])
  BY SizeAssumption DEF IInv, TypeOK, EnqueueClaim
<1>2. /\ Queued \in Seq(Value) /\ Len(Queued) = head - tail
      /\ \A i \in 1 .. head - tail : Queued[i] = item[tail + i]
  BY <1>1, Window DEF Queued
<1>3. /\ Queued' \in Seq(Value) /\ Len(Queued') = head' - tail'
      /\ \A i \in 1 .. head' - tail' : Queued'[i] = item'[tail' + i]
  <2>1. /\ item' \in Seq(Value) /\ Len(item') = head' /\ head' \in Nat /\ tail' \in Nat
        /\ tail' <= head'
    BY <1>1, AppendProperties
  <2> QED BY ZenonT(30), <2>1, Window DEF Queued
<1>4. Queued' = Append(Queued, arg[t])
  <2>1. /\ Append(Queued, arg[t]) \in Seq(Value)
        /\ Len(Append(Queued, arg[t])) = Len(Queued')
    <3>1. Queued \in Seq(Value) /\ arg[t] \in Value
      BY <1>1, <1>2
    <3>2. Append(Queued, arg[t]) \in Seq(Value) /\ Len(Append(Queued, arg[t])) = Len(Queued) + 1
      BY <3>1, AppendProperties
    <3>3. Len(Queued') = Len(Queued) + 1
      BY <1>1, <1>2, <1>3
    <3> QED BY <3>2, <3>3
  <2>2. ASSUME NEW i \in 1 .. Len(Queued') PROVE Queued'[i] = Append(Queued, arg[t])[i]
    <3>1. i \in 1 .. head - tail \/ i = Len(Queued) + 1
      BY <1>1, <1>2, <1>3
    <3>2. CASE i \in 1 .. head - tail
      <4>1. Append(Queued, arg[t])[i] = item[tail + i]
        BY <1>1, <1>2, <3>2, AppendProperties
      <4>2. Queued'[i] = Append(item, arg[t])[tail + i] /\ tail + i \in 1 .. Len(item)
        BY <1>1, <1>3, <3>2
      <4> QED BY <1>1, <4>1, <4>2, AppendProperties
    <3>3. CASE i = Len(Queued) + 1
      <4>1. Append(Queued, arg[t])[i] = arg[t]
        BY ZenonT(60), <1>1, <1>2, <3>3, AppendProperties
      <4>2. Queued'[i] = Append(item, arg[t])[Len(item) + 1]
        BY <1>1, <1>2, <1>3, <3>3
      <4> QED BY <1>1, <4>1, <4>2, AppendProperties
    <3> QED BY ZenonT(30), <3>1, <3>2, <3>3
  <2> QED BY <1>3, <2>1, <2>2, SeqEqual
<1>5. Taken' = Taken
  <2>1. /\ pc[t] = "enq_claim" /\ pc' = [pc EXCEPT ![t] = "enq_write"]
        /\ pos' = pos /\ data' = data /\ out' = out
    BY DEF EnqueueClaim
  <2> QED BY <1>1, <2>1 DEF Taken, TypeOK, node
<1>6. Len(Queued) < Size
  BY <1>1, <1>2
<1> QED BY ZenonT(30), <1>4, <1>5, <1>6 DEF Fifo!Enqueue

\* Claiming a ticket of _tail_seq takes the oldest element out.
LEMMA DequeueClaimFifo ==
  ASSUME IInv, IInv', NEW t \in Thread, DequeueClaim(t)
  PROVE  Fifo!Dequeue(t)
<1>1. TypeOK /\ tail' = tail + 1 /\ head \in Nat /\ tail \in Nat
      /\ head' = head /\ tail' <= head' /\ item \in Seq(Value)
      /\ Len(item) = head /\ item' = item /\ pos[t] = tail
      /\ pc[t] = "deq_claim" /\ pc' = [pc EXCEPT ![t] = "deq_read"]
      /\ pos' = pos /\ data' = data /\ out' = out
  BY DEF IInv, TypeOK, DequeueClaim
<1>2. tail + 1 \in 1 .. Len(item) /\ head \in tail + 1 .. Len(item)
  BY <1>1
<1>3. Head(Queued) = item[tail + 1] /\ Tail(Queued) = SubSeq(item, tail + 1 + 1, head)
  BY <1>1, <1>2 DEF Queued
<1>4. Queued' = Tail(Queued)
  BY ZenonT(30), <1>1, <1>3 DEF Queued
<1>5. Queued # <<>>
  <2>1. Len(Queued) = head - tail
    BY <1>1, Window DEF Queued
  <2> QED BY <1>1, <2>1
<1>6. data[node(tail)] = Head(Queued)
  <2>1. OwnElement'
    BY OwnElementInv, PTL
  <2>2. pc'[t] = "deq_read"
    BY <1>1 DEF TypeOK
  <2> QED BY <1>1, <1>3, <2>1, <2>2 DEF OwnElement, node
<1>7. Taken' = [Taken EXCEPT ![t] = Head(Queued)]
  BY ZenonT(30), <1>1, <1>6 DEF Taken, TypeOK, node
<1> QED BY <1>4, <1>5, <1>7 DEF Fifo!Dequeue

\* The other steps are not seen by the callers.
LEMMA QuietFifo ==
  ASSUME IInv, NEW t \in Thread, Step(t), ~EnqueueClaim(t), ~DequeueClaim(t)
  PROVE  UNCHANGED <<Queued, Taken>>
<1>1. TypeOK
  BY DEF IInv
<1>2. CASE EnqueueWrite(t)
  BY ZenonT(30), <1>2, TakenKept DEF EnqueueWrite, Queued
<1>3. CASE DequeueRead(t)
  BY <1>1, <1>3 DEF DequeueRead, Queued, Taken, TypeOK, node
<1>4. CASE (\E v \in Value : Enqueue(t, v)) \/ EnqueueCheck(t) \/ EnqueueLoad(t) \/ EnqueueRetry(t)
  BY <1>1, <1>4 DEF Enqueue, EnqueueCheck, EnqueueLoad, EnqueueRetry, Queued, Taken, TypeOK, node
<1>5. CASE Dequeue(t) \/ DequeueCheck(t) \/ DequeueLoad(t) \/ DequeueRetry(t)
  BY <1>1, <1>5 DEF Dequeue, DequeueCheck, DequeueLoad, DequeueRetry, Queued, Taken, TypeOK, node
<1>6. CASE EnqueuePublish(t) \/ DequeueRelease(t)
  BY <1>1, <1>6 DEF EnqueuePublish, DequeueRelease, Queued, Taken, TypeOK, node
<1> QED BY <1>2, <1>3, <1>4, <1>5, <1>6 DEF Step

\* The lock-free queue implements a bounded first-in-first-out queue: every
\* enqueue that succeeds and every dequeue that succeeds takes effect at once,
\* at its compare-exchange.
THEOREM MpmcRefinement == Spec => ImplementsFifo
<1>1. Init => Fifo!Init
  <2> SUFFICES ASSUME Init PROVE Fifo!Init
    OBVIOUS
  <2>1. TypeOK /\ tail = 0 /\ head = 0
    BY InitIInv DEF IInv, Init
  <2>2. Queued = <<>>
    BY <2>1 DEF Queued
  <2>3. Taken \in [Thread -> Value]
    BY <2>1, NodeType DEF Taken, TypeOK
  <2> QED BY <2>2, <2>3 DEF Fifo!Init
<1>2. IInv /\ IInv' /\ [Next]_vars => [Fifo!Next]_<<Queued, Taken>>
  <2> SUFFICES ASSUME IInv, IInv', [Next]_vars PROVE [Fifo!Next]_<<Queued, Taken>>
    OBVIOUS
  <2>1. CASE UNCHANGED vars
    BY <2>1 DEF vars, Queued, Taken, node
  <2>2. CASE Next
    <3>1. PICK t \in Thread : Step(t)
      BY <2>2 DEF Next
    <3>2. CASE EnqueueClaim(t)
      <4>1. arg[t] \in Value
        BY DEF IInv, TypeOK
      <4> QED BY <3>2, <4>1, EnqueueClaimFifo DEF Fifo!Next
    <3>3. CASE DequeueClaim(t)
      BY <3>3, DequeueClaimFifo DEF Fifo!Next
    <3>4. CASE ~EnqueueClaim(t) /\ ~DequeueClaim(t)
      BY <3>1, <3>4, QuietFifo
    <3> QED BY <3>2, <3>3, <3>4
  <2> QED BY <2>1, <2>2
<1> QED BY <1>1, <1>2, MpmcInvariance, PTL DEF Spec, ImplementsFifo, Fifo!Spec

-----------------------------------------------------------------------------
\* Ticket_lock.

CONSTANTS Locker, Modulus

VARIABLES ticket, users, lpc, me, next

Ticket == INSTANCE TicketLock WITH Thread <- Locker, pc <- lpc

\* What TicketLock assumes of its constants.
Tickets == Modulus \in Nat \ {0} /\ Ticket!Countable(Locker) /\ Ticket!Cardinality(Locker) <= Modulus

\* The sum of a counter and a count of threads, as the counter shows it.
LEMMA Wrapped ==
  ASSUME Tickets, NEW x \in Ticket!Number, NEW k \in 0 .. Modulus
  PROVE  (x + k) % Modulus = IF x + k < Modulus THEN x + k ELSE x + k - Modulus
BY DEF Tickets, Ticket!Number

\* ++ on a counter of Ticket_lock.
LEMMA IncrementedValue ==
  ASSUME Tickets, NEW x \in Ticket!Number
  PROVE  /\ Ticket!Incremented(x) \in Ticket!Number
         /\ Ticket!Incremented(x) = IF x + 1 < Modulus THEN x + 1 ELSE 0
<1>1. 1 \in 0 .. Modulus
  BY DEF Tickets
<1>2. (x + 1) % Modulus = IF x + 1 < Modulus THEN x + 1 ELSE x + 1 - Modulus
  BY <1>1, Wrapped
<1> HIDE DEF Ticket!Incremented
<1>3. Ticket!Incremented(x) = IF x + 1 < Modulus THEN x + 1 ELSE x + 1 - Modulus
  BY <1>2 DEF Ticket!Incremented
<1> QED
  BY <1>3 DEF Tickets, Ticket!Number

\* The threads that have drawn a number are not more than there are numbers.
LEMMA ActiveFinite ==
  ASSUME Tickets, Ticket!TypeOK
  PROVE  /\ Ticket!Active \in SUBSET Locker
         /\ Ticket!Cardinality(Ticket!Active) \in 0 .. Modulus
         /\ Ticket!Active # Locker => Ticket!Cardinality(Ticket!Active) < Modulus
<1>1. Ticket!Active \in SUBSET Locker /\ Locker \in SUBSET Locker
  BY DEF Ticket!Active
<1>2. /\ Ticket!Cardinality(Ticket!Active) \in Nat /\ Ticket!Cardinality(Locker) \in Nat
      /\ Ticket!Active # Locker => Ticket!Cardinality(Ticket!Active) < Ticket!Cardinality(Locker)
  BY <1>1 DEF Tickets, Ticket!Countable
<1>3. Ticket!Cardinality(Locker) <= Modulus /\ Modulus \in Nat
  BY DEF Tickets
<1> QED
  BY <1>1, <1>2, <1>3

\* One more thread with a number.
LEMMA OneMore ==
  ASSUME Tickets, NEW S \in SUBSET Locker, NEW t \in Locker \ S
  PROVE  Ticket!Cardinality(S \cup {t}) = Ticket!Cardinality(S) + 1
BY ZenonT(30) DEF Tickets, Ticket!Countable

\* One thread less.
LEMMA OneLess ==
  ASSUME Tickets, NEW S \in SUBSET Locker, NEW t \in S
  PROVE  Ticket!Cardinality(S \ {t}) = Ticket!Cardinality(S) - 1
<1>1. S \ {t} \in SUBSET Locker /\ t \in Locker \ (S \ {t}) /\ (S \ {t}) \cup {t} = S
  OBVIOUS
<1>2. Ticket!Cardinality(S \ {t}) \in Nat
  BY <1>1 DEF Tickets, Ticket!Countable
<1>3. Ticket!Cardinality((S \ {t}) \cup {t}) = Ticket!Cardinality(S \ {t}) + 1
  BY <1>1, OneMore
<1> QED BY <1>1, <1>2, <1>3

\* No thread has a number.
LEMMA NoneActive ==
  ASSUME Tickets, NEW S \in SUBSET Locker
  PROVE  Ticket!Cardinality(S) = 0 <=> S = {}
BY DEF Tickets, Ticket!Countable

\* A new lock.
LEMMA TicketInit == Tickets /\ Ticket!Init => Ticket!IInv
<1> SUFFICES ASSUME Tickets, Ticket!Init PROVE Ticket!IInv
  OBVIOUS
<1>1. Ticket!TypeOK
  BY DEF Tickets, Ticket!Init, Ticket!TypeOK, Ticket!Number
<1>2. Ticket!Active = {}
  BY DEF Ticket!Init, Ticket!Active
<1>3. Ticket!Cardinality(Ticket!Active) = 0
  BY <1>2, NoneActive
<1>4. users = (ticket + Ticket!Cardinality(Ticket!Active)) % Modulus
  <2>1. 0 \in Ticket!Number /\ 0 \in 0 .. Modulus /\ 0 + 0 < Modulus
    BY DEF Tickets, Ticket!Number
  <2> QED
    BY <1>3, <2>1, Wrapped DEF Ticket!Init
<1> QED
  BY <1>1, <1>2, <1>4 DEF Ticket!Init, Ticket!IInv, Ticket!NumbersOK

\* lock draws a number nobody has, behind all the others.
LEMMA LockStep ==
  ASSUME Tickets, Ticket!IInv, NEW t \in Locker, Ticket!Lock(t)
  PROVE  Ticket!IInv'
<1> DEFINE k == Ticket!Cardinality(Ticket!Active)
<1> USE DEF Ticket!IInv
<1>1. /\ t \notin Ticket!Active
      /\ Ticket!Active' = Ticket!Active \cup {t}
  BY DEF Ticket!Lock, Ticket!Active, Ticket!TypeOK
<1>2. k \in 0 .. Modulus - 1 /\ Ticket!Active \in SUBSET Locker
  BY <1>1, ActiveFinite DEF Tickets
<1>3. Ticket!Cardinality(Ticket!Active') = k + 1
  BY <1>1, <1>2, OneMore
<1>4. users = IF ticket + k < Modulus THEN ticket + k ELSE ticket + k - Modulus
  <2>1. k \in 0 .. Modulus
    BY <1>2 DEF Tickets
  <2> QED
    BY <2>1, Wrapped DEF Ticket!NumbersOK, Ticket!TypeOK
<1>5. Ticket!TypeOK'
  BY IncrementedValue DEF Ticket!Lock, Ticket!TypeOK
<1>6. users' = (ticket' + (k + 1)) % Modulus
  <2>1. k + 1 \in 0 .. Modulus
    BY <1>2 DEF Tickets
  <2>2. (ticket + (k + 1)) % Modulus
          = IF ticket + (k + 1) < Modulus THEN ticket + (k + 1) ELSE ticket + (k + 1) - Modulus
    BY <2>1, Wrapped DEF Ticket!TypeOK
  <2>3. users' = IF users + 1 < Modulus THEN users + 1 ELSE 0
    BY IncrementedValue DEF Ticket!Lock, Ticket!TypeOK
  <2>4. ticket' = ticket
    BY DEF Ticket!Lock
  <2> QED
    BY <1>2, <1>4, <2>2, <2>3, <2>4 DEF Tickets, Ticket!TypeOK, Ticket!Number
<1>7. Ticket!Turns(users) = k
  BY <1>2, <1>4 DEF Tickets, Ticket!Turns, Ticket!TypeOK, Ticket!Number
<1>8. \A u \in Ticket!Active : me[u] # users
  BY <1>2, <1>7 DEF Ticket!NumbersOK
<1>9. me' = [me EXCEPT ![t] = users] /\ ticket' = ticket /\ next' = next
      /\ lpc' = [lpc EXCEPT ![t] = "spin"]
  BY DEF Ticket!Lock
<1>10. \A u \in Ticket!Active' : Ticket!Turns(me[u])' < k + 1
  <2> SUFFICES ASSUME NEW u \in Ticket!Active' PROVE Ticket!Turns(me[u])' < k + 1
    OBVIOUS
  <2>1. CASE u = t
    <3>1. Ticket!Turns(me[u])' = Ticket!Turns(users)
      BY <1>9, <2>1 DEF Ticket!Turns, Ticket!TypeOK
    <3> QED
      BY <3>1, <1>7, <1>2
  <2>2. CASE u # t
    <3>1. u \in Ticket!Active /\ u \in Locker
      BY <1>1, <2>2 DEF Ticket!Active
    <3>2. Ticket!Turns(me[u])' = Ticket!Turns(me[u])
      BY <1>9, <2>2, <3>1 DEF Ticket!Turns, Ticket!TypeOK
    <3>3. Ticket!Turns(me[u]) \in Int
      BY <3>1 DEF Tickets, Ticket!Turns, Ticket!TypeOK, Ticket!Number
    <3> QED
      BY <3>1, <3>2, <3>3, <1>2 DEF Ticket!NumbersOK
  <2> QED
    BY <2>1, <2>2
<1>11. \A u, v \in Ticket!Active' : me'[u] = me'[v] => u = v
  BY <1>1, <1>8, <1>9 DEF Ticket!NumbersOK, Ticket!TypeOK, Ticket!Active
<1>12. \A u \in Locker : /\ lpc'[u] \in {"in", "unlock"} => me'[u] = ticket'
                         /\ lpc'[u] = "unlock" => next'[u] = Ticket!Incremented(ticket')
  BY <1>9 DEF Ticket!NumbersOK, Ticket!TypeOK, Ticket!Lock
<1> QED
  BY <1>3, <1>5, <1>6, <1>10, <1>11, <1>12 DEF Ticket!NumbersOK, Ticket!Incremented

\* The holder's number is the one shown; ticket moves on to the next, and every
\* thread that waits has one turn less to wait.
LEMMA UnlockStep ==
  ASSUME Tickets, Ticket!IInv, NEW t \in Locker, Ticket!UnlockStore(t)
  PROVE  Ticket!IInv'
<1> DEFINE k == Ticket!Cardinality(Ticket!Active)
<1> USE DEF Ticket!IInv
<1>1. /\ t \in Ticket!Active
      /\ Ticket!Active' = Ticket!Active \ {t}
      /\ me[t] = ticket
      /\ ticket' = Ticket!Incremented(ticket)
      /\ lpc' = [lpc EXCEPT ![t] = "out"]
      /\ users' = users /\ me' = me /\ next' = next
  BY DEF Ticket!UnlockStore, Ticket!Active, Ticket!TypeOK, Ticket!NumbersOK
<1>2. k \in 1 .. Modulus /\ Ticket!Active \in SUBSET Locker
  BY <1>1, ActiveFinite, NoneActive
<1>3. Ticket!Cardinality(Ticket!Active') = k - 1
  BY <1>1, <1>2, OneLess
<1>4. ticket' \in Ticket!Number /\ ticket' = IF ticket + 1 < Modulus THEN ticket + 1 ELSE 0
  BY <1>1, IncrementedValue DEF Ticket!TypeOK
<1>5. Ticket!TypeOK'
  BY <1>1, <1>4 DEF Ticket!TypeOK
<1>6. users' = (ticket' + (k - 1)) % Modulus
  <2>1. (ticket + k) % Modulus = IF ticket + k < Modulus THEN ticket + k ELSE ticket + k - Modulus
    BY <1>2, Wrapped DEF Tickets, Ticket!TypeOK
  <2>2. (ticket' + (k - 1)) % Modulus
          = IF ticket' + (k - 1) < Modulus THEN ticket' + (k - 1) ELSE ticket' + (k - 1) - Modulus
    <3>1. k - 1 \in 0 .. Modulus
      BY <1>2 DEF Tickets
    <3> QED
      BY <1>4, <3>1, Wrapped
  <2>3. users' = (ticket + k) % Modulus
    BY <1>1 DEF Ticket!NumbersOK
  <2> QED
    BY <1>2, <1>4, <2>1, <2>2, <2>3 DEF Tickets, Ticket!TypeOK, Ticket!Number
<1>7. \A u \in Ticket!Active' : me'[u] # ticket
  BY <1>1 DEF Ticket!NumbersOK
<1>8. \A u \in Ticket!Active' : Ticket!Turns(me[u])' < k - 1
  <2> SUFFICES ASSUME NEW u \in Ticket!Active' PROVE Ticket!Turns(me[u])' < k - 1
    OBVIOUS
  <2>1. u \in Ticket!Active /\ u \in Locker /\ me'[u] = me[u] /\ me[u] # ticket
    BY <1>1, <1>7 DEF Ticket!Active
  <2>2. Ticket!Turns(me[u]) < k
    BY <2>1 DEF Ticket!NumbersOK
  <2>3. Ticket!Turns(me[u])' = IF ticket' <= me[u] THEN me[u] - ticket' ELSE me[u] + Modulus - ticket'
    BY <2>1 DEF Ticket!Turns
  <2> QED
    BY <1>2, <1>4, <2>1, <2>2, <2>3 DEF Tickets, Ticket!Turns, Ticket!TypeOK, Ticket!Number
<1>9. \A u, v \in Ticket!Active' : me'[u] = me'[v] => u = v
  BY <1>1 DEF Ticket!NumbersOK
<1>10. \A u \in Locker : lpc'[u] \notin {"in", "unlock"}
  <2> SUFFICES ASSUME NEW u \in Locker, lpc'[u] \in {"in", "unlock"} PROVE FALSE
    OBVIOUS
  <2>1. u # t /\ u \in Ticket!Active /\ me[u] = ticket
    BY <1>1 DEF Ticket!TypeOK, Ticket!Active, Ticket!NumbersOK
  <2> QED
    BY <2>1, <1>1 DEF Ticket!NumbersOK
<1> QED
  BY <1>3, <1>5, <1>6, <1>8, <1>9, <1>10 DEF Ticket!NumbersOK

\* trylock succeeds only if nobody has drawn a number that is not given back.
LEMMA TrylockStep ==
  ASSUME Tickets, Ticket!IInv, NEW t \in Locker, Ticket!TrylockSwap(t)
  PROVE  Ticket!IInv'
<1> DEFINE k == Ticket!Cardinality(Ticket!Active)
<1> USE DEF Ticket!IInv
<1>1. t \notin Ticket!Active
  BY DEF Ticket!TrylockSwap, Ticket!Active
<1>2. k \in 0 .. Modulus - 1 /\ Ticket!Active \in SUBSET Locker
  BY <1>1, ActiveFinite DEF Tickets
<1>3. CASE ~(users = me[t] /\ ticket = me[t])
  <2>1. /\ lpc' = [lpc EXCEPT ![t] = "out"]
        /\ UNCHANGED <<ticket, users, me, next>>
    BY <1>3 DEF Ticket!TrylockSwap
  <2>2. Ticket!Active' = Ticket!Active
    BY <1>1, <2>1 DEF Ticket!Active, Ticket!TypeOK
  <2>3. Ticket!TypeOK'
    BY <2>1 DEF Ticket!TypeOK
  <2>4. \A u \in Locker : lpc'[u] \in {"in", "unlock"} => lpc'[u] = lpc[u]
    BY <2>1 DEF Ticket!TypeOK
  <2> QED
    BY <2>1, <2>2, <2>3, <2>4 DEF Ticket!NumbersOK, Ticket!Turns
<1>4. CASE users = me[t] /\ ticket = me[t]
  <2>1. /\ lpc' = [lpc EXCEPT ![t] = "in"]
        /\ users' = Ticket!Incremented(ticket)
        /\ UNCHANGED <<ticket, me, next>>
    BY <1>4 DEF Ticket!TrylockSwap
  <2>2. k = 0
    <3>1. ticket = IF ticket + k < Modulus THEN ticket + k ELSE ticket + k - Modulus
      BY <1>2, <1>4, Wrapped DEF Tickets, Ticket!NumbersOK, Ticket!TypeOK
    <3> QED
      BY <3>1, <1>2 DEF Tickets, Ticket!TypeOK, Ticket!Number
  <2>3. Ticket!Active = {}
    BY <2>2, <1>2, NoneActive
  <2>4. Ticket!Active' = {t}
    BY <2>1, <2>3 DEF Ticket!Active, Ticket!TypeOK
  <2>5. Ticket!Cardinality(Ticket!Active') = 1
    <3>1. {} \in SUBSET Locker /\ t \in Locker \ {} /\ {} \cup {t} = {t}
      OBVIOUS
    <3>2. Ticket!Cardinality({} \cup {t}) = Ticket!Cardinality({}) + 1
      BY <3>1, OneMore
    <3>3. Ticket!Cardinality({}) = 0
      BY <3>1, NoneActive
    <3> QED BY <2>4, <3>1, <3>2, <3>3
  <2>6. Ticket!TypeOK'
    BY <2>1, IncrementedValue DEF Ticket!TypeOK
  <2>7. Ticket!Turns(me[t])' = 0
    BY <1>4, <2>1 DEF Ticket!Turns, Ticket!TypeOK, Ticket!Number
  <2>8. \A u \in Locker : lpc'[u] \in {"in", "unlock"} => u = t /\ lpc'[u] = "in"
    BY <2>1, <2>3 DEF Ticket!Active, Ticket!TypeOK
  <2> QED
    BY <1>4, <2>1, <2>4, <2>5, <2>6, <2>7, <2>8 DEF Ticket!NumbersOK, Ticket!Incremented
<1> QED
  BY <1>3, <1>4

\* The other steps change neither counter, nor who has a number.
LEMMA LocalStep ==
  ASSUME Tickets, Ticket!IInv, NEW t \in Locker, Ticket!Enter(t) \/ Ticket!UnlockLoad(t) \/ Ticket!TrylockLoad(t)
  PROVE  Ticket!IInv'
<1> USE DEF Ticket!IInv
<1>1. CASE Ticket!Enter(t)
  <2>1. Ticket!Active' = Ticket!Active
    BY <1>1 DEF Ticket!Enter, Ticket!Active, Ticket!TypeOK
  <2>2. Ticket!TypeOK'
    BY <1>1 DEF Ticket!Enter, Ticket!TypeOK
  <2> QED
    BY <1>1, <2>1, <2>2 DEF Ticket!Enter, Ticket!NumbersOK, Ticket!Turns, Ticket!TypeOK
<1>2. CASE Ticket!UnlockLoad(t)
  <2>1. Ticket!Active' = Ticket!Active
    BY <1>2 DEF Ticket!UnlockLoad, Ticket!Active, Ticket!TypeOK
  <2>2. Ticket!TypeOK'
    BY <1>2, IncrementedValue DEF Ticket!UnlockLoad, Ticket!TypeOK
  <2> QED
    BY <1>2, <2>1, <2>2 DEF Ticket!UnlockLoad, Ticket!NumbersOK, Ticket!Turns, Ticket!TypeOK
<1>3. CASE Ticket!TrylockLoad(t)
  <2>1. Ticket!Active' = Ticket!Active /\ t \notin Ticket!Active
    BY <1>3 DEF Ticket!TrylockLoad, Ticket!Active, Ticket!TypeOK
  <2>2. Ticket!TypeOK'
    BY <1>3 DEF Ticket!TrylockLoad, Ticket!TypeOK
  <2>3. \A u \in Locker : u # t => me'[u] = me[u] /\ lpc'[u] = lpc[u]
    BY <1>3 DEF Ticket!TrylockLoad, Ticket!TypeOK
  <2>4. lpc'[t] = "try" /\ UNCHANGED <<ticket, users, next>>
    BY <1>3 DEF Ticket!TrylockLoad, Ticket!TypeOK
  <2>5. Ticket!Active \subseteq Locker
    BY DEF Ticket!Active
  <2> QED
    BY <2>1, <2>2, <2>3, <2>4, <2>5 DEF Ticket!NumbersOK, Ticket!Turns
<1> QED
  BY <1>1, <1>2, <1>3

\* NumbersOK is inductive: the numbers threads hold are always the next ones
\* that ticket will show.
THEOREM TicketInvariance == Tickets => (Ticket!Spec => []Ticket!IInv)
<1>1. Tickets /\ Ticket!Init => Ticket!IInv
  BY TicketInit
<1>2. Tickets /\ Ticket!IInv /\ [Ticket!Next]_(Ticket!vars) => Ticket!IInv'
  <2> SUFFICES ASSUME Tickets, Ticket!IInv, [Ticket!Next]_(Ticket!vars) PROVE Ticket!IInv'
    OBVIOUS
  <2>1. CASE Ticket!Next
    <3>1. PICK t \in Locker : Ticket!Lock(t) \/ Ticket!TrylockLoad(t) \/ Ticket!Finish(t)
      BY <2>1 DEF Ticket!Next
    <3> QED
      BY <3>1, LockStep, UnlockStep, TrylockStep, LocalStep DEF Ticket!Finish
  <2>2. CASE UNCHANGED Ticket!vars
    BY <2>2 DEF Ticket!vars, Ticket!IInv, Ticket!TypeOK, Ticket!NumbersOK, Ticket!Active, Ticket!Turns
  <2> QED
    BY <2>1, <2>2
<1>3. Tickets => Tickets'
  BY DEF Tickets
<1> QED
  BY <1>1, <1>2, <1>3, PTL DEF Ticket!Spec

\* The counters of Ticket_lock keep within their width.
THEOREM TicketTypeCorrect == Tickets => (Ticket!Spec => []Ticket!TypeOK)
<1>1. Ticket!IInv => Ticket!TypeOK
  BY DEF Ticket!IInv
<1> QED
  BY <1>1, TicketInvariance, PTL

\* Ticket_lock excludes, with lock, trylock and wrapping counters, for any
\* number of threads that does not exceed the number of tickets.
THEOREM TicketExclusion == Tickets => (Ticket!Spec => []Ticket!MutualExclusion)
<1>1. Ticket!IInv => Ticket!MutualExclusion
  BY DEF Ticket!IInv, Ticket!NumbersOK, Ticket!MutualExclusion, Ticket!Active
<1> QED
  BY <1>1, TicketInvariance, PTL

\* trylock gets the lock only when nobody has it or waits for it: the exchange
\* finds users and ticket equal, and the thread itself leaves a number unused,
\* so that users cannot have gone once round.
THEOREM TicketNobodyOvertaken == Tickets => (Ticket!Spec => Ticket!TrylockFindsFree)
<1>1. Tickets /\ Ticket!IInv /\ [Ticket!Next]_(Ticket!vars) =>
        [\A t \in Locker : lpc[t] = "try" /\ lpc'[t] = "in" => Ticket!Active = {}]_(Ticket!vars)
  <2> SUFFICES ASSUME Tickets, Ticket!IInv, Ticket!Next,
                      NEW t \in Locker, lpc[t] = "try", lpc'[t] = "in"
               PROVE  Ticket!Active = {}
    OBVIOUS
  <2>1. Ticket!TrylockSwap(t)
    <3>1. PICK u \in Locker : Ticket!Lock(u) \/ Ticket!TrylockLoad(u) \/ Ticket!Finish(u)
      BY DEF Ticket!Next
    <3>2. u = t
      BY <3>1 DEF Ticket!Finish, Ticket!Lock, Ticket!TrylockLoad, Ticket!Enter, Ticket!UnlockLoad,
                  Ticket!UnlockStore, Ticket!TrylockSwap, Ticket!IInv, Ticket!TypeOK
    <3> QED
      BY <3>1, <3>2 DEF Ticket!Finish, Ticket!Lock, Ticket!TrylockLoad, Ticket!Enter,
                        Ticket!UnlockLoad, Ticket!UnlockStore
  <2>2. users = ticket
    BY <2>1 DEF Ticket!TrylockSwap, Ticket!IInv, Ticket!TypeOK
  <2>3. t \notin Ticket!Active
    BY DEF Ticket!Active
  <2>4. /\ Ticket!Active \in SUBSET Locker
        /\ Ticket!Cardinality(Ticket!Active) \in 0 .. Modulus
        /\ Ticket!Cardinality(Ticket!Active) < Modulus
    BY <2>3, ActiveFinite DEF Ticket!IInv
  <2>5. users = IF ticket + Ticket!Cardinality(Ticket!Active) < Modulus
                THEN ticket + Ticket!Cardinality(Ticket!Active)
                ELSE ticket + Ticket!Cardinality(Ticket!Active) - Modulus
    BY <2>4, Wrapped DEF Ticket!IInv, Ticket!NumbersOK, Ticket!TypeOK
  <2>6. Ticket!Cardinality(Ticket!Active) = 0
    BY <2>2, <2>4, <2>5 DEF Tickets, Ticket!IInv, Ticket!TypeOK, Ticket!Number
  <2> QED
    BY <2>4, <2>6, NoneActive
<1>2. Tickets => Tickets'
  BY DEF Tickets
<1> QED
  BY <1>1, <1>2, TicketInvariance, PTL DEF Ticket!Spec, Ticket!TrylockFindsFree

-----------------------------------------------------------------------------
\* Spsc_bounded_lfq.

CONSTANTS RingSize, SemMax

VARIABLES rhead, rtail, buffer, state, sem, exit, ppc, rarg, cpc, output, mode

Spsc == INSTANCE SpscQueue WITH Size <- RingSize, head <- rhead, tail <- rtail, arg <- rarg

\* What SpscQueue assumes of its constants.
Ring == Value # {} /\ RingSize \in Nat \ {0} /\ SemMax \in Nat \ {0}

\* How many slots the ring uses, the one being read included.
SpscUsed == (rhead - rtail) % RingSize

\* Between its look at the consumer's _tail and its store of _head the producer
\* has a slot that the consumer does not look at; between its look at _head and
\* its store of _tail the consumer has an element that the producer does not
\* overwrite.  Each thread moves only its own end, and away from the other's.
SpscInv ==
  /\ Spsc!TypeOK
  /\ ppc \in {"write", "publish"} => SpscUsed < RingSize - 1
  /\ ppc = "publish" => buffer[rhead] = rarg
  /\ cpc \in {"read", "advance"} => SpscUsed > 0
  /\ cpc = "advance" => output = buffer[rtail]

-----------------------------------------------------------------------------
\* Positions on the ring.

\* The distance from a slot to another, around the ring.
LEMMA Distance ==
  ASSUME Ring, NEW h \in Spsc!Slot, NEW f \in Spsc!Slot
  PROVE  (h - f) % RingSize = IF f <= h THEN h - f ELSE h - f + RingSize
BY DEF Ring, Spsc!Slot

\* The slot after one, as _head and _tail are advanced.
LEMMA Successor ==
  ASSUME Ring, NEW h \in Spsc!Slot
  PROVE  /\ (h + 1) % RingSize = IF h + 1 = RingSize THEN 0 ELSE h + 1
         /\ (h + 1) % RingSize \in Spsc!Slot
BY DEF Ring, Spsc!Slot

\* The slot so many after one.
LEMMA Onward ==
  ASSUME Ring, NEW f \in Spsc!Slot, NEW i \in 1 .. RingSize
  PROVE  /\ (f + i - 1) % RingSize = IF f + i - 1 < RingSize THEN f + i - 1 ELSE f + i - 1 - RingSize
         /\ (f + i - 1) % RingSize \in Spsc!Slot
BY DEF Ring, Spsc!Slot

\* enqueue finds room when a slot besides the one for the element is free.
LEMMA RoomMeansRoom ==
  ASSUME Ring, Spsc!TypeOK
  PROVE  Spsc!HasRoom <=> SpscUsed < RingSize - 1
<1>1. rhead \in Spsc!Slot /\ rtail \in Spsc!Slot
  BY DEF Spsc!TypeOK
<1>2. (rtail - (rhead + 1)) % RingSize = IF rhead < rtail THEN rtail - rhead - 1 ELSE rtail - rhead - 1 + RingSize
  BY <1>1 DEF Ring, Spsc!Slot
<1> QED BY <1>1, <1>2, Distance DEF Ring, Spsc!HasRoom, SpscUsed, Spsc!Slot

-----------------------------------------------------------------------------
\* The inductive invariant.

\* A queue that has just been constructed.
LEMMA SpscInit == Ring /\ Spsc!Init => SpscInv
<1> SUFFICES ASSUME Ring, Spsc!Init PROVE SpscInv
  OBVIOUS
<1>1. 0 \in Spsc!Slot
  BY DEF Ring, Spsc!Slot
<1>2. PICK v \in Value : buffer = [s \in Spsc!Slot |-> v] /\ rarg = v /\ output = v
  BY DEF Spsc!Init
<1>3. buffer \in [Spsc!Slot -> Value] /\ rarg \in Value /\ output \in Value
  BY <1>2
<1>4. sem \in 0 .. SemMax
  BY DEF Ring, Spsc!Init
<1>5. Spsc!TypeOK
  BY ZenonT(30), <1>1, <1>3, <1>4 DEF Spsc!Init, Spsc!TypeOK, Spsc!Mode
<1> QED BY <1>5 DEF Spsc!Init, SpscInv

\* The steps that leave the ring alone, and the ends as far as they know them.
LEMMA WaitingIInv ==
  ASSUME Ring, SpscInv,
         (\E v \in Value : Spsc!Enqueue(v)) \/ Spsc!Wake \/ (\E m \in {"poll", "spin"} : Spsc!Dequeue(m))
           \/ Spsc!DequeueAwake \/ Spsc!FallAsleep \/ Spsc!SemTimedwait \/ Spsc!Woken \/ Spsc!ExitThreads
  PROVE  SpscInv'
<1>1. UNCHANGED Spsc!ring /\ Spsc!TypeOK
  BY DEF SpscInv, Spsc!Enqueue, Spsc!Wake, Spsc!Dequeue, Spsc!DequeueAwake, Spsc!FallAsleep, Spsc!SemTimedwait, Spsc!Woken, Spsc!ExitThreads
<1>2. Spsc!TypeOK'
  <2> USE <1>1 DEF Spsc!TypeOK, Spsc!Mode, Spsc!ring, Spsc!producer, Spsc!consumer
  <2>1. CASE (\E v \in Value : Spsc!Enqueue(v)) \/ (\E m \in {"poll", "spin"} : Spsc!Dequeue(m))
    BY <2>1 DEF Spsc!Enqueue, Spsc!Dequeue
  <2>2. CASE Spsc!Wake \/ Spsc!ExitThreads
    <3>1. sem' \in 0 .. SemMax
      BY <2>2 DEF Ring, Spsc!Wake, Spsc!ExitThreads, Spsc!sem_post
    <3> QED BY ZenonT(30), <2>2, <3>1 DEF Spsc!Wake, Spsc!ExitThreads
  <2>3. CASE Spsc!DequeueAwake \/ Spsc!FallAsleep \/ Spsc!Woken
    BY <2>3 DEF Spsc!DequeueAwake, Spsc!FallAsleep, Spsc!Woken
  <2>4. CASE Spsc!SemTimedwait
    BY <2>4 DEF Ring, Spsc!SemTimedwait
  <2> QED BY <2>1, <2>2, <2>3, <2>4
<1>3. /\ ppc' \in {"write", "publish"} => ppc' = ppc /\ rarg' = rarg
      /\ cpc' \in {"read", "advance"} => cpc' = cpc /\ output' = output
  BY DEF Spsc!producer, Spsc!consumer, Spsc!Enqueue, Spsc!Wake, Spsc!Dequeue, Spsc!DequeueAwake, Spsc!FallAsleep, Spsc!SemTimedwait,
     Spsc!Woken, Spsc!ExitThreads
<1> QED BY <1>1, <1>2, <1>3 DEF SpscInv, SpscUsed, Spsc!ring

\* The producer's steps on the ring.
LEMMA ProducerIInv ==
  ASSUME Ring, SpscInv, Spsc!EnqueueCheck \/ Spsc!EnqueueWrite \/ Spsc!EnqueuePublish
  PROVE  SpscInv'
<1>1. Spsc!TypeOK /\ rhead \in Spsc!Slot /\ rtail \in Spsc!Slot
  BY DEF SpscInv, Spsc!TypeOK
<1>2. CASE Spsc!EnqueueCheck
  BY <1>1, <1>2, RoomMeansRoom DEF Spsc!EnqueueCheck, SpscInv, Spsc!TypeOK, SpscUsed, Spsc!ring, Spsc!consumer
<1>3. CASE Spsc!EnqueueWrite
  <2>1. SpscUsed > 0 => rhead # rtail
    BY <1>1, Distance DEF Ring, SpscUsed, Spsc!Slot
  <2>2. Spsc!TypeOK'
    BY <1>3 DEF Spsc!EnqueueWrite, SpscInv, Spsc!TypeOK, Spsc!consumer
  <2>3. buffer'[rhead] = rarg /\ (rhead # rtail => buffer'[rtail] = buffer[rtail])
    BY <1>1, <1>3 DEF Spsc!EnqueueWrite, Spsc!TypeOK
  <2> QED BY <1>3, <2>1, <2>2, <2>3 DEF Spsc!EnqueueWrite, SpscInv, SpscUsed, Spsc!consumer
<1>4. CASE Spsc!EnqueuePublish
  <2>1. rhead' = (rhead + 1) % RingSize /\ rtail' = rtail /\ rhead' \in Spsc!Slot
    BY <1>1, <1>4, Successor DEF Spsc!EnqueuePublish
  <2>2. SpscUsed' = SpscUsed + 1
    <3>1. SpscUsed < RingSize - 1
      BY <1>4 DEF Spsc!EnqueuePublish, SpscInv
    <3>2. SpscUsed' = IF rtail <= rhead' THEN rhead' - rtail ELSE rhead' - rtail + RingSize
      BY <1>1, <2>1, Distance DEF SpscUsed
    <3>3. SpscUsed = IF rtail <= rhead THEN rhead - rtail ELSE rhead - rtail + RingSize
      BY <1>1, Distance DEF SpscUsed
    <3>4. rhead' = IF rhead + 1 = RingSize THEN 0 ELSE rhead + 1
      BY <1>1, <2>1, Successor
    <3> QED BY <1>1, <3>1, <3>2, <3>3, <3>4 DEF Ring, Spsc!Slot
  <2>3. Spsc!TypeOK'
    BY <1>4, <2>1 DEF Spsc!EnqueuePublish, SpscInv, Spsc!TypeOK, Spsc!consumer
  <2>4. SpscUsed \in Nat
    BY <1>1, Distance DEF Ring, SpscUsed, Spsc!Slot
  <2> QED BY <1>4, <2>1, <2>2, <2>3, <2>4 DEF Spsc!EnqueuePublish, SpscInv, Spsc!consumer
<1> QED BY <1>2, <1>3, <1>4

\* The consumer's.
LEMMA ConsumerIInv ==
  ASSUME Ring, SpscInv, Spsc!DequeueCheck \/ Spsc!DequeueRead \/ Spsc!DequeueAdvance
  PROVE  SpscInv'
<1>1. Spsc!TypeOK /\ rhead \in Spsc!Slot /\ rtail \in Spsc!Slot
  BY DEF SpscInv, Spsc!TypeOK
<1>2. CASE Spsc!DequeueCheck
  <2>1. SpscUsed \in Nat
    BY <1>1, Distance DEF Ring, SpscUsed, Spsc!Slot
  <2>2. Spsc!HasElement => SpscUsed > 0
    BY <2>1 DEF Spsc!HasElement, SpscUsed
  <2> QED BY <1>1, <1>2, <2>2 DEF Spsc!DequeueCheck, SpscInv, Spsc!TypeOK, Spsc!Mode, SpscUsed, Spsc!ring, Spsc!producer
<1>3. CASE Spsc!DequeueRead
  BY <1>1, <1>3 DEF Spsc!DequeueRead, SpscInv, Spsc!TypeOK, SpscUsed, Spsc!ring, Spsc!producer
<1>4. CASE Spsc!DequeueAdvance
  <2>1. rtail' = (rtail + 1) % RingSize /\ rhead' = rhead /\ rtail' \in Spsc!Slot
    BY <1>1, <1>4, Successor DEF Spsc!DequeueAdvance
  <2>2. SpscUsed' = SpscUsed - 1 /\ SpscUsed \in Nat
    <3>1. SpscUsed > 0
      BY <1>4 DEF Spsc!DequeueAdvance, SpscInv
    <3> QED BY <1>1, <2>1, <3>1, Distance, Successor DEF Ring, SpscUsed, Spsc!Slot
  <2>3. Spsc!TypeOK'
    BY <1>4, <2>1 DEF Spsc!DequeueAdvance, SpscInv, Spsc!TypeOK, Spsc!producer
  <2> QED BY <1>4, <2>1, <2>2, <2>3 DEF Ring, Spsc!DequeueAdvance, SpscInv, Spsc!producer
<1> QED BY <1>2, <1>3, <1>4

\* The invariant holds whatever the two threads and the one that calls
\* _exitthreads do.
THEOREM SpscInvariance == Ring => (Spsc!Spec => []SpscInv)
<1>1. Ring /\ SpscInv /\ [Spsc!Next]_(Spsc!vars) => SpscInv'
  <2> SUFFICES ASSUME Ring, SpscInv, [Spsc!Next]_(Spsc!vars) PROVE SpscInv'
    OBVIOUS
  <2>1. CASE UNCHANGED Spsc!vars
    BY <2>1 DEF Spsc!vars, Spsc!ring, Spsc!producer, Spsc!consumer, SpscInv, Spsc!TypeOK, SpscUsed
  <2>2. CASE Spsc!Next
    BY <2>2, WaitingIInv, ProducerIInv, ConsumerIInv DEF Spsc!Next, Spsc!ProducerStep, Spsc!ConsumerStep
  <2> QED BY <2>1, <2>2
<1>2. Ring => Ring'
  BY DEF Ring
<1> QED BY <1>1, <1>2, SpscInit, PTL DEF Spsc!Spec

\* The types of the ring and of its two threads; in particular _head and _tail
\* stay on the ring, and the semaphore within its limit.
THEOREM SpscTypeCorrect == Ring => (Spsc!Spec => []Spsc!TypeOK)
<1>1. SpscInv => Spsc!TypeOK
  BY DEF SpscInv
<1> QED BY <1>1, SpscInvariance, PTL

\* enqueue never writes the slot that dequeue reads, for any size of the ring.
THEOREM SpscNoDataRace == Ring => (Spsc!Spec => []Spsc!SlotExclusive)
<1>1. Ring /\ SpscInv => Spsc!SlotExclusive
  <2> SUFFICES ASSUME Ring, SpscInv, ppc = "write", cpc = "read" PROVE rhead # rtail
    BY DEF Spsc!SlotExclusive
  <2>1. SpscUsed > 0 /\ rhead \in Spsc!Slot
    BY DEF SpscInv, Spsc!TypeOK
  <2> QED BY <2>1, Distance DEF SpscUsed, Spsc!Slot
<1>2. Ring => Ring'
  BY DEF Ring
<1> QED BY <1>1, <1>2, SpscInvariance, PTL

-----------------------------------------------------------------------------
\* The ring is a queue.

\* The elements of ring b from slot f up to slot h.
Elements(f, h, b) == [i \in 1 .. (h - f) % RingSize |-> b[(f + i - 1) % RingSize]]

\* They are a sequence of values.
LEMMA ElementsType ==
  ASSUME Ring, NEW f \in Spsc!Slot, NEW h \in Spsc!Slot, NEW b \in [Spsc!Slot -> Value]
  PROVE  /\ (h - f) % RingSize \in 0 .. RingSize - 1
         /\ Elements(f, h, b) \in Seq(Value)
         /\ Len(Elements(f, h, b)) = (h - f) % RingSize
         /\ \A i \in 1 .. (h - f) % RingSize : Elements(f, h, b)[i] = b[(f + i - 1) % RingSize]
<1> DEFINE n == (h - f) % RingSize
<1>1. n \in 0 .. RingSize - 1
  BY Distance DEF Ring, Spsc!Slot
<1>2. \A i \in 1 .. n : b[(f + i - 1) % RingSize] \in Value
  BY <1>1, Onward DEF Ring
<1> HIDE DEF n
<1>3. [i \in 1 .. n |-> b[(f + i - 1) % RingSize]] \in Seq(Value)
  BY <1>1, <1>2, IsASeq
<1>4. Len([i \in 1 .. n |-> b[(f + i - 1) % RingSize]]) = n
  BY <1>1
<1> QED BY <1>1, <1>3, <1>4 DEF Elements, n

\* Publishing slot h puts its element at the end.
LEMMA ElementsAppend ==
  ASSUME Ring, NEW f \in Spsc!Slot, NEW h \in Spsc!Slot, NEW b \in [Spsc!Slot -> Value], (h - f) % RingSize < RingSize - 1
  PROVE  Elements(f, (h + 1) % RingSize, b) = Append(Elements(f, h, b), b[h])
<1> DEFINE n == (h - f) % RingSize
           g == (h + 1) % RingSize
           s == Elements(f, h, b)
           t == Elements(f, g, b)
<1>1. g \in Spsc!Slot /\ b[h] \in Value
  BY Successor
<1>2. g = IF h + 1 = RingSize THEN 0 ELSE h + 1
  BY Successor
<1>3. n = IF f <= h THEN h - f ELSE h - f + RingSize
  BY Distance
<1>4. (g - f) % RingSize = IF f <= g THEN g - f ELSE g - f + RingSize
  BY <1>1, Distance
<1>5. (g - f) % RingSize = n + 1 /\ n \in Nat
  <2> HIDE DEF g, n
  <2>1. n < RingSize - 1
    BY DEF n
  <2> QED BY <1>1, <1>2, <1>3, <1>4, <2>1 DEF Ring, Spsc!Slot
<1>6. (f + (n + 1) - 1) % RingSize = h
  <2> HIDE DEF n
  <2>1. n + 1 \in 1 .. RingSize
    BY <1>3, <1>5 DEF Ring, Spsc!Slot
  <2> QED BY <1>3, <2>1, Onward DEF Ring, Spsc!Slot
<1>7. /\ s \in Seq(Value) /\ Len(s) = n
      /\ \A i \in 1 .. n : s[i] = b[(f + i - 1) % RingSize]
  BY ElementsType
<1>8. /\ t \in Seq(Value) /\ Len(t) = n + 1
      /\ \A i \in 1 .. n + 1 : t[i] = b[(f + i - 1) % RingSize]
  BY ZenonT(30), <1>1, <1>5, ElementsType
<1> HIDE DEF n, g, s, t
<1>9. /\ Append(s, b[h]) \in Seq(Value) /\ Len(Append(s, b[h])) = n + 1
      /\ \A i \in 1 .. n : Append(s, b[h])[i] = s[i]
      /\ Append(s, b[h])[n + 1] = b[h]
  BY <1>1, <1>7, AppendProperties
<1>10. \A i \in 1 .. n + 1 : i \in 1 .. n \/ i = n + 1
  BY <1>5
<1>11. n + 1 \in 1 .. n + 1
  BY <1>5
<1>12. \A i \in 1 .. n + 1 : t[i] = Append(s, b[h])[i]
  BY <1>6, <1>7, <1>8, <1>9, <1>10, <1>11, Zenon
<1>13. t = Append(s, b[h])
  BY <1>8, <1>9, <1>12, SeqEqual
<1> QED BY <1>13 DEF s, t, g

\* Leaving slot f takes the oldest element away.
LEMMA ElementsTail ==
  ASSUME Ring, NEW f \in Spsc!Slot, NEW h \in Spsc!Slot, NEW b \in [Spsc!Slot -> Value], (h - f) % RingSize > 0
  PROVE  /\ Elements(f, h, b) # <<>>
         /\ Head(Elements(f, h, b)) = b[f]
         /\ Elements((f + 1) % RingSize, h, b) = Tail(Elements(f, h, b))
<1> DEFINE n == (h - f) % RingSize
           g == (f + 1) % RingSize
           s == Elements(f, h, b)
           t == Elements(g, h, b)
<1>1. g \in Spsc!Slot
  BY Successor
<1>2. g = IF f + 1 = RingSize THEN 0 ELSE f + 1
  BY Successor
<1>3. n = IF f <= h THEN h - f ELSE h - f + RingSize
  BY Distance
<1>4. (h - g) % RingSize = IF g <= h THEN h - g ELSE h - g + RingSize
  BY <1>1, Distance
<1>5. (h - g) % RingSize = n - 1 /\ n \in 1 .. RingSize - 1
  <2> HIDE DEF g, n
  <2>1. n > 0
    BY DEF n
  <2> QED BY <1>1, <1>2, <1>3, <1>4, <2>1 DEF Ring, Spsc!Slot
<1>6. ASSUME NEW i \in 1 .. n - 1
      PROVE  (g + i - 1) % RingSize = (f + (i + 1) - 1) % RingSize
  <2> HIDE DEF n, g
  <2>1. i \in 1 .. RingSize /\ i + 1 \in 1 .. RingSize
    BY <1>5 DEF Ring
  <2>2. (g + i - 1) % RingSize = IF g + i - 1 < RingSize THEN g + i - 1 ELSE g + i - 1 - RingSize
    BY <1>1, <2>1, Onward
  <2>3. (f + (i + 1) - 1) % RingSize
          = IF f + (i + 1) - 1 < RingSize THEN f + (i + 1) - 1 ELSE f + (i + 1) - 1 - RingSize
    BY <2>1, Onward
  <2> QED BY <1>2, <1>5, <2>2, <2>3 DEF Ring, Spsc!Slot
<1>7. /\ s \in Seq(Value) /\ Len(s) = n
      /\ \A i \in 1 .. n : s[i] = b[(f + i - 1) % RingSize]
  BY ElementsType
<1>8. /\ t \in Seq(Value) /\ Len(t) = n - 1
      /\ \A i \in 1 .. n - 1 : t[i] = b[(g + i - 1) % RingSize]
  <2> HIDE DEF n, g
  <2>1. /\ t \in Seq(Value) /\ Len(t) = (h - g) % RingSize
        /\ \A i \in 1 .. (h - g) % RingSize : t[i] = b[(g + i - 1) % RingSize]
    BY ZenonT(30), <1>1, ElementsType
  <2> QED BY <1>5, <2>1, Zenon
<1>9. (f + 1 - 1) % RingSize = f
  BY DEF Ring, Spsc!Slot
<1> HIDE DEF n, g, s, t
<1>10. s # <<>>
  BY <1>5, <1>7
<1>11. Head(s) = b[f]
  BY <1>5, <1>7, <1>9, <1>10
<1>12. /\ Tail(s) \in Seq(Value) /\ Len(Tail(s)) = n - 1
       /\ \A i \in 1 .. n - 1 : Tail(s)[i] = s[i + 1]
  BY <1>7, <1>10
<1>13. \A i \in 1 .. n - 1 : i + 1 \in 1 .. n
  BY <1>5
<1>14. \A i \in 1 .. n - 1 : t[i] = Tail(s)[i]
  BY <1>6, <1>7, <1>8, <1>12, <1>13, Zenon
<1>15. t = Tail(s)
  BY <1>8, <1>12, <1>14, SeqEqual
<1> QED BY <1>10, <1>11, <1>15 DEF s, t, g

\* Writing slot h, which is not one of theirs, leaves them alone.
LEMMA ElementsKept ==
  ASSUME Ring, NEW f \in Spsc!Slot, NEW h \in Spsc!Slot, NEW b \in [Spsc!Slot -> Value], NEW v \in Value
  PROVE  Elements(f, h, [b EXCEPT ![h] = v]) = Elements(f, h, b)
<1> DEFINE n == (h - f) % RingSize
<1>1. n = IF f <= h THEN h - f ELSE h - f + RingSize
  BY Distance
<1> HIDE DEF n
<1>2. ASSUME NEW i \in 1 .. n PROVE (f + i - 1) % RingSize # h /\ (f + i - 1) % RingSize \in Spsc!Slot
  <2>1. i \in 1 .. RingSize
    BY <1>1 DEF Ring, Spsc!Slot
  <2> QED BY <1>1, <2>1, Onward DEF Ring, Spsc!Slot
<1>3. \A i \in 1 .. n : [b EXCEPT ![h] = v][(f + i - 1) % RingSize] = b[(f + i - 1) % RingSize]
  BY <1>2
<1> QED BY <1>3 DEF Elements, n

\* The first slot of the queue: the consumer has taken the element of _tail
\* once it has read it.
First == IF cpc = "advance" THEN (rtail + 1) % RingSize ELSE rtail

\* The queue is what the ring holds from there.
LEMMA QueuedElements ==
  ASSUME Ring, SpscInv
  PROVE  /\ Spsc!Queued = Elements(First, rhead, buffer)
         /\ First \in Spsc!Slot /\ rhead \in Spsc!Slot /\ buffer \in [Spsc!Slot -> Value]
<1>1. First \in Spsc!Slot
  BY Successor DEF SpscInv, Spsc!TypeOK, First
<1> QED BY <1>1 DEF Spsc!Queued, Elements, First, SpscInv, Spsc!TypeOK

\* It is no longer than what the ring uses.
LEMMA FirstInUse ==
  ASSUME Ring, SpscInv
  PROVE  (rhead - First) % RingSize <= SpscUsed /\ SpscUsed \in Nat
<1>1. rhead \in Spsc!Slot /\ rtail \in Spsc!Slot /\ First \in Spsc!Slot
  BY QueuedElements DEF SpscInv, Spsc!TypeOK
<1>2. SpscUsed = IF rtail <= rhead THEN rhead - rtail ELSE rhead - rtail + RingSize
  BY <1>1, Distance DEF SpscUsed
<1>3. (rhead - First) % RingSize = IF First <= rhead THEN rhead - First ELSE rhead - First + RingSize
  BY <1>1, Distance
<1>4. SpscUsed \in Nat
  BY <1>1, <1>2 DEF Ring, Spsc!Slot
<1>5. CASE cpc = "advance"
  <2>1. SpscUsed > 0
    BY <1>5 DEF SpscInv
  <2>2. First = IF rtail + 1 = RingSize THEN 0 ELSE rtail + 1
    BY <1>1, <1>5, Successor DEF First
  <2> QED BY <1>1, <1>2, <1>3, <1>4, <2>1, <2>2 DEF Ring, Spsc!Slot
<1>6. CASE cpc # "advance"
  BY <1>4, <1>6 DEF First, SpscUsed
<1> QED BY <1>5, <1>6

\* Storing _head appends the element to the queue, which has room for it.
LEMMA EnqueuePublishFifo ==
  ASSUME Ring, SpscInv, Spsc!EnqueuePublish
  PROVE  Spsc!Fifo!Enqueue(rarg)
<1>1. /\ Spsc!Queued = Elements(First, rhead, buffer)
      /\ First \in Spsc!Slot /\ rhead \in Spsc!Slot /\ buffer \in [Spsc!Slot -> Value]
  BY QueuedElements
<1>2. (rhead - First) % RingSize < RingSize - 1
  <2>1. SpscUsed < RingSize - 1
    BY DEF SpscInv, Spsc!EnqueuePublish
  <2>2. (rhead - First) % RingSize \in Nat
    BY <1>1, ElementsType
  <2> QED BY <2>1, <2>2, FirstInUse DEF Ring
<1>3. Spsc!Queued' = Append(Spsc!Queued, rarg)
  <2>1. Spsc!Queued' = Elements(First, (rhead + 1) % RingSize, buffer)
    BY DEF Spsc!EnqueuePublish, Spsc!Queued, Elements, First, Spsc!consumer
  <2>2. buffer[rhead] = rarg
    BY DEF SpscInv, Spsc!EnqueuePublish
  <2> QED BY <1>1, <1>2, <2>1, <2>2, ElementsAppend
<1>4. Len(Spsc!Queued) < RingSize - 1
  BY <1>1, <1>2, ElementsType
<1>5. output' = output
  BY DEF Spsc!EnqueuePublish, Spsc!consumer
<1> QED BY <1>3, <1>4, <1>5 DEF Spsc!Fifo!Enqueue

\* Reading the slot of _tail takes the oldest element out.
LEMMA DequeueReadFifo ==
  ASSUME Ring, SpscInv, Spsc!DequeueRead
  PROVE  Spsc!Fifo!Dequeue("consumer")
<1>1. /\ Spsc!Queued = Elements(rtail, rhead, buffer)
      /\ rtail \in Spsc!Slot /\ rhead \in Spsc!Slot /\ buffer \in [Spsc!Slot -> Value]
  BY QueuedElements DEF Spsc!DequeueRead, First
<1>2. (rhead - rtail) % RingSize > 0
  BY DEF SpscInv, Spsc!DequeueRead, SpscUsed
<1>3. Spsc!Queued # <<>> /\ Head(Spsc!Queued) = buffer[rtail]
  BY <1>1, <1>2, ElementsTail
<1>4. Spsc!Queued' = Elements((rtail + 1) % RingSize, rhead, buffer)
  BY DEF Spsc!DequeueRead, Spsc!Queued, Elements, Spsc!ring
<1>5. Spsc!Queued' = Tail(Spsc!Queued)
  BY <1>1, <1>2, <1>4, ElementsTail
<1>6. output' = Head(Spsc!Queued)
  BY <1>3 DEF Spsc!DequeueRead
<1> QED BY <1>3, <1>5, <1>6 DEF Spsc!Fifo!Dequeue

\* The other steps are not seen by the callers.
LEMMA SpscQuietFifo ==
  ASSUME Ring, SpscInv, Spsc!Next, ~Spsc!EnqueuePublish, ~Spsc!DequeueRead
  PROVE  Spsc!Queued' = Spsc!Queued /\ output' = output
<1>1. /\ Spsc!Queued = Elements(First, rhead, buffer)
      /\ First \in Spsc!Slot /\ rhead \in Spsc!Slot /\ buffer \in [Spsc!Slot -> Value] /\ rarg \in Value
  BY QueuedElements DEF SpscInv, Spsc!TypeOK
<1>2. CASE Spsc!EnqueueWrite
  <2>1. Spsc!Queued' = Elements(First, rhead, [buffer EXCEPT ![rhead] = rarg])
    BY <1>2 DEF Spsc!EnqueueWrite, Spsc!Queued, Elements, First, Spsc!consumer
  <2> QED BY ZenonT(30), <1>1, <1>2, <2>1, ElementsKept DEF Spsc!EnqueueWrite, Spsc!consumer
<1>3. CASE Spsc!DequeueAdvance
  BY <1>3 DEF Spsc!DequeueAdvance, Spsc!Queued
<1>4. CASE (\E v \in Value : Spsc!Enqueue(v)) \/ Spsc!Wake \/ Spsc!EnqueueCheck \/ Spsc!ExitThreads
  BY <1>4 DEF Spsc!Enqueue, Spsc!Wake, Spsc!EnqueueCheck, Spsc!ExitThreads, Spsc!Queued, Spsc!ring, Spsc!consumer
<1>5. CASE (\E m \in {"poll", "spin"} : Spsc!Dequeue(m)) \/ Spsc!DequeueCheck \/ Spsc!DequeueAwake \/ Spsc!FallAsleep
             \/ Spsc!SemTimedwait \/ Spsc!Woken
  BY <1>5 DEF Spsc!Dequeue, Spsc!DequeueCheck, Spsc!DequeueAwake, Spsc!FallAsleep, Spsc!SemTimedwait, Spsc!Woken, Spsc!Queued, Spsc!ring
<1> QED BY <1>2, <1>3, <1>4, <1>5 DEF Spsc!Next, Spsc!ProducerStep, Spsc!ConsumerStep

\* The ring implements a first-in-first-out queue for one element less than its
\* size: an enqueue takes effect when it stores _head, a dequeue when it reads
\* the slot of _tail, however the two threads, their sleeping and their waking
\* interleave.
THEOREM SpscRefinement == Ring => (Spsc!Spec => Spsc!ImplementsFifo)
<1>1. Ring /\ Spsc!Init => Spsc!Fifo!Init
  <2> SUFFICES ASSUME Ring, Spsc!Init PROVE Spsc!Fifo!Init
    OBVIOUS
  <2>1. output \in Value /\ Spsc!Queued = Elements(First, rhead, buffer)
        /\ First \in Spsc!Slot /\ rhead \in Spsc!Slot /\ buffer \in [Spsc!Slot -> Value]
    BY SpscInit, QueuedElements DEF SpscInv, Spsc!TypeOK
  <2>2. (rhead - First) % RingSize = 0
    BY DEF Ring, Spsc!Init, First
  <2>3. Spsc!Queued = <<>>
    BY <2>1, <2>2, ElementsType
  <2> QED BY ZenonT(30), <2>1, <2>3 DEF Spsc!Fifo!Init
<1>2. Ring /\ SpscInv /\ [Spsc!Next]_(Spsc!vars)
        => [Spsc!Fifo!Next]_<<Spsc!Queued, [c \in {"consumer"} |-> output]>>
  <2> SUFFICES ASSUME Ring, SpscInv, [Spsc!Next]_(Spsc!vars)
               PROVE  [Spsc!Fifo!Next]_<<Spsc!Queued, [c \in {"consumer"} |-> output]>>
    OBVIOUS
  <2>1. CASE UNCHANGED Spsc!vars
    BY <2>1 DEF Spsc!vars, Spsc!ring, Spsc!consumer, Spsc!Queued
  <2>2. CASE Spsc!EnqueuePublish
    BY <2>2, EnqueuePublishFifo DEF Spsc!Fifo!Next, SpscInv, Spsc!TypeOK
  <2>3. CASE Spsc!DequeueRead
    BY <2>3, DequeueReadFifo DEF Spsc!Fifo!Next
  <2>4. CASE Spsc!Next /\ ~Spsc!EnqueuePublish /\ ~Spsc!DequeueRead
    BY <2>4, SpscQuietFifo
  <2> QED BY <2>1, <2>2, <2>3, <2>4
<1>3. Ring => Ring'
  BY DEF Ring
<1> QED BY <1>1, <1>2, <1>3, SpscInvariance, PTL DEF Spsc!Spec, Spsc!ImplementsFifo, Spsc!Fifo!Spec
=============================================================================
