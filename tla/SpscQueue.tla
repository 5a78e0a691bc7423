----------------------------- MODULE SpscQueue -----------------------------
(***************************************************************************)
(* Common::Spsc_bounded_lfq and Common::Spsc_bounded_lfq_sleeping          *)
(* (lib/common/include/common/spsc_bounded_queue.h): a ring buffer between *)
(* one producer and one consumer, and a consumer that sleeps on a          *)
(* semaphore when the ring stays empty.                                    *)
(*                                                                         *)
(* One action per load or store of a shared variable.  _head and _tail are *)
(* used only modulo the size of the ring, of which their range is a        *)
(* multiple: they are kept modulo it.                                      *)
(***************************************************************************)
EXTENDS Integers, Sequences

CONSTANTS Value,
          Size,    \* QSIZE
          SemMax   \* SEM_VALUE_MAX: sem_post fails beyond it

ASSUME SpscAssumption ==
  /\ Value # {}
  /\ Size \in Nat \ {0}
  /\ SemMax \in Nat \ {0}

VARIABLES head, tail, buffer,  \* the ring
          state,               \* _consumer_state
          sem, exit,           \* _sem and _exit
          ppc, arg,            \* the producer, and the element it brings
          cpc, output,         \* the consumer, and the element it got
          mode                 \* how it waits

ring == <<head, tail, buffer>>
producer == <<ppc, arg>>
consumer == <<cpc, output, mode>>
vars == <<ring, state, sem, exit, producer, consumer>>

Slot == 0 .. Size - 1

\* dequeue tries once ("poll"); dequeue_sleeping retries ("spin") until retries
\* has reached RETRY_THRESHOLD ("tired").
Mode == {"poll", "spin", "tired"}

\* The type of each variable of the queue and of its two threads.
TypeOK ==
  /\ head \in Slot /\ tail \in Slot /\ buffer \in [Slot -> Value]
  /\ state \in {"SLEEPING", "AWAKE"}
  /\ sem \in 0 .. SemMax /\ exit \in BOOLEAN
  /\ ppc \in {"idle", "post", "check", "write", "publish"} /\ arg \in Value
  /\ cpc \in {"idle", "check", "read", "advance", "awake", "sleep", "wait", "woken"}
  /\ output \in Value /\ mode \in Mode

\* The constructor clears the buffer; what it clears to does not matter.
Init ==
  /\ head = 0 /\ tail = 0
  /\ \E v \in Value : /\ buffer = [s \in Slot |-> v]
                      /\ arg = v
                      /\ output = v
  /\ state = "AWAKE" /\ sem = 0 /\ exit = FALSE
  /\ ppc = "idle" /\ cpc = "idle" /\ mode = "spin"

-----------------------------------------------------------------------------
\* The producer: Spsc_bounded_lfq_sleeping::enqueue.

sem_post == sem' = IF sem < SemMax THEN sem + 1 ELSE sem

\* It looks whether the consumer sleeps before it puts the element in.
Enqueue(v) ==
  /\ ppc = "idle"
  /\ ppc' = IF state = "SLEEPING" THEN "post" ELSE "check"
  /\ arg' = v
  /\ UNCHANGED <<ring, state, sem, exit, consumer>>

Wake ==
  /\ ppc = "post"
  /\ sem_post
  /\ ppc' = "check"
  /\ UNCHANGED <<ring, state, exit, arg, consumer>>

\* Mutant: the consumer's _tail is not looked at.
HasRoomUnchecked == Size > 1

\* One slot stays free: a full ring would look like an empty one.
HasRoom == (tail - (head + 1)) % Size >= 1

EnqueueCheck ==
  /\ ppc = "check"
  /\ ppc' = IF HasRoom THEN "write" ELSE "idle"
  /\ UNCHANGED <<ring, state, sem, exit, arg, consumer>>

EnqueueWrite ==
  /\ ppc = "write"
  /\ buffer' = [buffer EXCEPT ![head] = arg]
  /\ ppc' = "publish"
  /\ UNCHANGED <<head, tail, state, sem, exit, arg, consumer>>

EnqueuePublish ==
  /\ ppc = "publish"
  /\ head' = (head + 1) % Size
  /\ ppc' = "idle"
  /\ UNCHANGED <<tail, buffer, state, sem, exit, arg, consumer>>

-----------------------------------------------------------------------------
\* The consumer: dequeue and dequeue_sleeping.

Dequeue(m) ==
  /\ cpc = "idle"
  /\ cpc' = "check"
  /\ mode' = m
  /\ UNCHANGED <<ring, state, sem, exit, producer, output>>

HasElement == (head - tail) % Size >= 1

\* The last dequeue that fails before the consumer is tired is any of them;
\* once it is tired every failure sends it to sleep.
DequeueCheck ==
  /\ cpc = "check"
  /\ \/ HasElement /\ cpc' = "read" /\ UNCHANGED mode
     \/ ~HasElement /\ mode = "poll" /\ cpc' = "idle" /\ UNCHANGED mode
     \/ ~HasElement /\ mode = "spin" /\ UNCHANGED <<cpc, mode>>
     \/ ~HasElement /\ mode # "poll" /\ cpc' = "sleep" /\ mode' = "tired"
  /\ UNCHANGED <<ring, state, sem, exit, producer, output>>

\* Mutant: _tail is taken for the last slot read.
DequeueReadNext ==
  /\ cpc = "read"
  /\ output' = buffer[(tail + 1) % Size]
  /\ cpc' = "advance"
  /\ UNCHANGED <<ring, state, sem, exit, producer, mode>>

DequeueRead ==
  /\ cpc = "read"
  /\ output' = buffer[tail]
  /\ cpc' = "advance"
  /\ UNCHANGED <<ring, state, sem, exit, producer, mode>>

DequeueAdvance ==
  /\ cpc = "advance"
  /\ tail' = (tail + 1) % Size
  /\ cpc' = "awake"
  /\ UNCHANGED <<head, buffer, state, sem, exit, producer, output, mode>>

DequeueAwake ==
  /\ cpc = "awake"
  /\ state' = IF mode = "poll" THEN state ELSE "AWAKE"
  /\ cpc' = "idle"
  /\ UNCHANGED <<ring, sem, exit, producer, output, mode>>

FallAsleep ==
  /\ cpc = "sleep"
  /\ state' = "SLEEPING"
  /\ cpc' = "wait"
  /\ UNCHANGED <<ring, sem, exit, producer, output, mode>>

\* Mutant: sem_wait, without a timeout.
SemWait ==
  /\ cpc = "wait"
  /\ sem > 0
  /\ sem' = sem - 1
  /\ cpc' = "woken"
  /\ UNCHANGED <<ring, state, exit, producer, output, mode>>

\* Mutant: a timeout takes from the semaphore as well.
SemTimedwaitTakes ==
  /\ cpc = "wait"
  /\ sem' = sem - 1
  /\ cpc' = "woken"
  /\ UNCHANGED <<ring, state, exit, producer, output, mode>>

\* sem_timedwait takes the semaphore or times out.  (The realtime clock can
\* always be read: dequeue_sleeping asserts that clock_gettime succeeds.)
SemTimedwait ==
  /\ cpc = "wait"
  /\ sem' = IF sem > 0 THEN sem - 1 ELSE sem
  /\ cpc' = "woken"
  /\ UNCHANGED <<ring, state, exit, producer, output, mode>>

\* Mutant: the exit flag is not looked at.
WokenIgnoresExit ==
  /\ cpc = "woken"
  /\ cpc' = "check"
  /\ UNCHANGED <<ring, state, sem, exit, producer, output, mode>>

\* dequeue_sleeping returns false if it was woken to exit.
Woken ==
  /\ cpc = "woken"
  /\ cpc' = IF exit THEN "idle" ELSE "check"
  /\ UNCHANGED <<ring, state, sem, exit, producer, output, mode>>

\* _exitthreads, called by a third thread.
ExitThreads ==
  /\ ~exit
  /\ exit' = TRUE
  /\ sem_post
  /\ UNCHANGED <<ring, state, producer, consumer>>

-----------------------------------------------------------------------------
ProducerStep == Wake \/ EnqueueCheck \/ EnqueueWrite \/ EnqueuePublish

ConsumerStep ==
  \/ DequeueCheck \/ DequeueRead \/ DequeueAdvance \/ DequeueAwake
  \/ FallAsleep \/ SemTimedwait \/ Woken

Next ==
  \/ \E v \in Value : Enqueue(v)
  \/ ProducerStep
  \/ \E m \in {"poll", "spin"} : Dequeue(m)
  \/ ConsumerStep
  \/ ExitThreads

Spec == Init /\ [][Next]_vars

\* Both threads run; nobody has to call enqueue, dequeue_sleeping or
\* _exitthreads.
Fairness == WF_vars(ProducerStep) /\ WF_vars(ConsumerStep)

LiveSpec == Spec /\ Fairness

-----------------------------------------------------------------------------
\* The producer never writes the slot that the consumer reads.
SlotExclusive == ppc = "write" /\ cpc = "read" => head # tail

\* The slots of the elements that are in, the oldest first: an element goes in
\* when _head passes it and is out once the consumer has read it.
Queued ==
  LET first == IF cpc = "advance" THEN (tail + 1) % Size ELSE tail
  IN [i \in 1 .. (head - first) % Size |-> buffer[(first + i - 1) % Size]]

Fifo == INSTANCE BoundedFifo
          WITH Thread <- {"consumer"}, Capacity <- Size - 1, queue <- Queued,
               out <- [c \in {"consumer"} |-> output]

\* Spsc_bounded_lfq is a queue, first in first out, for one element less than
\* its size.
ImplementsFifo == Fifo!Spec

\* "When the queue is empty, calling threads sleeps until an item is
\* available": whatever the order of the consumer's falling asleep and the
\* producer's looking whether it sleeps, an element that is in the queue while
\* the consumer is in a dequeue is returned, unless it is told to exit.
ElementWakes ==
  Queued # <<>> /\ cpc # "idle" ~> cpc \in {"advance", "awake"} \/ exit

\* Told to exit, the consumer returns.
ExitReturns == exit /\ cpc # "idle" ~> cpc = "idle"

=============================================================================
