# A TLA+ development for Comanche

Comanche is a framework of storage components: key-value stores on persistent
memory and on NVMe devices, block devices, allocators, pagers and partitions,
a key-value server (dawn) with its client, and the libraries below them. This
directory holds TLA+ models of the parts whose correctness rests on orders of
stores and of threads, TLC runs that check them on small instances, and proofs
that TLAPS checks for every value of the constants. `PROJECT.json` has, for
every definition, the lines of code it models, and for every run, hazard,
finding and theorem, a sentence on what it is about.

## The parts of the system

| part | source (under `src/src/`) | here |
|---|---|---|
| hstore: hash table in persistent memory | `components/store/hstore/src/hop_hash.*`, `owner.*`, `content.*`, `persist_controller.*`, `persist_map.*`, `value_unstable.h` | `HopTable`, `HopHash` |
| hstore: redo log and values | `atomic_controller.*`, `persist_atomic.h`, `persist_fixed_string.h`, `hstore_session.h` | `AtomicController` |
| hstore: client locks | `hstore.cpp`, `hstore_session.h`, `hop_hash.tcc`, `dummy_shared_mutex.h` | `HopLocks` |
| common: lock-free queue | `lib/common/include/common/mpmc_bounded_queue.h` | `MpmcQueue` |
| common: single-producer queue, sleeping consumer | `lib/common/include/common/spsc_bounded_queue.h` | `SpscQueue` |
| common: ticket lock | `lib/common/include/common/spinlocks.h` | `TicketLock` |
| dawn: shard, connections and clients | `servers/dawn/src/`, `components/client/dawn/src/` | `DawnShard` |
| mapstore | `components/store/mapstore/src/map_store.cpp`, `lib/common/include/common/rwlock.h` | `MapStore` |
| everything else | see `components` in `PROJECT.json` | not modelled, see below |

A pool of hstore is one hash table. `put` of a new key and `erase` go to the
table (`HopHash`); `put` over an existing key and `atomic_update` go to the redo
log (`AtomicController`), which uses the table's `find` and takes inserting and
erasing as single durable steps. That they are is what `HopHash` shows. Clients
`lock` elements through the content mutexes that the table's own operations
take; `HopLocks` puts the two together. The queue of `MpmcQueue` is the base of
the user-level IPC channels and of the NVMe device's request queues. It, the
single-producer queue and the spin locks are independent of the store. A dawn
shard serves a store to clients over the network; `DawnShard` composes the
shard, its clients and `MapStore`, one of the stores it can serve.

## Modules

**Persistent memory.** In both hstore models every location exists twice: as
the processor sees it, and as memory holds it (the `p`- variables). A store
changes the first, `persist()` copies it to the second, the cache may write a
dirty line back at any moment (`Writeback`, `Evict`), and a power failure
(`Crash`) keeps only the second. A cache line is the unit of write-back; a
store of more than eight bytes can be cut in two.

- `HopTable`: geometry of the table, pure functions. Segments double: segment 0
  has `BaseSize` buckets, segment s has `BaseSize * 2^(s-1)`. An owner is a set of
  positions (`OwnerSize`, 64 in the code) after a bucket, where elements whose
  home it is are.
- `HopHash`: `emplace` (search, hops of `make_space_for_insert`, content, owner,
  counter), `erase`, `resize` with its two passes, and the constructor in
  reconstitute mode. `pc` names the point that the one operation in progress
  has reached; an action that follows a `persist()` begins with that flush and
  ends with the next stores.
- `DurableMap`: what the table promises; `HopHash` implements it
  (`ImplementsDurableMap`).
- `HopHashInv`: the inductive invariant. `MCHopHash`: instances.
- `AtomicController`: `enter_replace`, `enter_update`, the redo of each,
  assignment of values with their reference counts, and recovery. An inline
  value goes over an allocated one by two stores, in the table (`RedoReplace`,
  `AssignRest`) and in `mod_mapped` (`EnterMapped`, `EnterRest`); between them the
  location holds `Torn`, a pointer that is none, and opening a pool that a
  crash has left so fails (`Reconstitute`). `MCAtomicController`: the instance.
- `HopLocks`: the same table without crashes, with a mutex per bucket and the
  locks clients hold. `lock`, `unlock`, `put`, `atomic_update` and `erase` are
  requests; a step is an iteration of a loop of `emplace` (a hop, a doubling) or
  a whole operation. `Locking` is the set of mutexes a step is about to take
  with `lock()`; `dummy::shared_mutex` asserts that they are free and takes
  them in any case, so a step that meets a client's lock aborts (`Asserting`)
  or overwrites it. `atomic_update` takes a lock of its own only when it is
  asked to (`take_lock`). `MCHopLocks`: the instance.
- `BoundedFifo`: a bounded queue as its callers see it. `MpmcQueue`:
  `Mpmc_bounded_lfq`, one action per load, store or compare-exchange of a
  shared variable. `MpmcQueueInv`: properties, inductive invariant and the
  refinement mapping. `MCMpmcQueue`: the instance.
- `SpscQueue`: `Spsc_bounded_lfq` and its sleeping form, one action per load or
  store of a shared variable; it implements `BoundedFifo` too. The number of
  retries before the consumer sleeps is left open.
- `TicketLock`: one action per atomic operation; `s.ticket++` is a load and a
  store. `lockable()`, which nothing calls, is left out: it reads the counters by
  two loads, so what it says may never have been so.
- `MapStore`: the operations of a pool of mapstore as operators on its state:
  values with their addresses, the pool's one reader-writer lock and the open
  sessions. What `pthread_rwlock` answers to a thread that has the lock already
  (`EDEADLK`, or waiting for itself) is part of it, and so is that a `put` over a
  value of another length leaves the length that was recorded.
- `DawnShard`: the shard's one thread and its clients. `handler` is the set of
  connection handlers with the state machine of `tick()`; `toServer` and
  `toClient` are the two directions of a connection, in which messages and bare
  values follow each other; `locked`, `tasks`, `index` and `closing` are the
  shard's `_locked_values`, `_tasks`, `_index_map` and `pending_close`. What the
  shard does for a connection in one pass of `main_loop` is a tick (`Tick...`),
  the deferred release of a value (`release_locked_value`) and a request
  (`Create` to `Crc32`), in this order and with clients running in between.
  `Info` stands for all requests that get nothing but an answer: with "info" a
  good one, as a put or get marked `MSG_RESVD_SCBE` gets, with "ado" a bad one, as
  a `CONFIGURE` that is not known gets. `run` says whether the thread still runs:
  an exception that nothing catches, a failed assertion of the store (`ended`),
  and a lock that nobody will give back (`waiting`) stop it. `MCDawnShard`: the
  instances.
- `Counting`: what the models with cardinalities assume of their sets.
- `HopStepProofs`, `HopDoubleProofs`, `HopHashProofs` (table), `AtomicStepProofs`,
  `AtomicControllerProofs` (redo log), `CommonProofs` (queues and ticket lock),
  `DawnConnectionProofs`, `DawnShardProofs` (shard): proofs.

Definitions keep the code's names where they model a function of it. A
definition under a comment that begins with "Mutant" is not part of any
specification: it is the form a plausible mistake would give the definition after it, and
`PROJECT.json` says which property notices.

## Runs

| run | instance | shows |
|---|---|---|
| `hop_narrow` | 5 keys, owners of 2 positions, 4 buckets that may double once | at every crash point the table and its image in memory are sound; the table is a durable map; emplace ends, and recovery once crashes stop |
| `hop_heap` | as `hop_narrow` | *violation*: recovery forgets the data of an element caught in the middle of a hop |
| `atomic` | 2 keys, 2 allocations, inline and allocated values, 1 or 2 WRITEs | reference counts, durability and atomicity of updates; what can keep a pool from being opened |
| `atomic_transaction` | the same | *violation*: `mod_key`/`mod_mapped` are never flushed, so an update can be left half done |
| `atomic_assign` | the same | *violation*: a crash inside the assignment of a value leaves one that recovery cannot read |
| `locks` | 5 keys, 4 buckets that may double once, 2 locks held at a time, assertions kept | client locks exclude each other, stay with their elements, keep updates off and are given back, as long as no assertion fails |
| `mpmc` | 3 threads, 2 values, 2 nodes, 3 tickets | no data race, first in first out, no `enqueue` given up without need |
| `spsc` | 2 values, 4 slots, a semaphore that counts to 2 | no data race, first in first out, no wake-up missed for good |
| `ticket` | 3 threads, counters of 3 values | mutual exclusion and fairness with counters that wrap; `trylock` passes nobody who waits |
| `dawn` | 2 clients with 3 and 2 requests of 17 kinds, 1 key, 2 addresses, 4 lengths, 3 buffers | one answer per call; messages and values meet the right buffers; transfers counted; sessions, references and handles in step |
| `dawn_live` | 2 clients with 3 and 1 requests of 6 kinds | a call ends unless its client is lost or the shard stops |
| `dawn_lock` | 2 clients, 8 buffers | *violation*: a get of one client, refused for want of space, gives back the lock under which another's value travels |

Two more configurations are kept that the runs do not repeat. `HopHashWide.cfg`
(module `MCHopHash`) has owners of 4 positions and 8 buckets that may double
once, where the choice among donors and the wrap of their positions matter: TLC
finds that `HopHash` implements `DurableMap` there as well. `MpmcQueueFull.cfg`
(module `MCMpmcQueue`) refutes `FullMeansFull`, see below.

Bounds. Five keys on four buckets are enough for an insertion that finds no
free bucket near (a hop), one that finds none at all (a doubling, then a full
table), and a position that wraps; crashes are not bounded, and a crash may
interrupt a recovery. Two allocations are one for the value in the table and
one for the value on its way in; a third key or block only repeats this. The
two locks of `locks` are the fewest with which read locks add up or a write lock
meets another; a failed assertion ends the process, so that run may stop. The
three tickets of `mpmc` (`MaxTicket`) use one node for two rounds; three threads
are needed to have a producer overtaken while a consumer reads. Counters of
three values (`Modulus`) wrap with three threads, the tightest case the lock
allows. Four slots let the ring wrap with up to three elements in it; `SemMax`
stands for `SEM_VALUE_MAX`, beyond which `sem_post` fails. In `dawn` three
requests of a client (`MaxRequest`) are a pool, a value and a transfer, or two
references and a close, against any two of the other client; in `dawn_live` the
other client makes one, and may be lost, because a transfer never waits for
another: what it would wait for stops the shard, which ends every call. Two
addresses are one in use and one to move to, so a freed address can be given
out again. Three buffers (`BufferCount`, eight in the code) are two above what
a handler holds while it waits, so both having a buffer and running out happen.
The four lengths are those the code tells apart: injected, copied, in the
packet of the response, and following it. A shard that has stopped, and clients
that are done, may stay so: deadlock is not checked in the dawn runs.

Fairness. `hop_narrow` assumes weak fairness of `Step`, the steps of the operation
in progress: there is one thread per pool, it never blocks, and it is
scheduled. Write-backs and crashes are never forced. `RecoveryEnds` is stated
for behaviours in which crashes stop. `ticket` assumes that threads run and that
the holder of the lock gives it back; nobody has to ask for it. `spsc` assumes
that both threads run, and that `sem_timedwait` returns, which its timeout
guarantees; nobody has to call `enqueue` or `dequeue_sleeping`. `ElementWakes`
rests on that timeout: the producer looks whether the consumer sleeps before it
publishes the element, and the wake-up can be missed. `dawn_live` assumes that
the shard's thread, which polls and never sleeps while it has handlers, comes
to every connection, and that a client inside a call goes on with it; nobody
has to call, and a client may be lost at any time.

## Proofs

All theorems hold for every value of the constants that satisfies the named
assumptions, which are those of the code: `OwnerSize`, `BaseSize` and
`SegmentCapacity` are positive and the first table is a multiple of an owner,
and larger (`HopTable`); a value can be stored inline (`AtomicController`);
`Size > 1` and there is a value (`MpmcQueue`); there are no
more threads than values of the counters (`TicketLock`); a connection has at
least two buffers, a `PUT_ADVANCE` has one of the lengths of a value, and there are
more addresses than keys (`DawnShard`, `MapStore`). Keys and threads that are counted
are `Countable`, which says what cardinality does when an element is added;
`FiniteCountable` proves it of every finite set. `CommonProofs` takes `SpscQueue` and
`TicketLock` as instances, so what these assume of their constants is a
hypothesis of the theorems there (`Ring`, `Tickets`).

*Hash table* (`HopHashProofs`). `Spec => []IInv`, and from it type correctness,
`OwnersDisjoint`, `OwnedContentComplete`, `StatesInService` and
`RecoveryReadsWholeData`. None of these is inductive. `IInv` says for each point of each operation which lines may
differ from memory and by what (`Same`, `SameOwner`, `SameContent`), that
owners lead to elements whose home they are (`HomeOK`, `UniqueOK`), and that
the content states follow the owners except at the bucket being
changed (`StatesOK`). During a doubling the two buckets of a pair are taken
together (`PairKey`, `PairPlace`): the element of a pair never changes until
the doubling ends, whatever subset of the second pass has reached memory, which
is why the pass can be run again from the first bucket. The argument needs two
facts about remainders: an index modulo 2m is the index modulo m or m more
(`bucket_expanded_ix`), and positions around the end of the table are unique.
`HopStepProofs` has the facts on positions, owners and states and the steps of
hops, insertions and erasures, `HopDoubleProofs` the steps of a doubling.

*Redo log* (`AtomicStepProofs`, `AtomicControllerProofs`). `Spec => []IInv`, and
from it type correctness, `RefCounts`, `BlocksApart`, `ReturnedIsDurable`,
`AllOrNothing` and `PoolOpens`. `IInv` says by the point the call has reached
what the processor's view and memory may differ in (`Clean`), which allocations
are still needed although the table no longer points to them (`Kept`), that
counts are numbers of references (`RefCounts`), and, while `lost` is false, what
opening the pool would make of memory as it is now: the contents before the
call, or those after it (`Recoverable` in `Sound`). That last part is what makes
`AllOrNothing` inductive: a redo may be cut off anywhere, also in a redo after
an earlier crash, and each of its stores keeps the outcome of beginning again.
`lost` is set by a crash that finds `mod_size` in memory and not the key or value
it belongs to, and by nothing else; the code does not exclude it (run
`atomic_transaction`). A crash inside the assignment of a value is not among the
conditions of `AllOrNothing`: it leaves a pool that cannot be opened at all (run
`atomic_assign`), so that no call sees it. `PoolOpens` says that these two are
the only ways to such a pool: a redo never misses its key otherwise.

*Queue* (`CommonProofs`). `Spec => []IInv`: the tickets from `_tail_seq` to
`_tail_seq + Size - 1` are one round, with a node each; a node of a ticket below
`_head_seq` is being written or holds its element (`QueuedOK`), a node of a
later ticket is still being read for the round before or is free (`FreeOK`).
What a thread knows between its load of a sequence number and its
compare-exchange is only a lower bound (`ThreadOK`), and that is enough because
the node of the next ticket can have one number only. From it: no data race
(`NodeExclusive`), `OwnElement`, `BlockedOrFull`, and `Spec => ImplementsFifo`.
`Size > 1` is needed: with one node "published" and "free for the next ticket"
are the same number.

*Single-producer queue* (`CommonProofs`). The invariant adds to the types that a
producer past its check has a slot the consumer does not look at, and a consumer
past its check an element the producer does not overwrite: each thread moves
only its own end, so what the other has read of it errs on the safe side. From
it: type correctness, `SlotExclusive` and `ImplementsFifo`, for any size of the
ring and any number of retries, with and without sleeping.

*Ticket lock* (`CommonProofs`). `Spec => []IInv`, and from it
`MutualExclusion`, `TrylockFindsFree` and type correctness. The numbers drawn and
not given up are the next ones to be shown, all different, and `users` comes
right after them (`NumbersOK`); distances are counted around the wrap (`Turns`).
The number of threads that have drawn is a cardinality, so with `Modulus`
threads or fewer no number is drawn twice. `s.ticket++` need not be atomic
because only the holder executes it.

*Shard* (`DawnConnectionProofs`, `DawnShardProofs`). `Spec => []SessionsMatch`: whatever clients ask,
break off or close, a session is open in the store exactly while its connection
counts references and is not being closed, and a pool with a session is not
deleted. `SessionsMatch` alone is not inductive: `Inv` adds that a connection
that is being closed has no request pending, so that none of its requests
opens a session after it was closed, and the types the steps need (`Shape`).
Steps that leave
references, sessions and the pool's existence alone are one lemma (`Kept`);
the rest are closing, `DeleteHandlers` and the four pool requests.
On top of it `Spec => []IInv`, and from it type correctness, `OneAnswer`,
`FramesMatch`, `HandleValid` and `TransfersCounted`. `Connected` relates the two
ends of one connection: for every state of the client it says which messages
are on the way in each direction, in which states the handler can then be and
whether a task works for it (`Linked`), and that the client's handles, with one
that is being given or taken back, are references the handler counts
(`Backed`). A step of one connection changes that connection only, and
the pass over the handlers, closing and the store are shared; `Counted` says
that every transfer is counted where its value is locked.

Only model-checked: `ImplementsDurableMap` and `StableSizeIsTrue` (cardinalities),
liveness, which is out of the prover's reach, and everything about `HopLocks`.

## What the models leave out

- Values of the hash table: an element is its key; a torn write is the key
  `Torn`. The data behind a pointer is in `AtomicController`.
- Before its first use the memory of a segment is blank also in persistent
  memory, except in `FreshInit`. Flushes are ordered (`NO_CLFLUSHOPT`, or the
  fence the code adds).
- `AtomicController` reads the layout of `persist_atomic` in a pool:
  `mod_key` and `mod_mapped` on one cache line, `mod_ctl` and `mod_size` on the
  next. Keys are inline, so `mod_key` is assigned by one store as far as a crash
  can tell; a key that was cut in two would be one more way to lose the record.
- `SpscQueue`: reading the realtime clock does not fail, which
  `dequeue_sleeping` asserts (`spsc_bounded_queue.h:237`).
- The queue's memory is sequentially consistent. The sequence number of a node
  is stored with release and loaded with acquire, which orders the data; the
  relaxed loads of `_head_seq` and `_tail_seq` are confirmed by the
  compare-exchange. Sequence numbers have 64 bits and do not wrap.
- `HopLocks` has no crashes: locks are not in persistent memory, and `HopHash`
  covers the rest. A pool's operations come one after another from its thread.
- `DawnShard`: the shard uses one pool of mapstore, ADO is not enabled, pools
  are created with `FLAGS_CREATE_ONLY`, the server is built with `NDEBUG` and
  mapstore with its assertions, as their build files say. A client makes one
  call at a time (`API_LOCK`). A send is complete at the latest when the client
  has what was sent. What is on the way from and to a lost client is lost with
  it. A session that is opened again for a connection is taken to get the
  address of its last one. Contents of values, of the index and of statistics
  are left out; so is memory registration.

## Disagreements with what the code says of itself

Each finding of `PROJECT.json` is a violation of what a comment, an assertion or
an interface says, and has a run of its own. Further ones that no run repeats:

- A new pool's buckets are constructed and not flushed before its size is
  declared stable (`persist_map.tcc:44`). A crash then can leave old contents
  under a stable size. TLC refutes `StatesInService` under `FreshSpec`.
- `nearest_free_bucket` takes the content mutex of every bucket it probes
  (`hop_hash.tcc:337`), so an insertion that probes past a locked element fails
  `assert( _state == 0 )` (`dummy_shared_mutex.h:31`): TLC refutes
  `MutexFreeWhenTaken` of `HopLocks`. Built without assertions it releases the
  client's lock instead: with `Asserting = FALSE` TLC refutes `LocksExclude`.
- `Reentrant_lock_tmpl::unlock` leaves `_owner` (`spinlocks.h:217`): the thread
  that had the lock enters again by only counting, beside the next thread,
  which took the spin lock. Nothing in the repository uses the class.
- `E_ALREADY` means "is locked" (`hstore.cpp:648`), but is also returned for a
  missing key and for a full table: TLC refutes `AlreadyMeansLocked` of
  `HopLocks`.
- `atomic_update` with no operations allocates a `mod_ctl` that no redo frees
  (`atomic_controller.tcc:180`), until the pool is opened again.
- `enqueue` of `Mpmc_bounded_lfq` takes a node whose number is behind for "this
  slot is full and therefore the buffer is full" (`mpmc_bounded_queue.h:217`). It
  is behind also while a consumer that has claimed the node's ticket has not
  released it, when the queue has room: TLC refutes `FullMeansFull`, and
  `BlockedOrFull` is what the code keeps.
- `Mpmc_bounded_lfq` accepts a size of one (`mpmc_bounded_queue.h:117`), with
  which a full queue takes another element. The proofs assume two nodes.
- `dequeue` of that queue says empty when the oldest element's producer has not
  finished, although a later element is complete. The specification
  `BoundedFifo` lets a `dequeue` fail at any time.
- Dawn, all steps of `DawnShard`: a `PUT_ADVANCE` that is refused the lock, that
  has another length than the value or that asks not to stomp goes on to "operation not
  implemented" (`shard.cpp:775`), and the exception ends the shard. One that
  meets a two-stage get of another client waits for a lock that only its own
  thread could give back (`map_store.cpp:271`). The buffer of a posted response
  and that of the handshake are never freed: `poll_completions` looks for a
  completed send only while it is outstanding, as its note half says
  (`fabric_connection_base.h:272`), although `connection_handler.h:197` lets it
  "be picked up in the check_completions cycle". For the same reason a get
  whose value goes in the packet of its response never gives its lock back. A
  get of an absent key fails an assertion of mapstore (`map_store.cpp:306`)
  before `shard.cpp:645` can say "key not found". `RemoveIndex` without an index
  map follows a null pointer (`shard.cpp:1040`). A find task whose connection is
  gone uses the deleted handler (`shard.cpp:935`). `put` and `erase` do not look
  at the lock and free a value that is being transferred. A `put` of another
  length leaves the old length with the new memory (`map_store.cpp:155`). When a
  client is gone and its transport completes what is outstanding with an error,
  `completion_callback` throws what nothing catches
  (`fabric_connection_base.h:93`), and the other clients lose the shard too.

## Not modelled

`components` of `PROJECT.json` lists every part with its reason. The models
cover about one line in a hundred of the tree. Most of the tree cannot be
covered in a useful way: it holds third-party code (network stacks, test
frameworks, machine-learning and kernel-driver sources), wrappers of SPDK,
libfabric, PMDK, RocksDB and SQLite, kernel modules, tests and samples, whose
state is in the library or device below them.

What remains and would repay a model: the sleeping multi-producer queues; ADO
requests of a shard; the AVL range allocator, the bitmap allocators and
hstore's `heap_rc`; `pager-simple`, the region table and `dax_map`; nvmestore's
write path and the NVMe device's work ids. By proof: `ImplementsDurableMap` with
the size of the table, and the exclusion of client locks in `HopLocks`.
