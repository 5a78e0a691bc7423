------------------------------ MODULE MapStore ------------------------------
(***************************************************************************)
(* mapstore, the volatile key-value store a dawn shard can serve: a pool   *)
(* of values in memory under one reader-writer lock, and the sessions open *)
(* on it.  Source: components/store/mapstore/src/map_store.cpp and         *)
(* lib/common/include/common/rwlock.h.                                     *)
(*                                                                         *)
(* One pool, one thread (the shard's; the store is compiled with           *)
(* SINGLE_THREADED, so only lock and unlock touch the lock).  Operators    *)
(* take the pool's state and give the state, or the set of states, that    *)
(* the operation may leave.  A session is named by whom it was opened for. *)
(***************************************************************************)
EXTENDS Integers, FiniteSets

CONSTANTS Key,      \* names of values
          Addr,     \* addresses the allocator may give a value
          NoAddr    \* nullptr

ASSUME MapStoreAssumption ==
  /\ IsFiniteSet(Key)
  /\ IsFiniteSet(Addr)
  /\ Cardinality(Key) < Cardinality(Addr)
  /\ NoAddr \notin Addr

\* How long a value is, as far as dawn's messages tell lengths apart: it fits
\* a response that is injected, a response that is copied, the packet of a
\* response, or none of them.
Length == 1 .. 4
Tiny == 1
Small == 2
Medium == 3
Large == 4

NoValue == [ptr |-> NoAddr, len |-> 0]

\* A pool: whether _pools has it, _map, and _map_lock: who shares it and
\* whether the thread has it for writing.  An unlock too many wraps the
\* number of sharers, which is no longer 0.
Pool == [exists : BOOLEAN, map : [Key -> [ptr : Addr, len : Length] \cup {NoValue}],
         readers : Int, writer : BOOLEAN]

NoPool == [exists |-> FALSE, map |-> [k \in Key |-> NoValue],
           readers |-> 0, writer |-> FALSE]

\* create_pool with FLAGS_CREATE_ONLY of a name that is not in _pools.
create_pool(pool) == [pool EXCEPT !.exists = TRUE]

\* Mutant: delete_pool that does not look at _pool_sessions.
deletable_unchecked(pool, sessions) == pool.exists

\* delete_pool refuses while a session is open; otherwise the pool is gone.
deletable(pool, sessions) == pool.exists /\ sessions = {}

Absent(pool, k) == pool.map[k] = NoValue

\* What the allocator may answer when k's value, if any, has been freed.
scalable_malloc(pool, k) == Addr \ {pool.map[j].ptr : j \in Key \ {k}}

\* Pool_handle::put refuses a value of no length, and with FLAGS_DONT_STOMP
\* one that is there.
put_refused(pool, k, len, dont_stomp) == len = 0 \/ (dont_stomp /\ ~Absent(pool, k))

\* Pool_handle::put, not refused: in place when the length is the one that is
\* recorded.  A value of another length gets memory of its own, and the
\* length that was recorded stays; only a value that is new has its length.
put(pool, k, len) ==
  IF pool.map[k].len = len THEN {pool}
  ELSE {[pool EXCEPT !.map[k].ptr = a,
                     !.map[k].len = IF Absent(pool, k) THEN len ELSE @] :
          a \in scalable_malloc(pool, k)}

\* Pool_handle::erase.
erase(pool, k) == [pool EXCEPT !.map[k] = NoValue]

\* pthread_rwlock_wrlock: the thread that is the writer is refused with
\* EDEADLK; one that shares the lock waits, and here nobody else will unlock.
write_lock_refused(pool) == pool.writer
write_lock_waits(pool) == ~pool.writer /\ pool.readers # 0

\* Pool_handle::lock for writing, neither refused nor waiting: a value that
\* is absent is created.
lock_write(pool, k, len) ==
  {[p EXCEPT !.writer = TRUE] : p \in IF Absent(pool, k) THEN put(pool, k, len) ELSE {pool}}

\* Pool_handle::lock for reading does not look at what read_lock says: to the
\* writer it says EDEADLK.  (A value that is absent is an assertion's failure.)
lock_read(pool) == IF pool.writer THEN pool ELSE [pool EXCEPT !.readers = @ + 1]

\* Pool_handle::unlock: pthread_rwlock_unlock ends what the thread is: the
\* writer, or else a reader.
unlock(pool) == IF pool.writer THEN [pool EXCEPT !.writer = FALSE]
                ELSE [pool EXCEPT !.readers = @ - 1]
=============================================================================
