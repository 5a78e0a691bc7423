------------------------------ MODULE HopLocks ------------------------------
(***************************************************************************)
(* The locks hstore's clients take on elements of a pool, and the          *)
(* operations of the table around them.  Source:                           *)
(* components/store/hstore/src/{hstore.cpp,hstore_session.h,hop_hash.tcc,  *)
(* hop_hash.h,dummy_shared_mutex.h}.                                       *)
(*                                                                         *)
(* A client lock is the content mutex of the bucket its element is in.     *)
(* emplace, erase and resize lock contents for themselves, with the same   *)
(* mutexes.  The mutex is dummy::shared_mutex, which never waits: its      *)
(* lock() asserts that it is free, and takes it.                           *)
(*                                                                         *)
(* A pool has one thread, and its power does not fail here (HopHash is     *)
(* about that): a step is an iteration of a loop, or a whole operation.    *)
(***************************************************************************)
EXTENDS HopTable

CONSTANTS Handle,      \* places in which clients keep what lock returned
          NoHandle,    \* of an operation that is not a lock
          AutoResize,  \* _auto_resize
          Asserting    \* whether the build keeps assert()

ASSUME LocksAssumption ==
  /\ IsFiniteSet(Handle)
  /\ NoHandle \notin Handle
  /\ AutoResize \in BOOLEAN
  /\ Asserting \in BOOLEAN

VARIABLES line,    \* the buckets
          count,   \* segment_count()
          mutex,   \* _m_content._state: 0 free, -1 unique, else how many share
          unique,  \* bucket_mutexes::_state is UNIQUE
          held,    \* the locks clients have
          pc, op,  \* the operation in progress
          last     \* what the last operation said about which element

vars == <<line, count, mutex, unique, held, pc, op, last>>

n == bucket_count(count)
home == bucket_ix(op.key, n)

LockType == {"READ", "WRITE"}
NoLock == [key |-> NoKey, type |-> "READ"]
NoOp == [key |-> NoKey, handle |-> NoHandle, type |-> "READ", dst |-> 0]

\* The results that say something about locks: an element was updated, with
\* its lock taken for it or without, or it was not because E_ALREADY; any other
\* result is "done".
Done == [key |-> NoKey, res |-> "done", take_lock |-> FALSE]
Updated(k, take_lock) == [key |-> k, res |-> "updated", take_lock |-> take_lock]
Already(k) == [key |-> k, res |-> "E_ALREADY", take_lock |-> TRUE]

\* The type of each variable: what the program can hold in it.
TypeOK ==
  /\ line \in [Index -> Bucket]
  /\ count \in 1 .. SegmentCapacity
  /\ mutex \in [Index -> -Cardinality(Handle) .. Cardinality(Handle)]
  /\ unique \in [Index -> BOOLEAN]
  /\ held \in [Handle -> [key : Key, type : LockType] \cup {NoLock}]
  /\ pc \in {"idle", "try", "space", "resize", "erase", "aborted"}
  /\ op \in [key : Key \cup {NoKey}, handle : Handle \cup {NoHandle},
             type : LockType, dst : Index]
  /\ last \in [key : Key, res : {"updated", "E_ALREADY"}, take_lock : BOOLEAN] \cup {Done}

\* A new pool.
Init ==
  /\ line = [b \in Index |-> Blank]
  /\ count = 1
  /\ mutex = [b \in Index |-> 0]
  /\ unique = [b \in Index |-> FALSE]
  /\ held = [h \in Handle |-> NoLock]
  /\ pc = "idle"
  /\ op = NoOp
  /\ last = Done

Present(k) == Found(line, k, n) # {}
Place(k) == locate_key(line, k, n)

-----------------------------------------------------------------------------
\* dummy::shared_mutex and hop_hash's lock_shared, lock_unique and unlock.

\* Mutant: shared locks are given whatever the state is.
TryLockAnyShared(b, type) == type = "READ" \/ mutex[b] = 0

try_lock(b, type) == IF type = "READ" THEN 0 <= mutex[b] ELSE mutex[b] = 0

\* The mutex of bucket b once a lock of the type is taken.
Locked(b, type) == IF type = "READ" THEN mutex[b] + 1 ELSE -1

\* The buckets whose content locks the next step of the operation takes.

\* nearest_free_bucket locks every bucket on its way.
Scanned ==
  IF FreeDistances(line, home, n) = {} THEN 0 .. n - 1
  ELSE LET far == distance_wrapped(home, nearest_free_bucket(line, home, n), n)
       IN {add_small(home, d, n) : d \in 0 .. far}

OutOfRange == distance_wrapped(home, op.dst, n) >= OwnerSize

DonorMasks == {m \in mask_all_ones : Donors(line, op.dst, m, n) # {}}
Donor(m) == subtract_small(op.dst, DonorDistance(line, op.dst, m, n), n)
Source(m) == add_small(Donor(m), DonorPosition(line, op.dst, m, n), n)

\* Mutant: erase does not lock the element it erases.
LockingNotErase ==
  CASE pc = "try" -> Scanned
    [] pc = "space" /\ OutOfRange -> {Source(m) : m \in DonorMasks}
    [] pc = "resize" -> 0 .. n - 1
    [] OTHER -> {}

\* Mutant: resize takes no content locks.
LockingNotResize ==
  CASE pc = "try" -> Scanned
    [] pc = "space" /\ OutOfRange -> {Source(m) : m \in DonorMasks}
    [] pc = "resize" -> {}
    [] pc = "erase" -> {Place(op.key)}
    [] OTHER -> {}

\* resize_pass1 and resize_pass2 lock every bucket of the table.
Locking ==
  CASE pc = "try" -> Scanned
    [] pc = "space" /\ OutOfRange -> {Source(m) : m \in DonorMasks}
    [] pc = "resize" -> 0 .. n - 1
    [] pc = "erase" -> {Place(op.key)}
    [] OTHER -> {}

\* assert( _state == 0 ) in shared_mutex::lock.
AssertFails == Asserting /\ \E b \in Locking : mutex[b] # 0

Abort ==
  /\ pc' = "aborted"
  /\ UNCHANGED <<line, count, mutex, unique, held, op, last>>

-----------------------------------------------------------------------------
\* hstore::lock.  A missing key is created first.

LockPresent(h, k, type) ==
  /\ pc = "idle"
  /\ held[h] = NoLock
  /\ Present(k)
  /\ LET b == Place(k)
     IN IF try_lock(b, type)
        THEN /\ mutex' = [mutex EXCEPT ![b] = Locked(b, type)]
             /\ unique' = [unique EXCEPT ![b] = type = "WRITE"]
             /\ held' = [held EXCEPT ![h] = [key |-> k, type |-> type]]
        ELSE UNCHANGED <<mutex, unique, held>>
  /\ last' = Done
  /\ UNCHANGED <<line, count, pc, op>>

LockMissing(h, k, type) ==
  /\ pc = "idle"
  /\ held[h] = NoLock
  /\ ~Present(k)
  /\ pc' = "try"
  /\ op' = [NoOp EXCEPT !.key = k, !.handle = h, !.type = type]
  /\ last' = Done
  /\ UNCHANGED <<line, count, mutex, unique, held>>

\* hstore::unlock.  hop_hash::unlock goes by the bucket's state, not by the
\* lock's type; it does nothing if the element is gone.
UnlockMutex(b) ==
  IF Asserting /\ (IF unique[b] THEN mutex[b] # -1 ELSE mutex[b] <= 0)
  THEN pc' = "aborted" /\ UNCHANGED <<mutex, unique>>
  ELSE /\ mutex' = [mutex EXCEPT ![b] = IF unique[b] THEN 0 ELSE @ - 1]
       /\ unique' = [unique EXCEPT ![b] = FALSE]
       /\ pc' = pc

Unlock(h) ==
  /\ pc = "idle"
  /\ held[h] # NoLock
  /\ IF Present(held[h].key) THEN UnlockMutex(Place(held[h].key))
     ELSE UNCHANGED <<mutex, unique, pc>>
  /\ held' = [held EXCEPT ![h] = NoLock]
  /\ last' = Done
  /\ UNCHANGED <<line, count, op>>

-----------------------------------------------------------------------------
\* The updates of an element: put over it, and atomic_update.

\* Mutant: a shared lock does not keep update_by_issue_41 off.
DefiniteLockOverShared(k) == Present(k) /\ mutex[Place(k)] >= 0

\* definite_lock takes the lock or throws range_error; it gives it back at the
\* end, which leaves the bucket's state SHARED.
definite_lock(k) == Present(k) /\ mutex[Place(k)] = 0

LockAndUpdate(k) ==
  /\ IF definite_lock(k)
     THEN /\ unique' = [unique EXCEPT ![Place(k)] = FALSE]
          /\ last' = Updated(k, TRUE)
     ELSE /\ last' = Already(k)
          /\ UNCHANGED unique
  /\ UNCHANGED <<line, count, mutex, held, pc, op>>

\* Without take_lock atomic_update does not look at the lock, and of a key that
\* is missing it says S_OK.
AtomicUpdate(k, take_lock) ==
  /\ pc = "idle"
  /\ \/ take_lock /\ LockAndUpdate(k)
     \/ /\ ~take_lock
        /\ last' = IF Present(k) THEN Updated(k, FALSE) ELSE Done
        /\ UNCHANGED <<line, count, mutex, unique, held, pc, op>>

PutPresent(k) == pc = "idle" /\ Present(k) /\ LockAndUpdate(k)

\* put with FLAGS_DONT_STOMP.
PutDontStomp(k) ==
  /\ pc = "idle"
  /\ Present(k)
  /\ last' = Done
  /\ UNCHANGED <<line, count, mutex, unique, held, pc, op>>

PutMissing(k) ==
  /\ pc = "idle"
  /\ ~Present(k)
  /\ pc' = "try"
  /\ op' = [NoOp EXCEPT !.key = k]
  /\ last' = Done
  /\ UNCHANGED <<line, count, mutex, unique, held>>

-----------------------------------------------------------------------------
\* hop_hash::emplace, for a put or a lock.  That the key is missing was found
\* out by PutMissing or LockMissing.

\* The mutexes after the buckets of s were locked and released.
Released(s) == [b \in Index |-> IF b \in s THEN 0 ELSE mutex[b]]

\* Mutant: the table is doubled beyond its capacity.
NoNearEmptyBucketUnbounded(s) ==
  /\ mutex' = Released(s)
  /\ IF AutoResize
     THEN pc' = "resize" /\ UNCHANGED <<op, last>>
     ELSE /\ pc' = "idle"
          /\ op' = NoOp
          /\ last' = IF op.handle = NoHandle THEN Already(op.key) ELSE Done
  /\ UNCHANGED <<line, count, unique, held>>

\* The catch clause of emplace, with the locks it held released.  put takes the
\* exception, a range_error, for definite_lock's; lock lets it through.
NoNearEmptyBucket(s) ==
  /\ mutex' = Released(s)
  /\ IF AutoResize /\ count < SegmentCapacity
     THEN pc' = "resize" /\ UNCHANGED <<op, last>>
     ELSE /\ pc' = "idle"
          /\ op' = NoOp
          /\ last' = IF op.handle = NoHandle THEN Already(op.key) ELSE Done
  /\ UNCHANGED <<line, count, unique, held>>

HopHashFull ==
  /\ pc = "try"
  /\ FreeDistances(line, home, n) = {}
  /\ NoNearEmptyBucket(Scanned)

NearestFree ==
  /\ pc = "try"
  /\ FreeDistances(line, home, n) # {}
  /\ LET dst == nearest_free_bucket(line, home, n)
     IN /\ mutex' = [Released(Scanned) EXCEPT ![dst] = -1]
        /\ op' = [op EXCEPT !.dst = dst]
  /\ pc' = "space"
  /\ UNCHANGED <<line, count, unique, held, last>>

MoveStuck ==
  /\ pc = "space"
  /\ OutOfRange
  /\ DonorMasks # mask_all_ones
  /\ NoNearEmptyBucket({op.dst})

\* One hop.  The source's lock becomes the destination's of the next.
Hop ==
  /\ pc = "space"
  /\ OutOfRange
  /\ \E m \in DonorMasks :
       LET own == Donor(m)
           src == Source(m)
       IN /\ line' = [line EXCEPT
               ![own].owner = (@ \cup {distance_wrapped(own, op.dst, n)})
                                 \ {distance_wrapped(own, src, n)},
               ![src].state = "FREE", ![src].key = NoKey,
               ![op.dst].state = "IN_USE", ![op.dst].key = line[src].key]
          /\ mutex' = [mutex EXCEPT ![op.dst] = 0, ![src] = -1]
          /\ op' = [op EXCEPT !.dst = src]
  /\ UNCHANGED <<count, unique, held, pc, last>>

\* The new element is in place and its content lock released.  lock then takes
\* the client's lock on it.
Enter ==
  /\ pc = "space"
  /\ ~OutOfRange
  /\ line' = [b \in Index |->
       [owner |-> IF b = home THEN line[b].owner \cup {distance_wrapped(home, op.dst, n)}
                  ELSE line[b].owner,
        state |-> IF b = op.dst THEN "IN_USE" ELSE line[b].state,
        key |-> IF b = op.dst THEN op.key ELSE line[b].key]]
  /\ IF op.handle = NoHandle
     THEN /\ mutex' = [mutex EXCEPT ![op.dst] = 0]
          /\ UNCHANGED <<unique, held>>
     ELSE /\ mutex' = [mutex EXCEPT ![op.dst] = IF op.type = "READ" THEN 1 ELSE -1]
          /\ unique' = [unique EXCEPT ![op.dst] = op.type = "WRITE"]
          /\ held' = [held EXCEPT ![op.handle] = [key |-> op.key, type |-> op.type]]
  /\ pc' = "idle"
  /\ op' = NoOp
  /\ UNCHANGED <<count, last>>

\* resize, both passes; the new segment has mutexes of its own.
Relocates(ix) ==
  LET owner == bucket_expanded_ix(line[ix].key, n)
  IN /\ ~is_free(line, ix)
     /\ ~(owner <= ix /\ ix < owner + OwnerSize)
     /\ ~(ix < OwnerSize /\ n * 2 < owner + OwnerSize)

Doubled(b) ==
  LET o == b % n
      owned == {p \in line[o].owner : bucket_expanded_ix(line[add_small(o, p, n)].key, n) = b}
  IN IF Relocates(o) = (b < n)
     THEN [Blank EXCEPT !.owner = owned]
     ELSE [owner |-> owned, state |-> line[o].state, key |-> line[o].key]

Resize ==
  /\ pc = "resize"
  /\ line' = [b \in Index |-> IF b < 2 * n THEN Doubled(b) ELSE line[b]]
  /\ mutex' = [b \in Index |-> IF b < 2 * n THEN 0 ELSE mutex[b]]
  /\ unique' = [b \in Index |-> b < n /\ unique[b]]
  /\ count' = count + 1
  /\ pc' = "try"
  /\ UNCHANGED <<held, op, last>>

-----------------------------------------------------------------------------
\* hstore::erase.

Erase(k) ==
  /\ pc = "idle"
  /\ Present(k)
  /\ pc' = "erase"
  /\ op' = [NoOp EXCEPT !.key = k]
  /\ last' = Done
  /\ UNCHANGED <<line, count, mutex, unique, held>>

EraseMissing(k) ==
  /\ pc = "idle"
  /\ ~Present(k)
  /\ last' = Done
  /\ UNCHANGED <<line, count, mutex, unique, held, pc, op>>

EraseElement ==
  /\ pc = "erase"
  /\ LET b == Place(op.key)
     IN /\ line' = [c \in Index |->
             [owner |-> IF c = home THEN line[c].owner \ {EraseMask(b, home)} ELSE line[c].owner,
              state |-> IF c = b THEN "FREE" ELSE line[c].state,
              key |-> IF c = b THEN NoKey ELSE line[c].key]]
        /\ mutex' = Released({b})
  /\ pc' = "idle"
  /\ op' = NoOp
  /\ UNCHANGED <<count, unique, held, last>>

-----------------------------------------------------------------------------
Request ==
  \/ \E h \in Handle, k \in Key, type \in LockType :
       LockPresent(h, k, type) \/ LockMissing(h, k, type)
  \/ \E h \in Handle : Unlock(h)
  \/ \E k \in Key : \/ \E take_lock \in BOOLEAN : AtomicUpdate(k, take_lock)
                    \/ PutPresent(k)
                    \/ PutDontStomp(k)
                    \/ PutMissing(k)
                    \/ Erase(k)
                    \/ EraseMissing(k)

Step == HopHashFull \/ NearestFree \/ MoveStuck \/ Hop \/ Enter \/ Resize \/ EraseElement

Next ==
  \/ AssertFails /\ Abort
  \/ ~AssertFails /\ (Request \/ Step)

Spec == Init /\ [][Next]_vars

-----------------------------------------------------------------------------
\* Handles through which key k is locked with the type.
Holders(k, type) == {h \in Handle : held[h] = [key |-> k, type |-> type]}

\* Two clients have locks on one element only if both are for reading
\* (lock_shared, lock_unique; test1.cpp's LockMany).
LocksExclude ==
  \A k \in Key :
    Cardinality(Holders(k, "WRITE")) <= 1
    /\ (Holders(k, "WRITE") # {} => Holders(k, "READ") = {})

\* Between operations the content mutexes are exactly the clients' locks: each
\* bucket's mutex is held as the handles on its element say, and no bucket is
\* left locked without a handle.
MutexesAreTheLocks ==
  pc = "idle" =>
    \A b \in Index :
      LET k == line[b].key
      IN mutex[b] = IF is_free(line, b) THEN 0
                    ELSE IF Holders(k, "WRITE") # {} THEN -1
                    ELSE Cardinality(Holders(k, "READ"))

\* A client keeps a pointer into the element it has locked: as long as it has
\* the lock, no hop, resize or erase moves the element or takes it away.
LockedElementStays ==
  [][\A h \in Handle :
       held[h] # NoLock /\ held'[h] = held[h] =>
         /\ Present(held[h].key)'
         /\ Place(held[h].key)' = Place(held[h].key)]_vars

\* put, and atomic_update unless it is told not to take the lock, change no
\* element that a client has locked, for reading or for writing.
UpdateRespectsLocks ==
  last.res = "updated" /\ last.take_lock =>
    Holders(last.key, "READ") \cup Holders(last.key, "WRITE") = {}

\* The assertion of shared_mutex::lock, that the mutex it is about to take is
\* free, never fails.
MutexFreeWhenTaken == pc # "aborted"

\* put and atomic_update return E_ALREADY when the element is locked ("... and
\* is locked, so cannot be updated"), and for no other reason.
AlreadyMeansLocked ==
  last.res = "E_ALREADY" =>
    Holders(last.key, "READ") \cup Holders(last.key, "WRITE") # {}

=============================================================================
