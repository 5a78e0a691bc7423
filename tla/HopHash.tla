------------------------------- MODULE HopHash -------------------------------
(***************************************************************************)
(* hstore's persistent hash table (hop_hash.tcc with persist_controller,   *)
(* value_unstable and content): emplace with hopscotch relocation, erase,  *)
(* table doubling, and recovery, at the granularity of the stores and      *)
(* flushes to persistent memory, with a power failure between any two.     *)
(*                                                                         *)
(* The table is used by one thread at a time (THREAD_SAFE_HASH is 0), so   *)
(* one operation is in progress, and pc names the point it has reached.    *)
(* Every location exists twice: as the processor sees it (line, size,      *)
(* count, sc) and as persistent memory holds it (the p- variables).        *)
(* A store changes the first; a persist() copies it to the second; the     *)
(* cache may write any dirty line back earlier (Evict); a crash keeps only *)
(* the second.  An action that follows a persist() in the code starts by   *)
(* that flush and ends with the next stores, so that a crash can fall      *)
(* between each store and its flush.                                       *)
(***************************************************************************)
EXTENDS HopTable

CONSTANT AutoResize \* hop_hash_base::_auto_resize

VARIABLES line, pline,   \* buckets
          size, psize,   \* value_unstable<size_t, 8>: the element count
          count, pcount, \* value_unstable<six_t, 1>: the segment count
          sc, psc,       \* segments whose pointer in persist_map::_sc is set
          heap,          \* keys whose out-of-line data the heap has reserved
          pc, op

vars == <<line, pline, size, psize, count, pcount, sc, psc, heap, pc, op>>

Segment == 0 .. SegmentCapacity - 1

Size == [val : Int, unst : 0 .. 1]

Count == [val : 1 .. SegmentCapacity, unst : 0 .. 1]

Op == [key : Key \cup {NoKey}, dst : Index, src : Index, own : Index, ix : 0 .. MaxBuckets,
       res : {"none", "inserted", "present", "full", "erased", "absent"}]

Pc == {"idle", "ret", "try", "space", "hop_unstable", "hop_src", "hop_dst", "hop_owner",
       "hop_stable", "ins_unstable", "ins_content", "ins_owner", "ins_stable", "find",
       "del_unstable", "del_owner", "del_content", "del_stable", "resize", "rsz_copied",
       "rsz_marked", "pass2", "pass2_adjusted", "rsz_done", "recover", "scan",
       "scan_states", "scan_size"}

NoOp == [key |-> NoKey, dst |-> 0, src |-> 0, own |-> 0, ix |-> 0, res |-> "none"]

n == bucket_count(count.val)

\* hop_hash_base::bucket of the operation's key.
home == bucket_ix(op.key, n)

\* value_unstable
is_stable(v) == v.unst = 0
destabilize(v) == [v EXCEPT !.unst = @ + 1]
stabilize(v) == [v EXCEPT !.unst = @ - 1]

\* persist_size_change::change, then size_stabilize, on the counter.
SizeChange(v, delta) == stabilize([v EXCEPT !.val = @ + delta])

\* p with the current contents of the lines of B.
persist_omitted(p, B) == p
persist(p, B) == [b \in Index |-> IF b \in B THEN line[b] ELSE p[b]]

Init ==
  /\ line = [b \in Index |-> Blank]
  /\ pline = line
  /\ size = [val |-> 0, unst |-> 0]
  /\ psize = size
  /\ count = [val |-> 1, unst |-> 0]
  /\ pcount = count
  /\ sc = {0}
  /\ psc = sc
  /\ heap = {}
  /\ pc = "idle"
  /\ op = NoOp

\* A pool just created: do_initial_allocation flushes the counts, not the
\* buckets, so memory may still hold what was there before.
Stale == [owner |-> {}, state |-> "IN_USE", key |-> Torn]

FreshInit ==
  /\ line = [b \in Index |-> Blank]
  /\ pline \in [Index -> {Blank, Stale}]
  /\ size = [val |-> 0, unst |-> 0]
  /\ psize = size
  /\ count = [val |-> 1, unst |-> 0]
  /\ pcount = count
  /\ sc = {0}
  /\ psc = sc
  /\ heap = {}
  /\ pc = "idle"
  /\ op = NoOp

-----------------------------------------------------------------------------
\* emplace up to the first store: refuse a key that is present, else find the
\* nearest free bucket.  hop_hash_full is a no_near_empty_bucket.

Emplace(k) ==
  /\ pc = "idle"
  /\ pc' = "try"
  /\ op' = [NoOp EXCEPT !.key = k]
  /\ UNCHANGED <<line, pline, size, psize, count, pcount, sc, psc, heap>>

AlreadyPresent ==
  /\ pc = "try"
  /\ Found(line, op.key, n) # {}
  /\ pc' = "ret"
  /\ op' = [op EXCEPT !.res = "present"]
  /\ UNCHANGED <<line, pline, size, psize, count, pcount, sc, psc, heap>>

NearestFree ==
  /\ pc = "try"
  /\ Found(line, op.key, n) = {}
  /\ FreeDistances(line, home, n) # {}
  /\ pc' = "space"
  /\ op' = [op EXCEPT !.dst = nearest_free_bucket(line, home, n)]
  /\ UNCHANGED <<line, pline, size, psize, count, pcount, sc, psc, heap>>

\* The catch clause of emplace: resize and retry, or rethrow.
RetryWithoutResize ==
  /\ pc' = "try"
  /\ UNCHANGED <<line, pline, size, psize, count, pcount, sc, psc, heap, op>>
NoNearEmptyBucket ==
  /\ IF AutoResize /\ count.val < SegmentCapacity
     THEN pc' = "resize" /\ op' = op
     ELSE pc' = "ret" /\ op' = [op EXCEPT !.res = "full"]
  /\ UNCHANGED <<line, pline, size, psize, count, pcount, sc, psc, heap>>

HopHashFull ==
  /\ pc = "try"
  /\ Found(line, op.key, n) = {}
  /\ FreeDistances(line, home, n) = {}
  /\ NoNearEmptyBucket

-----------------------------------------------------------------------------
\* make_space_for_insert: while the free bucket is out of the home bucket's
\* range, move an element of a nearer owner into it.

OutOfRange == distance_wrapped(home, op.dst, n) >= OwnerSize

MoveStuck ==
  /\ pc = "space"
  /\ OutOfRange
  /\ \E mask \in mask_all_ones :
       /\ Donors(line, op.dst, mask, n) = {}
       /\ NoNearEmptyBucket

\* A line whose content is being written by several stores, as it may reach
\* memory when the line is evicted half way.
HalfWritten(b) == {pline[b], [line[b] EXCEPT !.key = Torn]}

\* content_share into the free bucket, then size_destabilize.
HopShare ==
  /\ pc = "space"
  /\ OutOfRange
  /\ \E mask \in mask_all_ones :
       /\ Donors(line, op.dst, mask, n) # {}
       /\ LET own == subtract_small(op.dst, DonorDistance(line, op.dst, mask, n), n)
              src == add_small(own, DonorPosition(line, op.dst, mask, n), n)
          IN /\ op' = [op EXCEPT !.own = own, !.src = src]
             /\ line' = [line EXCEPT ![op.dst].key = line[src].key]
  /\ \E half \in HalfWritten(op.dst) : pline' = [pline EXCEPT ![op.dst] = half]
  /\ size' = destabilize(size)
  /\ pc' = "hop_unstable"
  /\ UNCHANGED <<psize, count, pcount, sc, psc, heap>>

HopFreeSource ==
  /\ pc = "hop_unstable"
  /\ psize' = size
  /\ line' = [line EXCEPT ![op.src].state = "FREE"]
  /\ pc' = "hop_src"
  /\ UNCHANGED <<pline, size, count, pcount, sc, psc, heap, op>>

HopUseDestination ==
  /\ pc = "hop_src"
  /\ pline' = persist(pline, {op.src})
  /\ line' = [line EXCEPT ![op.dst].state = "IN_USE"]
  /\ pc' = "hop_dst"
  /\ UNCHANGED <<size, psize, count, pcount, sc, psc, heap, op>>

\* owner::move: the owner word w gains position d and loses position s.
move_without_erase(w, d, s) == w \cup {d}
move(w, d, s) == (w \cup {d}) \ {s}

HopMoveOwner ==
  /\ pc = "hop_dst"
  /\ pline' = persist(pline, {op.dst})
  /\ line' = [line EXCEPT ![op.own].owner =
                move(@, distance_wrapped(op.own, op.dst, n), distance_wrapped(op.own, op.src, n))]
  /\ pc' = "hop_owner"
  /\ UNCHANGED <<size, psize, count, pcount, sc, psc, heap, op>>

\* content::erase of the source finds it FREE and leaves its bytes alone.
HopStabilize ==
  /\ pc = "hop_owner"
  /\ pline' = persist(pline, {op.own})
  /\ size' = SizeChange(size, 0)
  /\ pc' = "hop_stable"
  /\ UNCHANGED <<line, psize, count, pcount, sc, psc, heap, op>>

\* Nothing reads an unowned FREE content: its bytes are forgotten here, so
\* that tables that differ only in such bytes are one state.
HopDone ==
  /\ pc = "hop_stable"
  /\ psize' = size
  /\ line' = [line EXCEPT ![op.src].key = NoKey]
  /\ pline' = [pline EXCEPT ![op.src].key = NoKey]
  /\ pc' = "space"
  /\ op' = [op EXCEPT !.dst = op.src, !.src = 0, !.own = 0]
  /\ UNCHANGED <<size, count, pcount, sc, psc, heap>>

-----------------------------------------------------------------------------
\* The rest of emplace: the four-step change to the owner.

Construct ==
  /\ pc = "space"
  /\ ~OutOfRange
  /\ line' = [line EXCEPT ![op.dst].key = op.key]
  /\ \E half \in HalfWritten(op.dst) : pline' = [pline EXCEPT ![op.dst] = half]
  /\ heap' = heap \cup {op.key}
  /\ size' = destabilize(size)
  /\ pc' = "ins_unstable"
  /\ UNCHANGED <<psize, count, pcount, sc, psc, op>>

InsertContent ==
  /\ pc = "ins_unstable"
  /\ psize' = size
  /\ line' = [line EXCEPT ![op.dst].state = "IN_USE"]
  /\ pc' = "ins_content"
  /\ UNCHANGED <<pline, size, count, pcount, sc, psc, heap, op>>

InsertOwner ==
  /\ pc = "ins_content"
  /\ pline' = persist(pline, {op.dst})
  /\ line' = [line EXCEPT ![home].owner = @ \cup {distance_wrapped(home, op.dst, n)}]
  /\ pc' = "ins_owner"
  /\ UNCHANGED <<size, psize, count, pcount, sc, psc, heap, op>>

InsertStabilize ==
  /\ pc = "ins_owner"
  /\ pline' = persist(pline, {home})
  /\ size' = SizeChange(size, 1)
  /\ pc' = "ins_stable"
  /\ UNCHANGED <<line, psize, count, pcount, sc, psc, heap, op>>

InsertDone ==
  /\ pc = "ins_stable"
  /\ psize' = size
  /\ pc' = "ret"
  /\ op' = [op EXCEPT !.res = "inserted"]
  /\ UNCHANGED <<line, pline, size, count, pcount, sc, psc, heap>>

-----------------------------------------------------------------------------
\* erase

Erase(k) ==
  /\ pc = "idle"
  /\ pc' = "find"
  /\ op' = [NoOp EXCEPT !.key = k]
  /\ UNCHANGED <<line, pline, size, psize, count, pcount, sc, psc, heap>>

NoSuchElement ==
  /\ pc = "find"
  /\ Found(line, op.key, n) = {}
  /\ pc' = "ret"
  /\ op' = [op EXCEPT !.res = "absent"]
  /\ UNCHANGED <<line, pline, size, psize, count, pcount, sc, psc, heap>>

EraseUnstable ==
  /\ pc = "find"
  /\ Found(line, op.key, n) # {}
  /\ op' = [op EXCEPT !.src = locate_key(line, op.key, n)]
  /\ pline' = persist(pline, {locate_key(line, op.key, n)})
  /\ size' = destabilize(size)
  /\ pc' = "del_unstable"
  /\ UNCHANGED <<line, psize, count, pcount, sc, psc, heap>>

EraseOwner ==
  /\ pc = "del_unstable"
  /\ psize' = size
  /\ line' = [line EXCEPT ![home].owner = @ \ {EraseMask(op.src, home)}]
  /\ pc' = "del_owner"
  /\ UNCHANGED <<pline, size, count, pcount, sc, psc, heap, op>>

EraseContent ==
  /\ pc = "del_owner"
  /\ pline' = persist(pline, {home})
  /\ line' = [line EXCEPT ![op.src].state = "FREE", ![op.src].key = NoKey]
  /\ heap' = heap \ {op.key}
  /\ pc' = "del_content"
  /\ UNCHANGED <<size, psize, count, pcount, sc, psc, op>>

EraseStabilize ==
  /\ pc = "del_content"
  /\ pline' = persist(pline, {op.src})
  /\ size' = SizeChange(size, -1)
  /\ pc' = "del_stable"
  /\ UNCHANGED <<line, psize, count, pcount, sc, psc, heap, op>>

EraseDone ==
  /\ pc = "del_stable"
  /\ psize' = size
  /\ pc' = "ret"
  /\ op' = [op EXCEPT !.res = "erased"]
  /\ UNCHANGED <<line, pline, size, count, pcount, sc, psc, heap>>

Return ==
  /\ pc = "ret"
  /\ pc' = "idle"
  /\ op' = NoOp
  /\ UNCHANGED <<line, pline, size, psize, count, pcount, sc, psc, heap>>

-----------------------------------------------------------------------------
\* resize.  The junior segment holds buckets n .. 2n-1; senior bucket ix and
\* junior bucket n + ix are a pair.

\* resize_pass1, case 1c: the content must move to the junior segment.
RelocatesIgnoringWrap(ix) ==
  LET owner == bucket_expanded_ix(line[ix].key, n)
  IN /\ ~is_free(line, ix)
     /\ ~(owner <= ix /\ ix < owner + OwnerSize)

Relocates(ix) ==
  LET owner == bucket_expanded_ix(line[ix].key, n)
  IN /\ ~is_free(line, ix)
     /\ ~(owner <= ix /\ ix < owner + OwnerSize)
     /\ ~(ix < OwnerSize /\ n * 2 < owner + OwnerSize)

\* resize_prolog and resize_pass1, up to persist_new_segment.
ResizePass1 ==
  /\ pc = "resize"
  /\ sc' = sc \cup {count.val}
  /\ line' = [b \in Index |->
       IF b < n \/ 2 * n <= b THEN line[b]
       ELSE IF Relocates(b - n)
            THEN [Blank EXCEPT !.state = "IN_USE", !.key = line[b - n].key]
            ELSE Blank]
  /\ pline' = [b \in Index |-> IF b < n \/ 2 * n <= b THEN pline[b] ELSE line'[b]]
  /\ pc' = "rsz_copied"
  /\ UNCHANGED <<size, psize, count, pcount, psc, heap, op>>

ResizeInterlogUnflushed ==
  /\ pc = "rsz_copied"
  /\ count' = destabilize(count)
  /\ pc' = "rsz_marked"
  /\ UNCHANGED <<line, pline, size, psize, pcount, sc, psc, heap, op>>

ResizeInterlog ==
  /\ pc = "rsz_copied"
  /\ psc' = sc
  /\ count' = destabilize(count)
  /\ pc' = "rsz_marked"
  /\ UNCHANGED <<line, pline, size, psize, pcount, sc, heap, op>>

ResizePass2Begin ==
  /\ pc = "rsz_marked"
  /\ pcount' = count
  /\ pc' = "pass2"
  /\ op' = [op EXCEPT !.ix = 0]
  /\ UNCHANGED <<line, pline, size, psize, count, sc, psc, heap>>

\* The pair's content, which drives pass 2: the junior copy if there is one.
Populated(ix) == IF line[n + ix].state = "IN_USE" THEN line[n + ix] ELSE line[ix]

\* resize_pass2_adjust_owner: the stores of both owners come before the
\* flushes of both.
AdjustOwner(ix) ==
  LET senior == bucket_ix(Populated(ix).key, n)
      junior == bucket_expanded_ix(Populated(ix).key, n)
      pos == distance_wrapped(senior, ix, n)
  IN IF senior = junior
     THEN line
     ELSE [line EXCEPT ![n + senior].owner = @ \cup {pos},
                       ![senior].owner = @ \ {pos}]

\* On to the next pair of buckets.
SamePair == op
NextPair == [op EXCEPT !.ix = @ + 1]

ResizePass2 ==
  /\ pc = "pass2"
  /\ op.ix < n
  /\ IF Populated(op.ix).state = "IN_USE"
     THEN line' = AdjustOwner(op.ix) /\ pc' = "pass2_adjusted" /\ op' = op
     ELSE line' = line /\ pc' = pc /\ op' = NextPair
  /\ UNCHANGED <<pline, size, psize, count, pcount, sc, psc, heap>>

\* The owner flushes, then content::erase of a senior content that moved;
\* that store is flushed only when the pass is over.
ResizePass2Free ==
  /\ pc = "pass2_adjusted"
  /\ LET senior == bucket_ix(Populated(op.ix).key, n)
     IN pline' = persist(pline, {senior, n + senior})
  /\ line' = IF line[n + op.ix].state = "IN_USE"
             THEN [line EXCEPT ![op.ix].state = "FREE", ![op.ix].key = NoKey]
             ELSE line
  /\ pc' = "pass2"
  /\ op' = NextPair
  /\ UNCHANGED <<size, psize, count, pcount, sc, psc, heap>>

\* persist_existing_segments, persist_new_segment, resize_epilog.
ResizeEpilog ==
  /\ pc = "pass2"
  /\ op.ix = n
  /\ pline' = persist(pline, 0 .. 2 * n - 1)
  /\ count' = [val |-> count.val + 1, unst |-> 0]
  /\ pc' = "rsz_done"
  /\ UNCHANGED <<line, size, psize, pcount, sc, psc, heap, op>>

\* Back to RETRY in emplace, or on with the constructor.
ResizeDone ==
  /\ pc = "rsz_done"
  /\ pcount' = count
  /\ pc' = IF op.key = NoKey THEN "scan" ELSE "try"
  /\ op' = [op EXCEPT !.ix = 0, !.dst = 0]
  /\ UNCHANGED <<line, pline, size, psize, count, sc, psc, heap>>

-----------------------------------------------------------------------------
\* The cache writes a dirty line back on its own.
Evict ==
  \/ /\ \E b \in Index : line[b] # pline[b] /\ pline' = [pline EXCEPT ![b] = line[b]]
     /\ UNCHANGED <<psize, pcount, psc>>
  \/ /\ psize # size \/ pcount # count \/ psc # sc
     /\ psize' \in {psize, size} /\ pcount' \in {pcount, count} /\ psc' \in {psc, sc}
     /\ UNCHANGED pline

Writeback == Evict /\ UNCHANGED <<line, size, count, sc, heap, pc, op>>

\* Buckets outside the segments in use, and contents nothing reads, with
\* their bytes forgotten.
Forget(t, c) ==
  LET live == bucket_count(c.val)
  IN [b \in Index |->
       IF is_stable(c) /\ live <= b THEN Blank
       ELSE IF is_free(t, b) /\ (~is_stable(c) \/ ~owned_by_owner_mask(t, b, live))
            THEN [t[b] EXCEPT !.key = NoKey]
            ELSE t[b]]

Crash ==
  /\ pc' = "recover"
  /\ line' = Forget(pline, pcount)
  /\ pline' = line'
  /\ size' = psize
  /\ count' = pcount
  /\ sc' = psc
  /\ heap' = {}
  /\ op' = NoOp
  /\ UNCHANGED <<psize, pcount, psc>>

\* The constructor, reconstitute mode: the heap learns of the data of every
\* content marked IN_USE in the segments in use and, if a resize was under
\* way, in the junior one; pass 2 of that resize is run again.
Reconstitute ==
  /\ pc = "recover"
  /\ heap' = {line[b].key : b \in {c \in Index : ~is_free(line, c)}}
  /\ pc' = IF is_stable(count) THEN "scan" ELSE "pass2"
  /\ UNCHANGED <<line, pline, size, psize, count, pcount, sc, psc, op>>

\* Mutant: the states are taken as they are also when the size is unstable.
ScanNeverNeeded ==
  /\ pc = "scan"
  /\ pc' = "idle"
  /\ UNCHANGED <<line, pline, size, psize, count, pcount, sc, psc, heap, op>>

ScanNotNeeded ==
  /\ pc = "scan"
  /\ is_stable(size)
  /\ pc' = "idle"
  /\ UNCHANGED <<line, pline, size, psize, count, pcount, sc, psc, heap, op>>

\* The size is unstable: the content states follow from the owners.  Each
\* state is flushed before the next is stored; here any subset may be.
ScanStates ==
  /\ pc = "scan"
  /\ ~is_stable(size)
  /\ line' = [b \in Index |->
       IF n <= b THEN line[b]
       ELSE IF owned_by_owner_mask(line, b, n)
            THEN [line[b] EXCEPT !.state = "IN_USE"]
            ELSE [line[b] EXCEPT !.state = "FREE", !.key = NoKey]]
  /\ pc' = "scan_states"
  /\ UNCHANGED <<pline, size, psize, count, pcount, sc, psc, heap, op>>

ScanSize ==
  /\ pc = "scan_states"
  /\ pline' = persist(pline, 0 .. n - 1)
  /\ size' = [val |-> Cardinality({b \in 0 .. n - 1 : owned_by_owner_mask(line, b, n)}),
              unst |-> 0]
  /\ pc' = "scan_size"
  /\ UNCHANGED <<line, psize, count, pcount, sc, psc, heap, op>>

ScanDone ==
  /\ pc = "scan_size"
  /\ psize' = size
  /\ pc' = "idle"
  /\ UNCHANGED <<line, pline, size, count, pcount, sc, psc, heap, op>>

-----------------------------------------------------------------------------
\* Steps of the operation or of the recovery in progress.
Step ==
  \/ AlreadyPresent \/ NearestFree \/ HopHashFull
  \/ MoveStuck \/ HopShare \/ HopFreeSource \/ HopUseDestination
  \/ HopMoveOwner \/ HopStabilize \/ HopDone
  \/ Construct \/ InsertContent \/ InsertOwner \/ InsertStabilize \/ InsertDone
  \/ NoSuchElement \/ EraseUnstable \/ EraseOwner \/ EraseContent \/ EraseStabilize \/ EraseDone
  \/ Return
  \/ ResizePass1 \/ ResizeInterlog \/ ResizePass2Begin \/ ResizePass2
  \/ ResizePass2Free \/ ResizeEpilog \/ ResizeDone
  \/ Reconstitute \/ ScanNotNeeded \/ ScanStates \/ ScanSize \/ ScanDone

Next ==
  \/ \E k \in Key : Emplace(k) \/ Erase(k)
  \/ Step
  \/ Writeback
  \/ Crash

Spec == Init /\ [][Next]_vars

FreshSpec == FreshInit /\ [][Next]_vars

-----------------------------------------------------------------------------
\* Type invariant of the table, its memory image and the operation record.
TypeOK ==
  /\ line \in [Index -> Bucket] /\ pline \in [Index -> Bucket]
  /\ size \in Size /\ psize \in Size
  /\ count \in Count /\ pcount \in Count
  /\ sc \subseteq Segment /\ psc \subseteq Segment
  /\ heap \subseteq Key \cup {NoKey, Torn}
  /\ pc \in Pc
  /\ op \in Op

\* The keys of the table t with segment count c.  While a resize moves
\* ownership the content states say what is in the table; otherwise the
\* owners do.
Keys(t, c) ==
  LET m == bucket_count(c.val)
  IN IF is_stable(c)
     THEN {t[b].key : b \in {x \in 0 .. m - 1 : owned_by_owner_mask(t, x, m)}}
     ELSE {t[b].key : b \in {x \in 0 .. 2 * m - 1 : ~is_free(t, x)}}

\* owned_by_owner_mask: "The 'used' flag of a bucket is held by at most one
\* owner", asserted there; in the processor's view and in whatever image a
\* crash leaves.
OwnersDisjoint ==
  \A img \in {<<line, count>>, <<pline, pcount>>} :
    is_stable(img[2]) =>
      LET m == bucket_count(img[2].val)
      IN \A b \in 0 .. m - 1 :
           \A o1, o2 \in {o \in 0 .. m - 1 : OwnedBy(img[1], o, b, m)} : o1 = o2

\* value_unstable: a stable size in persistent memory vouches for the element
\* count and for every content state there, so recovery may skip its scan.
StableSizeIsTrue ==
  is_stable(psize) /\ is_stable(pcount) =>
    LET m == bucket_count(pcount.val)
        owned == {b \in 0 .. m - 1 : owned_by_owner_mask(pline, b, m)}
    IN /\ \A b \in 0 .. m - 1 : pline[b].state = "IN_USE" <=> b \in owned
       /\ psize.val = Cardinality(owned)

\* Whatever the moment of the crash, an element that an owner claims in
\* persistent memory is complete, lies under the home bucket of its key, and
\* is the only element with that key.
OwnedContentComplete ==
  is_stable(pcount) =>
    LET m == bucket_count(pcount.val)
    IN /\ \A o, b \in 0 .. m - 1 : OwnedBy(pline, o, b, m) =>
            pline[b].key \in Key /\ bucket_ix(pline[b].key, m) = o
       /\ \A b1, b2 \in {b \in 0 .. m - 1 : owned_by_owner_mask(pline, b, m)} :
            pline[b1].key = pline[b2].key => b1 = b2

\* Recovery follows the pointers of every content marked IN_USE, and of every
\* segment the segment count includes: neither may be half written.
RecoveryReadsWholeData ==
  pc = "recover" =>
    /\ \A b \in Index : ~is_free(line, b) => line[b].key \in Key
    /\ 0 .. count.val - (IF is_stable(count) THEN 1 ELSE 0) \subseteq sc

\* In a table in service every content state is what the owners say, so that
\* nearest_free_bucket offers every unowned bucket and no other.
StatesInService ==
  pc = "idle" =>
    \A b \in 0 .. n - 1 : line[b].state = "IN_USE" <=> owned_by_owner_mask(line, b, n)

\* The heap has reserved the data of every element of a table in service.
LiveDataReserved == pc = "idle" => Keys(line, count) \subseteq heap

-----------------------------------------------------------------------------
\* Refinement of DurableMap: the owner store is the moment of effect.
Kind ==
  CASE op.key = NoKey -> "none"
    [] pc \in {"find", "del_unstable", "del_owner", "del_content", "del_stable"} -> "erase"
    [] op.res \in {"erased", "absent"} -> "erase"
    [] OTHER -> "emplace"

Result ==
  CASE pc \in {"ins_owner", "ins_stable"} -> "inserted"
    [] pc \in {"del_owner", "del_content", "del_stable"} -> "erased"
    [] OTHER -> op.res

DM == INSTANCE DurableMap WITH
        map <- Keys(line, count),
        call <- [kind |-> Kind, key |-> op.key, res |-> Result]

\* The table implements the durable map: every completed call survives any
\* number of crashes, and an interrupted one is all or nothing.
ImplementsDurableMap == DM!Spec

-----------------------------------------------------------------------------
\* The single thread keeps running; nothing is said of the cache or of crashes.
FairSpec == Spec /\ WF_vars(Step)

\* An emplace comes to an end, although it retries after each resize and
\* each hop starts the search for room again.
EmplaceEnds == (pc = "try") ~> (pc \in {"ret", "recover"})

\* Once crashes stop, a recovery brings the table back into service.
RecoveryEnds == (<>[][~Crash]_vars) => ((pc = "recover") ~> (pc = "idle"))

=============================================================================
