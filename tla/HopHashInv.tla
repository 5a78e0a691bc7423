----------------------------- MODULE HopHashInv -----------------------------
(***************************************************************************)
(* The inductive invariant of HopHash.  It says, for every point that an   *)
(* operation or a recovery can have reached, which lines of the table may  *)
(* differ from persistent memory and how, and what the owners, the content *)
(* states and the keys have to do with one another there.                  *)
(***************************************************************************)
EXTENDS HopHash

\* An owner's positions lead to whole elements whose home it is, ...
HomeOK(t, m) ==
  \A o \in 0 .. m - 1 : \A p \in t[o].owner :
    /\ t[add_small(o, p, m)].key \in Key
    /\ bucket_ix(t[add_small(o, p, m)].key, m) = o

\* ... no two of them with one key.
UniqueOK(t, m) ==
  \A o \in 0 .. m - 1 : \A p, q \in t[o].owner :
    t[add_small(o, p, m)].key = t[add_small(o, q, m)].key => p = q

\* Outside X the content states are what the owners say.
StatesOK(t, m, X) ==
  \A b \in (0 .. m - 1) \ X : t[b].state = "IN_USE" <=> owned_by_owner_mask(t, b, m)

AbsentOK(t, k, m) ==
  \A p \in t[bucket_ix(k, m)].owner : t[add_small(bucket_ix(k, m), p, m)].key # k

\* A content marked IN_USE is whole.
WholeOK(t) == \A b \in Index : t[b].state = "IN_USE" => t[b].key \in Key

\* Lines outside X are in persistent memory as the processor sees them.
Same(X) == \A b \in Index \ X : pline[b] = line[b]

\* The content part of a line in memory may lag behind; the owner does not.
SameOwner(b) == pline[b].owner = line[b].owner

SameContent(b) == pline[b].state = line[b].state /\ pline[b].key = line[b].key

Table(X) == HomeOK(line, n) /\ UniqueOK(line, n) /\ StatesOK(line, n, X)

-----------------------------------------------------------------------------
\* The counters.

Hopping == {"hop_unstable", "hop_src", "hop_dst", "hop_owner", "hop_stable"}

Inserting == {"ins_unstable", "ins_content", "ins_owner", "ins_stable"}

Erasing == {"del_unstable", "del_owner", "del_content", "del_stable"}

Doubling == {"rsz_marked", "pass2", "pass2_adjusted"}

\* Destabilized, but perhaps not yet in memory.
Entering == {"hop_unstable", "ins_unstable", "del_unstable"}

Unstable == {"hop_src", "hop_dst", "hop_owner", "ins_content", "ins_owner", "del_owner",
             "del_content", "scan_states"}

\* Stabilized, but perhaps not yet in memory.
Leaving == {"hop_stable", "ins_stable", "del_stable", "scan_size"}

SizeOK ==
  /\ pc \in Entering => size.unst = 1 /\ psize \in {size, stabilize(size)}
  /\ pc \in Unstable => size.unst = 1 /\ psize = size
  /\ pc \in Leaving => size.unst = 0 /\ (psize = size \/ psize.unst = 1)
  /\ pc \notin Entering \cup Unstable \cup Leaving => psize = size
  /\ pc \notin Entering \cup Unstable \cup {"recover", "scan"} => size.unst = 0
  /\ count.unst = 1 \/ pcount.unst = 1 => size.unst = 0 /\ psize.unst = 0

CountOK ==
  /\ count.unst = 1 \/ pc \in {"resize", "rsz_copied"} => count.val < SegmentCapacity
  /\ pc \in Doubling => count.unst = 1
  /\ pc \notin Doubling \cup {"recover"} => count.unst = 0
  /\ pc = "rsz_marked" => pcount \in {count, stabilize(count)}
  /\ pc = "rsz_done" => pcount = count \/ (count.val > 1 /\ pcount = [val |-> count.val - 1, unst |-> 1])
  /\ pc \notin {"rsz_marked", "rsz_done"} => pcount = count

SegmentsOK ==
  /\ 0 .. count.val - 1 \subseteq sc \cap psc
  /\ count.unst = 1 => count.val \in sc \cap psc
  /\ pc = "rsz_copied" => count.val \in sc

KeyedOK ==
  pc \in {"try", "space", "find", "resize"} \cup Hopping \cup Inserting \cup Erasing => op.key \in Key

-----------------------------------------------------------------------------
\* One conjunct for each group of points.

QuietOK ==
  pc \in {"idle", "ret", "try", "find", "resize", "scan_size"} => Table({}) /\ Same({})

SpaceOK ==
  pc = "space" =>
    /\ Table({}) /\ Same({}) /\ AbsentOK(line, op.key, n)
    /\ op.dst < n /\ line[op.dst].state = "FREE"

HopOK ==
  pc \in Hopping =>
    /\ op.dst < n /\ op.src < n /\ op.own < n /\ op.dst # op.src
    /\ AbsentOK(line, op.key, n)
    /\ distance_wrapped(op.own, op.dst, n) \in Position
    /\ distance_wrapped(op.own, op.src, n) \in Position
    /\ line[op.dst].key = line[op.src].key
    /\ Table(CASE pc = "hop_src" -> {op.src} [] pc = "hop_dst" -> {op.src, op.dst} [] OTHER -> {})
    /\ pc \in {"hop_unstable", "hop_src", "hop_dst"} =>
         /\ distance_wrapped(op.own, op.src, n) \in line[op.own].owner
         /\ distance_wrapped(op.own, op.dst, n) \notin line[op.own].owner
         /\ SameOwner(op.dst)
    /\ pc \in {"hop_owner", "hop_stable"} =>
         /\ distance_wrapped(op.own, op.dst, n) \in line[op.own].owner
         /\ distance_wrapped(op.own, op.src, n) \notin line[op.own].owner
    /\ pc = "hop_unstable" => Same({op.dst}) /\ pline[op.dst].state = "FREE"
    /\ pc \in {"hop_unstable", "hop_src"} => line[op.dst].state = "FREE"
    /\ pc = "hop_src" => /\ Same({op.dst, op.src})
                         /\ pline[op.dst].state = "FREE"
                         /\ SameOwner(op.src) /\ pline[op.src].key = line[op.src].key
    /\ pc # "hop_unstable" => line[op.src].state = "FREE"
    /\ pc \in {"hop_dst", "hop_owner", "hop_stable"} => line[op.dst].state = "IN_USE"
    /\ pc = "hop_dst" => Same({op.dst})
    /\ pc = "hop_owner" =>
         /\ Same({op.own}) /\ SameContent(op.own)
         /\ pline[op.own].owner \in
              {line[op.own].owner,
               move(line[op.own].owner, distance_wrapped(op.own, op.src, n),
                    distance_wrapped(op.own, op.dst, n))}
    /\ pc = "hop_stable" => Same({})

InsertOK ==
  pc \in Inserting =>
    /\ op.dst < n /\ line[op.dst].key = op.key
    /\ distance_wrapped(home, op.dst, n) \in Position
    /\ Table(IF pc = "ins_content" THEN {op.dst} ELSE {})
    /\ pc \in {"ins_unstable", "ins_content"} =>
         /\ AbsentOK(line, op.key, n)
         /\ Same({op.dst}) /\ SameOwner(op.dst)
    /\ pc = "ins_unstable" => line[op.dst].state = "FREE" /\ pline[op.dst].state = "FREE"
    /\ pc # "ins_unstable" => line[op.dst].state = "IN_USE"
    /\ pc \in {"ins_owner", "ins_stable"} => distance_wrapped(home, op.dst, n) \in line[home].owner
    /\ pc = "ins_owner" =>
         /\ Same({home}) /\ SameContent(home)
         /\ pline[home].owner \in {line[home].owner,
                                   line[home].owner \ {distance_wrapped(home, op.dst, n)}}
    /\ pc = "ins_stable" => Same({})

EraseOK ==
  pc \in Erasing =>
    /\ op.src < n
    /\ distance_wrapped(home, op.src, n) \in Position
    /\ Table(IF pc = "del_owner" THEN {op.src} ELSE {})
    /\ pc \in {"del_unstable", "del_owner"} => line[op.src].key = op.key /\ line[op.src].state = "IN_USE"
    /\ pc = "del_unstable" => Same({}) /\ distance_wrapped(home, op.src, n) \in line[home].owner
    /\ pc # "del_unstable" => AbsentOK(line, op.key, n)
    /\ pc = "del_owner" =>
         /\ Same({home}) /\ SameContent(home)
         /\ pline[home].owner \in {line[home].owner,
                                   line[home].owner \cup {distance_wrapped(home, op.src, n)}}
    /\ pc \in {"del_content", "del_stable"} => line[op.src].state = "FREE"
    /\ pc = "del_content" => Same({op.src}) /\ SameOwner(op.src)
    /\ pc = "del_stable" => Same({})

RecoverOK ==
  /\ pc \in {"recover", "scan"} /\ count.unst = 0 =>
       /\ HomeOK(line, n) /\ UniqueOK(line, n) /\ Same({})
       /\ size.unst = 0 => StatesOK(line, n, {})
  /\ pc = "scan_states" =>
       /\ Table({})
       /\ \A b \in Index : SameOwner(b) /\ (pline[b].key = line[b].key \/ ~owned_by_owner_mask(line, b, n))
       /\ Same(0 .. n - 1)

-----------------------------------------------------------------------------
\* The doubling of a table of m buckets.

\* The key of the element at a pair of buckets, or NoKey.
PairKey(t, m, ix) ==
  IF t[m + ix].state = "IN_USE" THEN t[m + ix].key
  ELSE IF t[ix].state = "IN_USE" THEN t[ix].key ELSE NoKey

PairPlace(t, m, ix) == IF t[m + ix].state = "IN_USE" THEN m + ix ELSE ix

\* Each element is within reach of its old home, and in the bucket of the pair
\* within reach of its new one; no two elements have one key.
PairsOK(t, m) ==
  /\ \A ix \in 0 .. m - 1 :
       LET k == PairKey(t, m, ix)
       IN k # NoKey =>
            /\ k \in Key
            /\ distance_wrapped(bucket_ix(k, m), ix, m) \in Position
            /\ distance_wrapped(bucket_ix(k, 2 * m), PairPlace(t, m, ix), 2 * m) \in Position
  /\ \A i, j \in 0 .. m - 1 :
       PairKey(t, m, i) = PairKey(t, m, j) /\ PairKey(t, m, i) # NoKey => i = j

\* Senior owners lead to elements of their old home, junior owners to elements
\* of their new home, and the element that keeps its home keeps its position.
OwnersOK(t, m) ==
  /\ \A o \in 0 .. m - 1 : \A p \in t[o].owner :
       LET k == PairKey(t, m, add_small(o, p, m)) IN k \in Key /\ bucket_ix(k, m) = o
  /\ \A o \in 0 .. m - 1 : \A p \in t[m + o].owner :
       LET k == PairKey(t, m, add_small(o, p, m)) IN k \in Key /\ bucket_ix(k, 2 * m) = m + o
  /\ \A ix \in 0 .. m - 1 :
       LET k == PairKey(t, m, ix)
       IN k \in Key /\ bucket_ix(k, 2 * m) = bucket_ix(k, m) =>
            distance_wrapped(bucket_ix(k, m), ix, m) \in t[bucket_ix(k, m)].owner

\* Pass 2 is through with the pairs below the bound.
PassedOK(t, m, bound) ==
  \A ix \in 0 .. m - 1 :
    LET k == PairKey(t, m, ix)
        h == bucket_ix(k, m)
        pos == distance_wrapped(h, ix, m)
    IN ix < bound /\ k \in Key =>
         /\ t[m + ix].state = "IN_USE" => t[ix].state = "FREE"
         /\ bucket_ix(k, 2 * m) # h => pos \notin t[h].owner /\ pos \in t[m + h].owner

SamePairs(m) ==
  \A ix \in 0 .. m - 1 :
    /\ PairKey(pline, m, ix) = PairKey(line, m, ix)
    /\ PairPlace(pline, m, ix) = PairPlace(line, m, ix)

\* From the copies of pass 1 to the end of the doubling.
CopiedOK ==
  pc \in {"rsz_copied", "rsz_marked"} =>
    Table({}) /\ Same({}) /\ PairsOK(line, n) /\ OwnersOK(line, n)

PairedOK ==
  count.unst = 1 =>
    /\ PairsOK(line, n) /\ OwnersOK(line, n)
    /\ SamePairs(n) /\ OwnersOK(pline, n) /\ Same(0 .. 2 * n - 1)

RestartOK == pc = "recover" => Same({}) /\ op.ix = 0

PassOK == pc = "pass2" => PassedOK(line, n, op.ix) /\ op.ix <= n

AdjustedOK ==
  pc = "pass2_adjusted" =>
    LET k == PairKey(line, n, op.ix)
        h == bucket_ix(k, n)
        pos == distance_wrapped(h, op.ix, n)
    IN /\ PassedOK(line, n, op.ix) /\ op.ix < n
       /\ k \in Key
       /\ bucket_ix(k, 2 * n) # h => pos \notin line[h].owner /\ pos \in line[n + h].owner

DoubledOK ==
  pc = "rsz_done" =>
    /\ Table({}) /\ Same({})
    /\ pcount.unst = 1 =>
         PairsOK(line, bucket_count(pcount.val)) /\ OwnersOK(line, bucket_count(pcount.val))

DoublingOK == CopiedOK /\ PairedOK /\ RestartOK /\ PassOK /\ AdjustedOK /\ DoubledOK

IInv ==
  /\ TypeOK /\ SizeOK /\ CountOK /\ SegmentsOK /\ KeyedOK
  /\ WholeOK(line) /\ WholeOK(pline)
  /\ QuietOK /\ SpaceOK /\ HopOK /\ InsertOK /\ EraseOK /\ RecoverOK /\ DoublingOK

-----------------------------------------------------------------------------
\* What the table has to do with the map it implements.

\* The call in progress, if any: its key, its result once it has one, and the
\* mark it has left in the table.
CallOK ==
  /\ pc \in {"idle", "recover", "scan", "scan_states", "scan_size"} => op.key = NoKey
  /\ pc = "ret" => op.key \in Key /\ op.res # "none"
  /\ pc # "ret" => op.res = "none"
  /\ op.res = "inserted" => op.key \in Keys(line, count)
  /\ op.res = "erased" => op.key \notin Keys(line, count)

\* Two contents of one pair that are both in use are copies of one element.
TwinsOK(t, m) ==
  \A ix \in 0 .. m - 1 :
    t[ix].state = "IN_USE" /\ t[m + ix].state = "IN_USE" => t[m + ix].key = t[ix].key

\* Pass 1 copies elements and adds none; pass 2 frees one of two copies.
CopiesOK ==
  /\ pc \in {"rsz_copied", "rsz_marked"} =>
       \A ix \in 0 .. n - 1 : line[n + ix].state = "IN_USE" =>
         line[ix].state = "IN_USE" /\ line[n + ix].key = line[ix].key
  /\ count.unst = 1 => TwinsOK(line, n)
  /\ pcount.unst = 1 => TwinsOK(pline, bucket_count(pcount.val))

\* The elements that the owners show and the count does not, or the reverse.
Uncounted ==
  CASE pc = "ins_owner" -> -1 [] pc \in {"del_owner", "del_content"} -> 1 [] OTHER -> 0

\* A size that recovery need not compute again is the number of elements.
ElementsOK ==
  size.unst = 0 \/ pc \notin {"recover", "scan", "scan_states"} =>
    size.val = Cardinality(Keys(line, count)) + Uncounted

MapInv == CallOK /\ CopiesOK /\ ElementsOK

=============================================================================
