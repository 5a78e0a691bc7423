-------------------------- MODULE HopDoubleProofs ---------------------------
(***************************************************************************)
(* resize preserves the inductive invariant: the pairs of buckets that pass 1 *)
(* makes, the owners that pass 2 adjusts pair by pair, and the sound table of *)
(* twice the size that is left when it is through.                         *)
(***************************************************************************)
EXTENDS HopStepProofs

\* Pairs and owners depend only on the owners and on what the pairs hold.
LEMMA KeepPairs ==
  ASSUME NEW t, NEW u, NEW m \in Nat,
         \A ix \in 0 .. m - 1 : PairKey(u, m, ix) = PairKey(t, m, ix) /\ PairPlace(u, m, ix) = PairPlace(t, m, ix)
  PROVE  PairsOK(t, m) => PairsOK(u, m)
<1> HAVE PairsOK(t, m)
<1>1. ASSUME NEW ix \in 0 .. m - 1, PairKey(u, m, ix) # NoKey
      PROVE  /\ PairKey(u, m, ix) \in Key
             /\ distance_wrapped(bucket_ix(PairKey(u, m, ix), m), ix, m) \in Position
             /\ distance_wrapped(bucket_ix(PairKey(u, m, ix), 2 * m), PairPlace(u, m, ix), 2 * m) \in Position
  BY <1>1 DEF PairsOK
<1>2. ASSUME NEW i \in 0 .. m - 1, NEW j \in 0 .. m - 1,
             PairKey(u, m, i) = PairKey(u, m, j), PairKey(u, m, i) # NoKey
      PROVE  i = j
  BY <1>2 DEF PairsOK
<1> QED BY <1>1, <1>2 DEF PairsOK

\* A table each of whose lines is as in one or as in the other of two tables
\* whose pairs hold the same: what the cache leaves in memory during pass 2.
LEMMA MixPairs ==
  ASSUME NEW t, NEW s, NEW u, NEW m \in Nat \ {0},
         \A b \in 0 .. 2 * m - 1 : u[b] = t[b] \/ u[b] = s[b],
         \A ix \in 0 .. m - 1 : PairKey(s, m, ix) = PairKey(t, m, ix) /\ PairPlace(s, m, ix) = PairPlace(t, m, ix)
  PROVE  \A ix \in 0 .. m - 1 : PairKey(u, m, ix) = PairKey(t, m, ix) /\ PairPlace(u, m, ix) = PairPlace(t, m, ix)
<1> TAKE ix \in 0 .. m - 1
<1>1. ix \in 0 .. 2 * m - 1 /\ m + ix \in 0 .. 2 * m - 1 /\ ix # m + ix
  OBVIOUS
<1>2. (u[ix] = t[ix] \/ u[ix] = s[ix]) /\ (u[m + ix] = t[m + ix] \/ u[m + ix] = s[m + ix])
  BY <1>1
<1>3. PairKey(s, m, ix) = PairKey(t, m, ix) /\ PairPlace(s, m, ix) = PairPlace(t, m, ix)
  OBVIOUS
<1> QED BY <1>1, <1>2, <1>3 DEF PairKey, PairPlace

\* The owners of such a table lead where they should.
LEMMA MixOwners ==
  ASSUME NEW t \in Tables, NEW s \in Tables, NEW u \in Tables, NEW m, TableSize(m), TableSize(2 * m),
         \A b \in 0 .. 2 * m - 1 : u[b].owner = t[b].owner \/ u[b].owner = s[b].owner,
         \A ix \in 0 .. m - 1 : PairKey(s, m, ix) = PairKey(t, m, ix),
         \A ix \in 0 .. m - 1 : PairKey(u, m, ix) = PairKey(t, m, ix),
         OwnersOK(t, m), OwnersOK(s, m)
  PROVE  OwnersOK(u, m)
<1>0. m \in Nat \ {0}
  BY DEF TableSize
<1>1. ASSUME NEW o \in 0 .. m - 1, NEW p \in u[o].owner
      PROVE  PairKey(u, m, add_small(o, p, m)) \in Key /\ bucket_ix(PairKey(u, m, add_small(o, p, m)), m) = o
  <2>1. o \in 0 .. 2 * m - 1 /\ (p \in t[o].owner \/ p \in s[o].owner)
    BY <1>0, <1>1
  <2>2. add_small(o, p, m) \in 0 .. m - 1
    BY <1>1, TableType, AddDistance
  <2> QED BY <2>1, <2>2 DEF OwnersOK
<1>2. ASSUME NEW o \in 0 .. m - 1, NEW p \in u[m + o].owner
      PROVE  PairKey(u, m, add_small(o, p, m)) \in Key /\ bucket_ix(PairKey(u, m, add_small(o, p, m)), 2 * m) = m + o
  <2>1. m + o \in 0 .. 2 * m - 1
    BY <1>0
  <2>2. p \in t[m + o].owner \/ p \in s[m + o].owner
    BY <1>2, <2>1
  <2>3. p \in Position
    BY <1>2, <2>1, TableType
  <2>4. add_small(o, p, m) \in 0 .. m - 1
    BY <2>3, AddDistance
  <2> QED BY <2>2, <2>4 DEF OwnersOK
<1>3. ASSUME NEW ix \in 0 .. m - 1, PairKey(u, m, ix) \in Key,
             bucket_ix(PairKey(u, m, ix), 2 * m) = bucket_ix(PairKey(u, m, ix), m)
      PROVE  distance_wrapped(bucket_ix(PairKey(u, m, ix), m), ix, m) \in u[bucket_ix(PairKey(u, m, ix), m)].owner
  <2> DEFINE h == bucket_ix(PairKey(u, m, ix), m)
  <2>1. h \in 0 .. m - 1
    BY <1>0, <1>3, BucketIxType
  <2>2. distance_wrapped(h, ix, m) \in t[h].owner /\ distance_wrapped(h, ix, m) \in s[h].owner
    BY <1>3 DEF OwnersOK
  <2>3. u[h].owner = t[h].owner \/ u[h].owner = s[h].owner
    BY <1>0, <2>1
  <2> QED BY <2>2, <2>3
<1> QED BY <1>1, <1>2, <1>3 DEF OwnersOK

\* While a doubling is under way the table of twice the size fits.
LEMMA DoubleTyping ==
  ASSUME IInv, count.unst = 1
  PROVE  /\ line \in Tables /\ pline \in Tables /\ n \in Nat \ {0} /\ TableSize(n) /\ TableSize(2 * n)
         /\ 0 .. 2 * n - 1 \subseteq Index /\ 2 * n = bucket_count(count.val + 1)
<1>1. count.val \in 1 .. SegmentCapacity /\ count.val + 1 \in 1 .. SegmentCapacity
  BY SizesAssumption DEF IInv, TypeOK, CountOK, Count
<1>2. 2 * n = bucket_count(count.val + 1)
  BY <1>1, BucketCountDoubles DEF n
<1>3. TableSize(2 * n)
  BY <1>1, <1>2, BucketCountIsTableSize
<1>4. line \in Tables /\ pline \in Tables /\ n \in Nat \ {0} /\ TableSize(n)
  BY Typing DEF IInv
<1>5. 0 .. 2 * n - 1 \subseteq Index
  BY <1>3, <1>4, TableType
<1> QED BY <1>2, <1>3, <1>4, <1>5

-----------------------------------------------------------------------------
\* resize_prolog and resize_pass1

\* What an element's position in a table of m buckets says of its position in
\* one of 2m: pass 1 leaves it where it is, or puts it in the paired bucket,
\* so that its new home reaches it at the same distance.
LEMMA PairReach ==
  ASSUME NEW m, TableSize(m), NEW h \in 0 .. m - 1, NEW ix \in 0 .. m - 1, NEW e \in {h, m + h},
         distance_wrapped(h, ix, m) \in Position
  PROVE  /\ ~(e <= ix /\ ix < e + OwnerSize) /\ ~(ix < OwnerSize /\ m * 2 < e + OwnerSize) =>
              distance_wrapped(e, m + ix, 2 * m) = distance_wrapped(h, ix, m)
         /\ (e <= ix /\ ix < e + OwnerSize) \/ (ix < OwnerSize /\ m * 2 < e + OwnerSize) =>
              distance_wrapped(e, ix, 2 * m) = distance_wrapped(h, ix, m)
<1>1. m \in Nat /\ 2 * OwnerSize <= m /\ OwnerSize \in Nat \ {0}
  BY SizesAssumption DEF TableSize
<1>2. CASE h <= ix /\ e = h
  BY <1>1, <1>2 DEF distance_wrapped, Position
<1>3. CASE h <= ix /\ e = m + h
  BY <1>1, <1>3 DEF distance_wrapped, Position
<1>4. CASE ix < h /\ e = h
  BY <1>1, <1>4 DEF distance_wrapped, Position
<1>5. CASE ix < h /\ e = m + h
  BY <1>1, <1>5 DEF distance_wrapped, Position
<1> QED BY <1>1, <1>2, <1>3, <1>4, <1>5

\* The place of a pair that the new home reaches is the one its position names.
LEMMA PlaceOf ==
  ASSUME NEW m, TableSize(m), NEW o \in 0 .. m - 1, NEW p \in Position, NEW e \in {o, m + o},
         NEW place \in {add_small(o, p, m), m + add_small(o, p, m)},
         distance_wrapped(e, place, 2 * m) \in Position
  PROVE  place = add_small(e, p, 2 * m)
<1>1. m \in Nat /\ 2 * OwnerSize <= m /\ OwnerSize \in Nat \ {0} /\ p \in Nat /\ p < OwnerSize
  BY SizesAssumption DEF TableSize, Position
<1>2. CASE o + p < m
  BY <1>1, <1>2 DEF distance_wrapped, Position, add_small
<1>3. CASE ~(o + p < m)
  BY <1>1, <1>3 DEF distance_wrapped, Position, add_small
<1> QED BY <1>2, <1>3

\* The home in the doubled table is the old home or the bucket paired with it.
LEMMA ExpandedIx ==
  ASSUME NEW k \in Key, NEW m \in Nat \ {0}
  PROVE  /\ bucket_expanded_ix(k, m) = bucket_ix(k, 2 * m)
         /\ bucket_ix(k, 2 * m) \in {bucket_ix(k, m), m + bucket_ix(k, m)}
<1>1. Hash[k] \in Nat
  BY HashAssumption
<1>2. Hash[k] % (2 * m) = Hash[k] % m \/ Hash[k] % (2 * m) = m + (Hash[k] % m)
  BY <1>1, ModDouble
<1> QED BY <1>2 DEF bucket_ix, bucket_expanded_ix

\* resize_pass1 copies exactly the contents whose new home is out of reach.
LEMMA ResizePass1Step ==
  ASSUME IInv, Counters', ResizePass1
  PROVE  TypeOK' /\ Whole' /\ Phases'
<1>1. pc = "resize" /\ pc' = "rsz_copied" /\ n' = n /\ UNCHANGED <<size, psize, count, pcount, psc, heap, op>>
  BY ZenonT(60) DEF ResizePass1, n
<1>2. TypeOK /\ HomeOK(line, n) /\ UniqueOK(line, n) /\ StatesOK(line, n, {}) /\ Same({})
      /\ count.val < SegmentCapacity /\ WholeOK(line)
  BY <1>1 DEF IInv, QuietOK, Table, CountOK
<1>3. line \in Tables /\ pline \in Tables /\ n \in Nat \ {0} /\ TableSize(n) /\ TableSize(2 * n)
      /\ 0 .. 2 * n - 1 \subseteq Index
  <2>1. count.val \in 1 .. SegmentCapacity /\ count.val + 1 \in 1 .. SegmentCapacity
    BY <1>2, SizesAssumption DEF TypeOK, Count
  <2>2. TableSize(2 * n)
    BY <2>1, BucketCountDoubles, BucketCountIsTableSize DEF n
  <2>3. line \in Tables /\ pline \in Tables /\ n \in Nat \ {0} /\ TableSize(n)
    BY <1>2, Typing
  <2> QED BY <2>2, <2>3, TableType
<1>4. \A b \in Index :
        /\ b < n \/ 2 * n <= b => line'[b] = line[b] /\ pline'[b] = pline[b]
        /\ ~(b < n \/ 2 * n <= b) =>
             /\ pline'[b] = line'[b]
             /\ Relocates(b - n) => line'[b] = [Blank EXCEPT !.state = "IN_USE", !.key = line[b - n].key]
             /\ ~Relocates(b - n) => line'[b] = Blank
  BY ZenonT(60) DEF ResizePass1
<1>5. \A ix \in 0 .. n - 1 :
        /\ ix \in Index /\ line'[ix] = line[ix] /\ pline'[ix] = pline[ix]
        /\ n + ix \in Index /\ pline'[n + ix] = line'[n + ix]
        /\ Relocates(ix) => line'[n + ix] = [Blank EXCEPT !.state = "IN_USE", !.key = line[ix].key]
        /\ ~Relocates(ix) => line'[n + ix] = Blank
  <2> TAKE ix \in 0 .. n - 1
  <2>1. ix < n /\ ix \in Index /\ n + ix \in Index /\ ~(n + ix < n \/ 2 * n <= n + ix) /\ (n + ix) - n = ix
    BY <1>3
  <2>2. line'[ix] = line[ix] /\ pline'[ix] = pline[ix]
    BY ZenonT(60), <1>4, <2>1
  <2>3. /\ pline'[n + ix] = line'[n + ix]
        /\ Relocates(ix) => line'[n + ix] = [Blank EXCEPT !.state = "IN_USE", !.key = line[ix].key]
        /\ ~Relocates(ix) => line'[n + ix] = Blank
    BY ZenonT(60), <1>4, <2>1
  <2> QED BY ZenonT(60), <2>1, <2>2, <2>3
<1>6. \A ix \in 0 .. n - 1 :
        /\ line'[n + ix].owner = {}
        /\ Relocates(ix) => line'[n + ix].state = "IN_USE" /\ line'[n + ix].key = line[ix].key
        /\ ~Relocates(ix) => line'[n + ix].state = "FREE"
  <2> TAKE ix \in 0 .. n - 1
  <2>1. CASE Relocates(ix)
    <3>1. line'[n + ix] = [Blank EXCEPT !.state = "IN_USE", !.key = line[ix].key]
      BY ZenonT(60), <1>5, <2>1
    <3> QED BY <2>1, <3>1 DEF Blank
  <2>2. CASE ~Relocates(ix)
    <3>1. line'[n + ix] = Blank
      BY ZenonT(60), <1>5, <2>2
    <3> QED BY <2>2, <3>1 DEF Blank
  <2> QED BY <2>1, <2>2
<1>7. line' \in Tables
  <2>1. \A ix \in 0 .. n - 1 : [Blank EXCEPT !.state = "IN_USE", !.key = line[ix].key] \in Bucket /\ Blank \in Bucket
    BY ZenonT(60), <1>3, <1>5 DEF Blank, Bucket, ContentState, Tables
  <2>2. \A b \in Index : ~(b < n \/ 2 * n <= b) => b - n \in 0 .. n - 1
    BY <1>3, MaxBucketsType DEF Index
  <2>3. ASSUME NEW b \in Index PROVE line'[b] \in Bucket
    <3>1. CASE b < n \/ 2 * n <= b
      BY ZenonT(60), <1>3, <1>4, <3>1 DEF Tables
    <3>2. CASE ~(b < n \/ 2 * n <= b)
      <4>1. b - n \in 0 .. n - 1
        BY <2>2, <3>2
      <4>2. line'[b] \in {[Blank EXCEPT !.state = "IN_USE", !.key = line[b - n].key], Blank}
        BY ZenonT(60), <1>4, <3>2
      <4> QED BY ZenonT(60), <2>1, <4>1, <4>2
    <3> QED BY <3>1, <3>2
  <2>4. line' = [b \in Index |-> line'[b]]
    BY ZenonT(60) DEF ResizePass1
  <2> QED BY <2>3, <2>4 DEF Tables
<1>8. pline' \in Tables /\ \A b \in Index : pline'[b] = line'[b]
  <2>1. \A b \in Index : pline'[b] = line'[b]
    BY ZenonT(60), <1>2, <1>4 DEF Same
  <2>2. pline' = [b \in Index |-> pline'[b]]
    BY ZenonT(60) DEF ResizePass1
  <2> QED BY <1>7, <2>1, <2>2 DEF Tables
<1>9. TypeOK'
  <2>1. sc' \subseteq Segment
    <3>1. count.val \in Segment
      BY <1>2, SizesAssumption DEF TypeOK, Count, Segment
    <3> QED BY ZenonT(60), <1>2, <3>1 DEF ResizePass1, TypeOK
  <2> QED BY <1>1, <1>2, <1>7, <1>8, <2>1 DEF TypeOK, Tables, Pc
<1>10. WholeOK(line')
  <2> SUFFICES ASSUME NEW b \in Index, line'[b].state = "IN_USE" PROVE line'[b].key \in Key
    BY DEF WholeOK
  <2>1. CASE b < n \/ 2 * n <= b
    BY ZenonT(60), <1>2, <1>4, <2>1 DEF WholeOK
  <2>2. CASE ~(b < n \/ 2 * n <= b)
    <3>1. b - n \in 0 .. n - 1 /\ b = n + (b - n)
      BY <1>3, <2>2, MaxBucketsType DEF Index
    <3>2. Relocates(b - n) /\ line'[b].key = line[b - n].key
      BY <1>6, <3>1
    <3>3. line[b - n].state = "IN_USE"
      <4>1. line[b - n].state \in ContentState
        BY <1>3, <3>1, TableType
      <4> QED BY <3>2, <4>1 DEF Relocates, is_free, ContentState
    <3> QED BY ZenonT(60), <1>2, <1>5, <3>1, <3>2, <3>3 DEF WholeOK
  <2> QED BY <2>1, <2>2
<1>11. Whole'
  BY <1>8, <1>10 DEF Whole, WholeOK
<1>12. HomeOK(line', n) /\ UniqueOK(line', n)
  <2>1. \A b \in 0 .. n - 1 : line'[b].owner = line[b].owner /\ line'[b].key = line[b].key
    BY ZenonT(60), <1>5
  <2> QED BY <1>2, <1>3, <1>7, <2>1, KeepTable
<1>13. StatesOK(line', n, {})
  <2>1. \A b \in 0 .. n - 1 : line'[b].owner = line[b].owner /\ line'[b].state = line[b].state
    BY ZenonT(60), <1>5
  <2> QED BY <1>2, <1>3, <1>7, <2>1, KeepStates
\* The element of a pair, and where it lies.
<1>14. ASSUME NEW ix \in 0 .. n - 1, line[ix].state = "IN_USE"
       PROVE  \E p \in Position :
                /\ line[ix].key \in Key
                /\ p = distance_wrapped(bucket_ix(line[ix].key, n), ix, n)
                /\ p \in line[bucket_ix(line[ix].key, n)].owner
                /\ ix = add_small(bucket_ix(line[ix].key, n), p, n)
                /\ bucket_ix(line[ix].key, n) \in 0 .. n - 1
  <2>1. owned_by_owner_mask(line, ix, n)
    BY <1>2, <1>14 DEF StatesOK
  <2>0. PICK o \in 0 .. n - 1 : \E p \in line[o].owner : ix = add_small(o, p, n)
    BY ZenonT(60), <1>3, <2>1, OwnedPosition
  <2>2. PICK p \in line[o].owner : ix = add_small(o, p, n)
    BY <2>0
  <2>3. line[ix].key \in Key /\ bucket_ix(line[ix].key, n) = o
    BY <1>2, <2>2 DEF HomeOK
  <2>4. p \in Position
    BY <1>3, <2>2, TableType
  <2>5. p = distance_wrapped(o, ix, n)
    BY <1>3, <2>2, <2>4, AddDistance
  <2> QED BY <2>2, <2>3, <2>4, <2>5
<1>15. \A ix \in 0 .. n - 1 : PairKey(line', n, ix) = IF line[ix].state = "IN_USE" THEN line[ix].key ELSE NoKey
  <2> TAKE ix \in 0 .. n - 1
  <2>1. line'[ix] = line[ix]
    BY ZenonT(60), <1>5
  <2>2. line'[n + ix].state = "IN_USE" => line[ix].state = "IN_USE" /\ line'[n + ix].key = line[ix].key
    BY ZenonT(30), <1>3, <1>6, TableType DEF Relocates, is_free, ContentState
  <2> QED BY <2>1, <2>2 DEF PairKey
<1>16. PairsOK(line', n)
  <2>1. ASSUME NEW ix \in 0 .. n - 1, PairKey(line', n, ix) # NoKey
        PROVE  /\ PairKey(line', n, ix) \in Key
               /\ distance_wrapped(bucket_ix(PairKey(line', n, ix), n), ix, n) \in Position
               /\ distance_wrapped(bucket_ix(PairKey(line', n, ix), 2 * n), PairPlace(line', n, ix), 2 * n) \in Position
    <3> DEFINE k == line[ix].key
               h == bucket_ix(k, n)
               e == bucket_ix(k, 2 * n)
    <3>1. line[ix].state = "IN_USE" /\ PairKey(line', n, ix) = k
      BY <1>15, <2>1
    <3>2. k \in Key /\ distance_wrapped(h, ix, n) \in Position /\ h \in 0 .. n - 1
      BY <1>14, <3>1
    <3>3. bucket_expanded_ix(k, n) = e /\ e \in {h, n + h}
      BY <1>3, <3>2, ExpandedIx
    <3>4. Relocates(ix) <=> ~(e <= ix /\ ix < e + OwnerSize) /\ ~(ix < OwnerSize /\ n * 2 < e + OwnerSize)
      BY <3>1, <3>3 DEF Relocates, is_free
    <3> HIDE DEF k, h, e
    <3>5. distance_wrapped(e, IF Relocates(ix) THEN n + ix ELSE ix, 2 * n) = distance_wrapped(h, ix, n)
      <4>1. CASE Relocates(ix)
        BY ZenonT(30), <1>3, <3>2, <3>3, <3>4, <4>1, PairReach
      <4>2. CASE ~Relocates(ix)
        BY ZenonT(30), <1>3, <3>2, <3>3, <3>4, <4>2, PairReach
      <4> QED BY <4>1, <4>2
    <3>6. PairPlace(line', n, ix) = IF Relocates(ix) THEN n + ix ELSE ix
      BY <1>6 DEF PairPlace
    <3> QED BY <3>1, <3>2, <3>5, <3>6 DEF h, e
  <2>2. ASSUME NEW i \in 0 .. n - 1, NEW j \in 0 .. n - 1,
               PairKey(line', n, i) = PairKey(line', n, j), PairKey(line', n, i) # NoKey
        PROVE  i = j
    <3>1. line[i].state = "IN_USE" /\ line[j].state = "IN_USE" /\ line[i].key = line[j].key
      BY <1>15, <2>2
    <3> DEFINE h == bucket_ix(line[i].key, n)
    <3>2. PICK p \in Position : p \in line[h].owner /\ i = add_small(h, p, n) /\ h \in 0 .. n - 1
      BY <1>14, <3>1
    <3>3. PICK q \in Position : q \in line[h].owner /\ j = add_small(h, q, n)
      BY <1>14, <3>1
    <3> QED BY ZenonT(60), <1>2, <3>1, <3>2, <3>3 DEF UniqueOK
  <2> QED BY <2>1, <2>2 DEF PairsOK
<1>17. OwnersOK(line', n)
  <2>1. ASSUME NEW o \in 0 .. n - 1, NEW p \in line'[o].owner
        PROVE  PairKey(line', n, add_small(o, p, n)) \in Key /\ bucket_ix(PairKey(line', n, add_small(o, p, n)), n) = o
    <3>1. p \in line[o].owner
      BY ZenonT(60), <1>5, <2>1
    <3>2. add_small(o, p, n) \in 0 .. n - 1
      BY <1>3, <3>1, TableType, AddDistance
    <3>3. owned_by_owner_mask(line, add_small(o, p, n), n)
      BY <1>3, <3>1, <3>2, OwnedPosition
    <3>4. line[add_small(o, p, n)].state = "IN_USE"
      BY ZenonT(30), <1>2, <3>2, <3>3 DEF StatesOK
    <3> QED BY <1>2, <1>15, <3>1, <3>2, <3>4 DEF HomeOK
  <2>2. ASSUME NEW ix \in 0 .. n - 1, PairKey(line', n, ix) \in Key
        PROVE  distance_wrapped(bucket_ix(PairKey(line', n, ix), n), ix, n) \in line'[bucket_ix(PairKey(line', n, ix), n)].owner
    <3>1. line[ix].state = "IN_USE" /\ PairKey(line', n, ix) = line[ix].key
      BY <1>15, <2>2, MarkersAreNotKeys
    <3>2. PICK p \in Position :
            /\ p = distance_wrapped(bucket_ix(line[ix].key, n), ix, n)
            /\ p \in line[bucket_ix(line[ix].key, n)].owner
            /\ bucket_ix(line[ix].key, n) \in 0 .. n - 1
      BY <1>14, <3>1
    <3>3. line'[bucket_ix(line[ix].key, n)] = line[bucket_ix(line[ix].key, n)]
      BY ZenonT(60), <1>5, <3>2
    <3> QED BY <3>1, <3>2, <3>3
  <2> QED BY <1>6, <2>1, <2>2 DEF OwnersOK
<1>18. CopiedOK'
  BY ZenonT(30), <1>1, <1>8, <1>12, <1>13, <1>16, <1>17 DEF CopiedOK, Table, Same
<1>19. count'.unst = 0
  BY <1>1 DEF Counters, CountOK, Doubling
<1>20. DoublingOK'
  BY <1>1, <1>18, <1>19 DEF DoublingOK, PairedOK, RestartOK, PassOK, AdjustedOK, DoubledOK
<1> QED BY <1>1, <1>9, <1>11, <1>20, OnlyDoubling

-----------------------------------------------------------------------------
\* resize_interlog and resize_pass2

\* resize_interlog marks the segment count.
LEMMA ResizeInterlogStep ==
  ASSUME IInv, Counters', ResizeInterlog
  PROVE  TypeOK' /\ Whole' /\ Phases'
<1>1. /\ pc = "rsz_copied" /\ pc' = "rsz_marked" /\ count' = destabilize(count)
      /\ UNCHANGED <<line, pline, size, psize, pcount, sc, heap, op>> /\ psc' = sc
  BY DEF ResizeInterlog
<1>2. TypeOK /\ count.unst = 0
  BY <1>1 DEF IInv, CountOK, Doubling
<1>3. count' \in Count /\ count'.val = count.val /\ count'.unst = 1
  BY <1>1, <1>2 DEF TypeOK, Count, destabilize
<1>4. n' = n /\ n \in Nat /\ 0 .. n - 1 \subseteq 0 .. 2 * n - 1
  BY <1>2, <1>3, Typing DEF n
<1>5. TypeOK'
  BY <1>1, <1>2, <1>3 DEF TypeOK, Pc
<1>6. Whole'
  BY <1>1 DEF IInv, Whole, WholeOK
<1>7. Table({}) /\ Same({}) /\ PairsOK(line, n) /\ OwnersOK(line, n)
  BY <1>1 DEF IInv, DoublingOK, CopiedOK
<1>8. line = pline
  BY <1>2, <1>7 DEF Same, TypeOK
<1>9. CopiedOK'
  BY <1>1, <1>4, <1>7 DEF CopiedOK, Table, Same
<1>10. PairedOK'
  BY ZenonT(30), <1>1, <1>4, <1>7, <1>8 DEF PairedOK, SamePairs, Same
<1>11. DoublingOK'
  BY <1>1, <1>9, <1>10 DEF DoublingOK, RestartOK, PassOK, AdjustedOK, DoubledOK
<1> QED BY <1>1, <1>5, <1>6, <1>11, OnlyDoubling DEF Doubling

\* The mark is in memory before pass 2 begins.
LEMMA ResizePass2BeginStep ==
  ASSUME IInv, Counters', ResizePass2Begin
  PROVE  TypeOK' /\ Whole' /\ Phases'
<1>1. /\ pc = "rsz_marked" /\ pc' = "pass2" /\ pcount' = count /\ op' = [op EXCEPT !.ix = 0] /\ n' = n
      /\ UNCHANGED <<line, pline, size, psize, count, sc, psc, heap>>
  BY DEF ResizePass2Begin, n
<1>2. TypeOK /\ PairedOK /\ count.unst = 1
  BY <1>1 DEF IInv, DoublingOK, CountOK, Doubling
<1>3. op' \in Op /\ op'.ix = 0
  BY <1>1, <1>2, MaxBucketsType DEF TypeOK, Op
<1>4. TypeOK'
  BY <1>1, <1>2, <1>3 DEF TypeOK, Pc
<1>5. Whole'
  BY <1>1 DEF IInv, Whole, WholeOK
<1>6. PassedOK(line, n, 0) /\ n \in Nat
  BY <1>2, DoubleTyping DEF PassedOK
<1>7. PassOK'
  BY <1>1, <1>3, <1>6 DEF PassOK
<1>8. PairedOK'
  BY <1>1, <1>2 DEF PairedOK, SamePairs, Same
<1>9. DoublingOK'
  BY <1>1, <1>7, <1>8 DEF DoublingOK, CopiedOK, RestartOK, AdjustedOK, DoubledOK
<1> QED BY <1>1, <1>4, <1>5, <1>9, OnlyDoubling DEF Doubling

\* Pass 2 stays within the table.
LEMMA NextPairType ==
  ASSUME IInv, count.unst = 1, op.ix < n
  PROVE  NextPair \in Op /\ NextPair.ix = op.ix + 1 /\ op.ix \in 0 .. n - 1 /\ op.ix + 1 <= n
<1>1. op \in Op /\ n \in Nat /\ n <= MaxBuckets
  BY DoubleTyping DEF IInv, TypeOK, TableSize
<1>2. op.ix \in 0 .. n - 1 /\ op.ix + 1 \in 0 .. MaxBuckets /\ op.ix + 1 <= n
  BY <1>1, MaxBucketsType DEF Op
<1> QED BY <1>1, <1>2 DEF NextPair, Op

\* The content that pass 2 goes by is the element of the pair.
LEMMA PopulatedPair ==
  ASSUME IInv, count.unst = 1, NEW ix \in 0 .. n - 1
  PROVE  /\ Populated(ix).state = "IN_USE" <=> PairKey(line, n, ix) # NoKey
         /\ Populated(ix).state = "IN_USE" => Populated(ix).key = PairKey(line, n, ix)
                                              /\ PairKey(line, n, ix) \in Key
<1>1. ix \in Index /\ n + ix \in Index
  BY DoubleTyping
<1>2. \A b \in Index : line[b].state = "IN_USE" => line[b].key \in Key
  BY DEF IInv, WholeOK
<1> QED BY ZenonT(60), <1>1, <1>2, MarkersAreNotKeys DEF Populated, PairKey

\* resize_pass2_adjust_owner hands an element over to its new home.
LEMMA ResizePass2Step ==
  ASSUME IInv, Counters', ResizePass2
  PROVE  TypeOK' /\ Whole' /\ Phases'
<1>1. /\ pc = "pass2" /\ op.ix < n /\ n' = n
      /\ UNCHANGED <<pline, size, psize, count, pcount, sc, psc, heap>>
  BY DEF ResizePass2, n
<1>2. /\ TypeOK /\ count.unst = 1 /\ PassedOK(line, n, op.ix)
      /\ PairsOK(line, n) /\ OwnersOK(line, n) /\ SamePairs(n) /\ OwnersOK(pline, n) /\ Same(0 .. 2 * n - 1)
  BY <1>1 DEF IInv, CountOK, Doubling, DoublingOK, PairedOK, PassOK
<1>3. NextPair \in Op /\ NextPair.ix = op.ix + 1 /\ op.ix \in 0 .. n - 1 /\ op.ix + 1 <= n
  BY <1>1, <1>2, NextPairType
<1> DEFINE ix == op.ix
           k == PairKey(line, n, ix)
           h == bucket_ix(k, n)
           pos == distance_wrapped(h, ix, n)
<1>4. CASE Populated(ix).state # "IN_USE"
  <2>1. line' = line /\ pc' = "pass2" /\ op' = NextPair
    BY <1>1, <1>4 DEF ResizePass2
  <2>2. k \notin Key
    BY ZenonT(30), <1>2, <1>3, <1>4, PopulatedPair, MarkersAreNotKeys
  <2>3. PassedOK(line, n, ix + 1)
    <3>1. \A j \in 0 .. n - 1 : j < ix + 1 => j < ix \/ j = ix
      BY <1>3
    <3> QED BY <1>2, <2>2, <3>1 DEF PassedOK
  <2>4. TypeOK'
    BY ZenonT(30), <1>1, <1>2, <1>3, <2>1 DEF TypeOK, Pc
  <2>5. Whole'
    BY <1>1, <2>1 DEF IInv, Whole, WholeOK
  <2>6. PassOK'
    BY <1>1, <1>3, <2>1, <2>3 DEF PassOK
  <2>7. PairedOK'
    BY ZenonT(30), <1>1, <1>2, <2>1 DEF PairedOK, SamePairs, Same
  <2>8. DoublingOK'
    BY <2>1, <2>6, <2>7 DEF DoublingOK, CopiedOK, RestartOK, AdjustedOK, DoubledOK
  <2> QED BY <2>1, <2>4, <2>5, <2>8, OnlyDoubling DEF Doubling
<1>5. CASE Populated(ix).state = "IN_USE"
  <2>1. line' = AdjustOwner(ix) /\ pc' = "pass2_adjusted" /\ op' = op
    BY <1>1, <1>5 DEF ResizePass2
  <2>2. Populated(ix).key = k /\ k \in Key /\ k # NoKey
    BY <1>2, <1>3, <1>5, PopulatedPair
  <2>3. h \in 0 .. n - 1 /\ pos \in Position /\ add_small(h, pos, n) = ix
    <3>1. h \in 0 .. n - 1
      BY <1>2, <2>2, DoubleTyping, BucketIxType
    <3>2. pos \in Position
      BY <1>2, <1>3, <2>2 DEF PairsOK
    <3>3. add_small(h, pos, n) = ix
      BY ZenonT(30), <1>2, <1>3, <3>1, DoubleTyping, DistanceAdd
    <3> QED BY <3>1, <3>2, <3>3
  <2>4. bucket_expanded_ix(k, n) = bucket_ix(k, 2 * n) /\ bucket_ix(k, 2 * n) \in {h, n + h}
    BY <1>2, <2>2, DoubleTyping, ExpandedIx
  <2>5. CASE bucket_ix(k, 2 * n) = h
    <3>1. line' = line
      BY <2>1, <2>2, <2>4, <2>5 DEF AdjustOwner
    <3>2. TypeOK'
      BY <1>1, <1>2, <2>1, <3>1 DEF TypeOK, Pc
    <3>3. Whole'
      BY ZenonT(30), <1>1, <3>1 DEF IInv, Whole, WholeOK
    <3>4. AdjustedOK'
      BY <1>1, <1>2, <2>1, <2>2, <2>5, <3>1 DEF AdjustedOK
    <3>5. PairedOK'
      BY <1>1, <1>2, <3>1 DEF PairedOK, SamePairs, Same
    <3>6. DoublingOK'
      BY <2>1, <3>4, <3>5 DEF DoublingOK, CopiedOK, RestartOK, PassOK, DoubledOK
    <3> QED BY <2>1, <3>2, <3>3, <3>6, OnlyDoubling DEF Doubling
  <2>6. CASE bucket_ix(k, 2 * n) = n + h /\ bucket_ix(k, 2 * n) # h
    <3>1. line' = [line EXCEPT ![n + h].owner = @ \cup {pos}, ![h].owner = @ \ {pos}]
      BY <2>1, <2>2, <2>4, <2>6 DEF AdjustOwner
    <3> HIDE DEF ix, k, h, pos
    <3>2. h \in Index /\ n + h \in Index /\ n + h # h /\ line \in Tables
      BY <1>2, <2>3, DoubleTyping
    <3>3. /\ line' \in Tables
          /\ \A b \in Index : /\ line'[b].state = line[b].state /\ line'[b].key = line[b].key
                              /\ b \notin {h, n + h} => line'[b] = line[b]
          /\ line'[h].owner = line[h].owner \ {pos}
          /\ line'[n + h].owner = line[n + h].owner \cup {pos}
      BY <2>3, <3>1, <3>2 DEF Tables, Bucket
    <3>4. \A j \in 0 .. n - 1 : j \in Index /\ n + j \in Index /\ (n + j = n + h <=> j = h) /\ n + j # h /\ j # n + h
      BY <1>2, <2>3, DoubleTyping
    <3>5. \A j \in 0 .. n - 1 :
            /\ line'[j].owner = IF j = h THEN line[h].owner \ {pos} ELSE line[j].owner
            /\ line'[n + j].owner = IF j = h THEN line[n + h].owner \cup {pos} ELSE line[n + j].owner
      BY ZenonT(60), <3>3, <3>4
    <3>6. \A j \in 0 .. n - 1 : PairKey(line', n, j) = PairKey(line, n, j) /\ PairPlace(line', n, j) = PairPlace(line, n, j)
      BY <3>3, <3>4 DEF PairKey, PairPlace
    <3>7. PairsOK(line', n)
      BY ZenonT(60), <1>2, <3>6, DoubleTyping, KeepPairs
    <3>8. OwnersOK(line', n)
      <4>1. ASSUME NEW o \in 0 .. n - 1, NEW p \in line'[o].owner
            PROVE  PairKey(line', n, add_small(o, p, n)) \in Key /\ bucket_ix(PairKey(line', n, add_small(o, p, n)), n) = o
        <5>1. p \in line[o].owner
          BY <3>5, <4>1
        <5>2. add_small(o, p, n) \in 0 .. n - 1
          BY ZenonT(30), <1>2, <5>1, DoubleTyping, TableType, AddDistance
        <5> QED BY <1>2, <3>6, <5>1, <5>2 DEF OwnersOK
      <4>2. ASSUME NEW o \in 0 .. n - 1, NEW p \in line'[n + o].owner
            PROVE  PairKey(line', n, add_small(o, p, n)) \in Key /\ bucket_ix(PairKey(line', n, add_small(o, p, n)), 2 * n) = n + o
        <5>1. CASE p \in line[n + o].owner
          <6>1. n + o \in 0 .. 2 * n - 1
            BY <1>2, DoubleTyping
          <6>2. p \in Position
            BY <1>2, <5>1, <6>1, DoubleTyping, TableType
          <6>3. add_small(o, p, n) \in 0 .. n - 1
            BY ZenonT(30), <1>2, <6>2, DoubleTyping, AddDistance
          <6> QED BY ZenonT(60), <1>2, <3>6, <5>1, <6>3 DEF OwnersOK
        <5>2. CASE o = h /\ p = pos
          BY ZenonT(30), <1>3, <2>2, <2>3, <2>6, <3>6, <5>2 DEF ix, k
        <5> QED BY <3>5, <4>2, <5>1, <5>2
      <4>3. ASSUME NEW j \in 0 .. n - 1, PairKey(line', n, j) \in Key,
                   bucket_ix(PairKey(line', n, j), 2 * n) = bucket_ix(PairKey(line', n, j), n)
            PROVE  distance_wrapped(bucket_ix(PairKey(line', n, j), n), j, n) \in line'[bucket_ix(PairKey(line', n, j), n)].owner
        <5> DEFINE kj == PairKey(line, n, j)
                   hj == bucket_ix(kj, n)
                   pj == distance_wrapped(hj, j, n)
        <5>1. PairKey(line', n, j) = kj
          BY <3>6
        <5>2. hj \in 0 .. n - 1
          BY ZenonT(30), <1>2, <4>3, <5>1, DoubleTyping, BucketIxType
        <5>3. pj \in line[hj].owner
          BY ZenonT(30), <1>2, <4>3, <5>1 DEF OwnersOK
        <5>4. add_small(hj, pj, n) = j
          BY ZenonT(30), <1>2, <5>2, DoubleTyping, DistanceAdd
        <5>5. ~(hj = h /\ pj = pos)
          <6> SUFFICES ASSUME hj = h, pj = pos PROVE FALSE
            OBVIOUS
          <6>1. j = ix
            BY ZenonT(30), <2>3, <5>4
          <6> QED BY <2>6, <4>3, <5>1, <6>1 DEF k, h
        <5> QED BY <3>5, <5>1, <5>2, <5>3, <5>5
      <4> QED BY ZenonT(30), <4>1, <4>2, <4>3 DEF OwnersOK
    <3>9. PassedOK(line', n, ix)
      <4>1. ASSUME NEW j \in 0 .. n - 1, j < ix, PairKey(line', n, j) \in Key
            PROVE  LET kj == PairKey(line', n, j)
                       hj == bucket_ix(kj, n)
                       pj == distance_wrapped(hj, j, n)
                   IN /\ line'[n + j].state = "IN_USE" => line'[j].state = "FREE"
                      /\ bucket_ix(kj, 2 * n) # hj => pj \notin line'[hj].owner /\ pj \in line'[n + hj].owner
        <5> DEFINE kj == PairKey(line, n, j)
                   hj == bucket_ix(kj, n)
                   pj == distance_wrapped(hj, j, n)
        <5>1. PairKey(line', n, j) = kj
          BY <3>6
        <5>2. hj \in 0 .. n - 1
          BY ZenonT(30), <1>2, <4>1, <5>1, DoubleTyping, BucketIxType
        <5>3. /\ line[n + j].state = "IN_USE" => line[j].state = "FREE"
              /\ bucket_ix(kj, 2 * n) # hj => pj \notin line[hj].owner /\ pj \in line[n + hj].owner
          BY <1>2, <4>1, <5>1 DEF PassedOK, ix
        <5>4. line'[n + j].state = line[n + j].state /\ line'[j].state = line[j].state
          BY ZenonT(30), <3>3, <3>4
        <5>5. bucket_ix(kj, 2 * n) # hj => pj \notin line'[hj].owner /\ pj \in line'[n + hj].owner
          BY <3>5, <5>2, <5>3
        <5> HIDE DEF kj, hj, pj
        <5>6. bucket_ix(PairKey(line', n, j), n) = hj
          BY ZenonT(30), <5>1 DEF hj
        <5> QED BY ZenonT(30), <5>1, <5>3, <5>4, <5>5, <5>6 DEF pj
      <4> QED BY ZenonT(30), <4>1 DEF PassedOK
    <3>10. TypeOK'
      BY ZenonT(30), <1>1, <1>2, <2>1, <3>3 DEF TypeOK, Tables, Pc
    <3>11. Whole'
      BY <1>1, <3>3 DEF IInv, Whole, WholeOK
    <3>12. pos \notin line'[h].owner /\ pos \in line'[n + h].owner
      BY <3>3
    <3>13. PairKey(line', n, op.ix) = k
      BY ZenonT(30), <1>3, <3>6 DEF ix, k
    <3>14. AdjustedOK'
      BY ZenonT(30), <1>1, <2>1, <2>2, <3>9, <3>12, <3>13 DEF AdjustedOK, ix, h, pos
    <3>15. PairedOK'
      <4>1. SamePairs(n)'
        BY ZenonT(30), <1>1, <1>2, <3>6 DEF SamePairs
      <4>2. Same(0 .. 2 * n - 1)'
        <5>1. h \in 0 .. 2 * n - 1 /\ n + h \in 0 .. 2 * n - 1
          BY <1>2, <2>3, DoubleTyping
        <5> QED BY <1>1, <1>2, <3>3, <5>1 DEF Same
      <4> QED BY ZenonT(30), <1>1, <1>2, <3>7, <3>8, <4>1, <4>2 DEF PairedOK
    <3>16. DoublingOK'
      BY <2>1, <3>14, <3>15 DEF DoublingOK, CopiedOK, RestartOK, PassOK, DoubledOK
    <3> QED BY ZenonT(30), <2>1, <3>10, <3>11, <3>16, OnlyDoubling DEF Doubling
  <2> QED BY <2>4, <2>5, <2>6
<1> QED BY <1>4, <1>5

-----------------------------------------------------------------------------
\* The end of pass 2.

\* resize_pass2 flushes the owners and frees a senior content that has moved.
LEMMA ResizePass2FreeStep ==
  ASSUME IInv, Counters', ResizePass2Free
  PROVE  TypeOK' /\ Whole' /\ Phases'
<1> DEFINE ix == op.ix
           h == bucket_ix(Populated(ix).key, n)
<1>1. /\ pc = "pass2_adjusted" /\ pc' = "pass2" /\ n' = n /\ op' = NextPair
      /\ UNCHANGED <<size, psize, count, pcount, sc, psc, heap>>
      /\ pline' = persist(pline, {h, n + h})
      /\ line' = IF line[n + ix].state = "IN_USE"
                 THEN [line EXCEPT ![ix].state = "FREE", ![ix].key = NoKey]
                 ELSE line
  BY DEF ResizePass2Free, n
<1>2. /\ TypeOK /\ count.unst = 1 /\ AdjustedOK /\ op.ix < n
      /\ PairsOK(line, n) /\ OwnersOK(line, n) /\ SamePairs(n) /\ OwnersOK(pline, n) /\ Same(0 .. 2 * n - 1)
  BY <1>1 DEF IInv, CountOK, Doubling, DoublingOK, PairedOK, AdjustedOK
<1>3. NextPair \in Op /\ NextPair.ix = op.ix + 1 /\ op.ix \in 0 .. n - 1 /\ op.ix + 1 <= n
  BY <1>2, NextPairType
<1>4. /\ PassedOK(line, n, ix) /\ PairKey(line, n, ix) \in Key
      /\ LET k == PairKey(line, n, ix)
             hh == bucket_ix(k, n)
             pos == distance_wrapped(hh, ix, n)
         IN bucket_ix(k, 2 * n) # hh => pos \notin line[hh].owner /\ pos \in line[n + hh].owner
  BY ZenonT(30), <1>1, <1>2 DEF AdjustedOK
<1>5. h \in 0 .. n - 1
  <2>1. Populated(ix).key = PairKey(line, n, ix)
    BY ZenonT(60), <1>2, <1>3, <1>4, PopulatedPair, MarkersAreNotKeys
  <2> QED BY <1>2, <1>4, <2>1, DoubleTyping, BucketIxType
<1> HIDE DEF h
<1>6. /\ line \in Tables /\ pline \in Tables /\ n \in Nat \ {0} /\ TableSize(n) /\ TableSize(2 * n)
      /\ 0 .. 2 * n - 1 \subseteq Index
  BY <1>2, DoubleTyping
<1>7. ix \in Index /\ n + ix \in Index /\ ix # n + ix
  BY <1>3, <1>6
<1>8. /\ line' \in Tables
      /\ \A b \in Index : line'[b].owner = line[b].owner /\ (b # ix => line'[b] = line[b])
      /\ line[n + ix].state = "IN_USE" => line'[ix].state = "FREE"
      /\ line[n + ix].state # "IN_USE" => line' = line
  <2>1. CASE line[n + ix].state = "IN_USE"
    BY <1>1, <1>6, <1>7, <2>1 DEF Tables, Bucket, ContentState
  <2>2. CASE line[n + ix].state # "IN_USE"
    BY <1>1, <1>6, <2>2
  <2> QED BY <2>1, <2>2
<1>9. pline' \in Tables /\ \A b \in Index : pline'[b] = line[b] \/ pline'[b] = pline[b]
  BY <1>1, <1>6 DEF Tables, persist
<1>10. \A j \in 0 .. n - 1 : j \in Index /\ n + j \in Index /\ n + j # ix
  BY <1>3, <1>6
<1>11. \A j \in 0 .. n - 1 : PairKey(line', n, j) = PairKey(line, n, j) /\ PairPlace(line', n, j) = PairPlace(line, n, j)
  <2> TAKE j \in 0 .. n - 1
  <2>1. line'[n + j] = line[n + j]
    BY <1>8, <1>10
  <2>2. CASE j # ix
    <3>1. line'[j] = line[j]
      BY ZenonT(30), <1>8, <1>10, <2>2
    <3> QED BY <2>1, <3>1 DEF PairKey, PairPlace
  <2>3. CASE j = ix
    BY ZenonT(30), <1>8, <2>1, <2>3 DEF PairKey, PairPlace
  <2> QED BY <2>2, <2>3
<1>12. \A j \in 0 .. n - 1 : PairKey(pline', n, j) = PairKey(line, n, j) /\ PairPlace(pline', n, j) = PairPlace(line, n, j)
  <2>1. \A b \in 0 .. 2 * n - 1 : pline'[b] = line[b] \/ pline'[b] = pline[b]
    BY <1>6, <1>9
  <2>2. \A j \in 0 .. n - 1 : PairKey(pline, n, j) = PairKey(line, n, j) /\ PairPlace(pline, n, j) = PairPlace(line, n, j)
    BY <1>2 DEF SamePairs
  <2> QED BY <1>6, <2>1, <2>2, MixPairs
<1>13. PairsOK(line', n)
  BY ZenonT(30), <1>2, <1>6, <1>11, KeepPairs
<1>14. OwnersOK(line', n)
  <2>1. \A b \in 0 .. 2 * n - 1 : line'[b].owner = line[b].owner
    BY ZenonT(30), <1>6, <1>8
  <2> QED BY <1>2, <1>6, <1>8, <1>11, <2>1, MixOwners
<1>15. OwnersOK(pline', n)
  <2>1. \A b \in 0 .. 2 * n - 1 : pline'[b].owner = line[b].owner \/ pline'[b].owner = pline[b].owner
    BY <1>6, <1>9
  <2>2. \A j \in 0 .. n - 1 : PairKey(pline, n, j) = PairKey(line, n, j)
    BY ZenonT(30), <1>2 DEF SamePairs
  <2> QED BY ZenonT(60), <1>2, <1>6, <1>9, <1>12, <2>1, <2>2, MixOwners
<1>16. PassedOK(line', n, ix + 1)
  <2>1. ASSUME NEW j \in 0 .. n - 1, j < ix + 1, PairKey(line', n, j) \in Key
        PROVE  LET kj == PairKey(line', n, j)
                   hj == bucket_ix(kj, n)
                   pj == distance_wrapped(hj, j, n)
               IN /\ line'[n + j].state = "IN_USE" => line'[j].state = "FREE"
                  /\ bucket_ix(kj, 2 * n) # hj => pj \notin line'[hj].owner /\ pj \in line'[n + hj].owner
    <3> DEFINE kj == PairKey(line, n, j)
               hj == bucket_ix(kj, n)
               pj == distance_wrapped(hj, j, n)
    <3>1. PairKey(line', n, j) = kj
      BY <1>11
    <3>2. hj \in 0 .. n - 1
      BY ZenonT(30), <1>6, <2>1, <3>1, BucketIxType
    <3>3. bucket_ix(kj, 2 * n) # hj => pj \notin line[hj].owner /\ pj \in line[n + hj].owner
      <4>1. CASE j = ix
        BY <1>4, <4>1
      <4>2. CASE j < ix
        BY ZenonT(60), <1>4, <2>1, <3>1, <4>2 DEF PassedOK
      <4> QED BY <1>3, <2>1, <4>1, <4>2
    <3>4. line'[n + j].state = "IN_USE" => line'[j].state = "FREE"
      <4>1. line'[n + j] = line[n + j]
        BY <1>8, <1>10
      <4>2. CASE j = ix
        BY ZenonT(30), <1>8, <4>1, <4>2
      <4>3. CASE j < ix
        <5>1. line'[j] = line[j]
          BY <1>3, <1>8, <1>10, <4>3
        <5> QED BY ZenonT(30), <1>4, <2>1, <3>1, <4>1, <4>3, <5>1 DEF PassedOK
      <4> QED BY <1>3, <2>1, <4>2, <4>3
    <3>5. line'[hj].owner = line[hj].owner /\ line'[n + hj].owner = line[n + hj].owner
      BY <1>8, <1>10, <3>2
    <3> HIDE DEF kj, hj, pj
    <3>6. bucket_ix(PairKey(line', n, j), n) = hj
      BY <3>1 DEF hj
    <3> QED BY ZenonT(30), <3>1, <3>3, <3>4, <3>5, <3>6 DEF pj
  <2> QED BY ZenonT(30), <2>1 DEF PassedOK
<1>17. TypeOK'
  BY ZenonT(60), <1>1, <1>2, <1>3, <1>8, <1>9 DEF TypeOK, Tables, Pc
<1>18. Whole'
  <2>1. WholeOK(line')
    BY <1>8 DEF IInv, WholeOK
  <2>2. WholeOK(pline')
    BY <1>9 DEF IInv, WholeOK
  <2> QED BY ZenonT(30), <2>1, <2>2 DEF Whole
<1>19. PairedOK'
  <2>1. SamePairs(n)'
    BY ZenonT(60), <1>1, <1>11, <1>12 DEF SamePairs
  <2>2. Same(0 .. 2 * n - 1)'
    <3> SUFFICES ASSUME NEW b \in Index \ (0 .. 2 * n - 1) PROVE pline'[b] = line'[b]
      BY ZenonT(60), <1>1 DEF Same
    <3>1. pline[b] = line[b] /\ b # ix
      BY <1>2, <1>3, <1>6 DEF Same
    <3> QED BY <1>8, <1>9, <3>1
  <2> QED BY <1>1, <1>13, <1>14, <1>15, <2>1, <2>2 DEF PairedOK
<1>20. PassOK'
  BY <1>1, <1>3, <1>16 DEF PassOK
<1>21. DoublingOK'
  BY ZenonT(30), <1>1, <1>19, <1>20 DEF DoublingOK, CopiedOK, RestartOK, AdjustedOK, DoubledOK
<1> QED BY <1>1, <1>17, <1>18, <1>21, OnlyDoubling DEF Doubling

\* When pass 2 is through, the table is sound as one of twice the size.
LEMMA PassEnds ==
  ASSUME NEW t \in Tables, NEW m, TableSize(m), TableSize(2 * m), WholeOK(t),
         PairsOK(t, m), OwnersOK(t, m), PassedOK(t, m, m)
  PROVE  HomeOK(t, 2 * m) /\ UniqueOK(t, 2 * m) /\ StatesOK(t, 2 * m, {})
<1>1. m \in Nat \ {0}
  BY ZenonT(30) DEF TableSize
<1>2. \A b \in 0 .. 2 * m - 1 : b \in Index
  BY ZenonT(30), TableType
<1>3. ASSUME NEW ix \in 0 .. m - 1, PairKey(t, m, ix) # NoKey
      PROVE  /\ PairPlace(t, m, ix) \in {ix, m + ix} /\ PairPlace(t, m, ix) \in 0 .. 2 * m - 1
             /\ t[PairPlace(t, m, ix)].key = PairKey(t, m, ix)
             /\ t[PairPlace(t, m, ix)].state = "IN_USE"
  BY <1>1, <1>3 DEF PairPlace, PairKey
\* The bucket a position names in the doubled table is the place of a pair.
<1>4. ASSUME NEW o \in 0 .. m - 1, NEW e \in {o, m + o}, NEW p \in t[e].owner
      PROVE  LET ix == add_small(o, p, m)
             IN /\ ix \in 0 .. m - 1 /\ p \in Position
                /\ PairKey(t, m, ix) \in Key /\ bucket_ix(PairKey(t, m, ix), 2 * m) = e
                /\ add_small(e, p, 2 * m) = PairPlace(t, m, ix)
  <2> DEFINE ix == add_small(o, p, m)
             k == PairKey(t, m, ix)
  <2>1. e \in 0 .. 2 * m - 1
    BY <1>1
  <2>2. p \in Position
    BY <1>4, <2>1, TableType
  <2>3. ix \in 0 .. m - 1 /\ distance_wrapped(o, ix, m) = p
    BY ZenonT(30), <2>2, AddDistance
  <2>4. k \in Key /\ bucket_ix(k, 2 * m) = e
    <3>1. CASE e = o
      <4>1. k \in Key /\ bucket_ix(k, m) = o
        BY <1>4, <3>1 DEF OwnersOK
      <4> HIDE DEF ix
      <4>2. bucket_ix(k, 2 * m) # o => p \notin t[o].owner
        <5>1. ix < m
          BY <1>1, <2>3
        <5> QED BY ZenonT(60), <2>3, <4>1, <5>1 DEF PassedOK
      <4> QED BY ZenonT(30), <1>4, <3>1, <4>1, <4>2
    <3>2. CASE e = m + o
      BY ZenonT(30), <1>4, <3>2 DEF OwnersOK
    <3> QED BY ZenonT(30), <3>1, <3>2
  <2>5. k # NoKey
    BY ZenonT(30), <2>4, MarkersAreNotKeys
  <2>6. distance_wrapped(e, PairPlace(t, m, ix), 2 * m) \in Position
    <3> HIDE DEF ix
    <3> QED BY ZenonT(30), <2>3, <2>4, <2>5 DEF PairsOK
  <2>7. PairPlace(t, m, ix) \in {ix, m + ix}
    BY <1>3, <2>3, <2>5
  <2>8. PairPlace(t, m, ix) = add_small(e, p, 2 * m)
    BY ZenonT(60), <2>2, <2>6, <2>7, PlaceOf
  <2> QED BY <2>2, <2>3, <2>4, <2>8
<1>5. ASSUME NEW e \in 0 .. 2 * m - 1 PROVE \E o \in 0 .. m - 1 : e \in {o, m + o}
  <2>1. CASE e < m
    BY <1>1, <2>1
  <2>2. CASE ~(e < m)
    <3>1. e - m \in 0 .. m - 1 /\ e = m + (e - m)
      BY <1>1, <2>2
    <3> QED BY <3>1
  <2> QED BY <2>1, <2>2
<1>6. HomeOK(t, 2 * m)
  <2> SUFFICES ASSUME NEW e \in 0 .. 2 * m - 1, NEW p \in t[e].owner
               PROVE  /\ t[add_small(e, p, 2 * m)].key \in Key
                      /\ bucket_ix(t[add_small(e, p, 2 * m)].key, 2 * m) = e
    BY ZenonT(30) DEF HomeOK
  <2>1. PICK o \in 0 .. m - 1 : e \in {o, m + o}
    BY <1>5
  <2> DEFINE ix == add_small(o, p, m)
  <2>2. /\ ix \in 0 .. m - 1 /\ PairKey(t, m, ix) \in Key /\ bucket_ix(PairKey(t, m, ix), 2 * m) = e
        /\ add_small(e, p, 2 * m) = PairPlace(t, m, ix)
    BY ZenonT(60), <1>4, <2>1
  <2>3. PairKey(t, m, ix) # NoKey
    BY ZenonT(60), <2>2, MarkersAreNotKeys
  <2> QED BY ZenonT(30), <1>3, <2>2, <2>3
<1>7. UniqueOK(t, 2 * m)
  <2> SUFFICES ASSUME NEW e \in 0 .. 2 * m - 1, NEW p \in t[e].owner, NEW q \in t[e].owner,
                      t[add_small(e, p, 2 * m)].key = t[add_small(e, q, 2 * m)].key
               PROVE  p = q
    BY ZenonT(30) DEF UniqueOK
  <2>1. PICK o \in 0 .. m - 1 : e \in {o, m + o}
    BY <1>5
  <2> DEFINE i == add_small(o, p, m)
             j == add_small(o, q, m)
  <2>2. i \in 0 .. m - 1 /\ p \in Position /\ PairKey(t, m, i) \in Key /\ add_small(e, p, 2 * m) = PairPlace(t, m, i)
    BY ZenonT(60), <1>4, <2>1
  <2>3. j \in 0 .. m - 1 /\ q \in Position /\ PairKey(t, m, j) \in Key /\ add_small(e, q, 2 * m) = PairPlace(t, m, j)
    BY ZenonT(30), <1>4, <2>1
  <2>4. PairKey(t, m, i) = PairKey(t, m, j) /\ PairKey(t, m, i) # NoKey
    BY ZenonT(60), <1>3, <2>2, <2>3, MarkersAreNotKeys
  <2>5. i = j
    <3> HIDE DEF i, j
    <3> QED BY ZenonT(60), <2>2, <2>3, <2>4 DEF PairsOK
  <2>6. distance_wrapped(o, i, m) = p /\ distance_wrapped(o, j, m) = q
    BY ZenonT(60), <2>2, <2>3, AddDistance
  <2> QED BY ZenonT(30), <2>5, <2>6
<1>8. ASSUME NEW b \in 0 .. 2 * m - 1, owned_by_owner_mask(t, b, 2 * m)
      PROVE  t[b].state = "IN_USE"
  <2>1. PICK e \in 0 .. 2 * m - 1 : \E p \in t[e].owner : b = add_small(e, p, 2 * m)
    BY ZenonT(30), <1>8, OwnedPosition
  <2>2. PICK p \in t[e].owner : b = add_small(e, p, 2 * m)
    BY <2>1
  <2>3. PICK o \in 0 .. m - 1 : e \in {o, m + o}
    BY ZenonT(30), <1>5
  <2> DEFINE ix == add_small(o, p, m)
  <2>4. ix \in 0 .. m - 1 /\ PairKey(t, m, ix) \in Key /\ add_small(e, p, 2 * m) = PairPlace(t, m, ix)
    BY ZenonT(30), <1>4, <2>3
  <2>5. PairKey(t, m, ix) # NoKey
    BY ZenonT(30), <2>4, MarkersAreNotKeys
  <2> QED BY ZenonT(30), <1>3, <2>2, <2>4, <2>5
<1>9. ASSUME NEW b \in 0 .. 2 * m - 1, t[b].state = "IN_USE"
      PROVE  owned_by_owner_mask(t, b, 2 * m)
  <2>1. PICK ix \in 0 .. m - 1 : b \in {ix, m + ix}
    BY <1>5
  <2> DEFINE k == PairKey(t, m, ix)
             h == bucket_ix(k, m)
             pos == distance_wrapped(h, ix, m)
             e == bucket_ix(k, 2 * m)
  <2>2. k \in Key /\ k # NoKey
    <3>1. \A x \in Index : t[x].state = "IN_USE" => t[x].key \in Key
      BY DEF WholeOK
    <3>2. ix \in Index /\ m + ix \in Index
      BY <1>1, <1>2
    <3> QED BY ZenonT(60), <1>9, <2>1, <3>1, <3>2, MarkersAreNotKeys DEF PairKey
  <2>3. ix < m
    BY <1>1
  <2>4. /\ t[m + ix].state = "IN_USE" => t[ix].state = "FREE"
        /\ e # h => pos \in t[m + h].owner
    BY <2>2, <2>3 DEF PassedOK
  <2>5. PairPlace(t, m, ix) = b
    BY ZenonT(60), <1>9, <2>1, <2>4 DEF PairPlace
  <2>6. h \in 0 .. m - 1 /\ e \in {h, m + h}
    BY ZenonT(30), <1>1, <2>2, BucketIxType, ExpandedIx
  <2>7. pos \in Position /\ distance_wrapped(e, b, 2 * m) \in Position
    BY <2>2, <2>5 DEF PairsOK
  <2>8. ix = add_small(h, pos, m)
    BY <2>6, DistanceAdd
  <2>9. pos \in t[e].owner
    <3>1. CASE e = h
      BY ZenonT(30), <2>2, <3>1 DEF OwnersOK
    <3>2. CASE e # h
      BY ZenonT(60), <2>4, <2>6, <3>2
    <3> QED BY ZenonT(60), <3>1, <3>2
  <2> HIDE DEF k, h, pos, e
  <2>10. b \in {add_small(h, pos, m), m + add_small(h, pos, m)}
    BY <2>1, <2>8
  <2>11. b = add_small(e, pos, 2 * m)
    BY <2>6, <2>7, <2>10, PlaceOf
  <2>12. e \in 0 .. 2 * m - 1
    BY <1>1, <2>6
  <2> QED BY ZenonT(60), <2>9, <2>11, <2>12, OwnedPosition
<1> QED BY <1>6, <1>7, <1>8, <1>9 DEF StatesOK

\* resize_epilog: the doubled table is in memory and in service.
LEMMA ResizeEpilogStep ==
  ASSUME IInv, Counters', ResizeEpilog
  PROVE  TypeOK' /\ Whole' /\ Phases'
<1>1. /\ pc = "pass2" /\ pc' = "rsz_done" /\ op.ix = n /\ count' = [val |-> count.val + 1, unst |-> 0]
      /\ pline' = persist(pline, 0 .. 2 * n - 1)
      /\ UNCHANGED <<line, size, psize, pcount, sc, psc, heap, op>>
  BY ZenonT(30) DEF ResizeEpilog
<1>2. /\ TypeOK /\ count.unst = 1 /\ PassedOK(line, n, n) /\ pcount = count /\ count.val < SegmentCapacity
      /\ PairsOK(line, n) /\ OwnersOK(line, n) /\ Same(0 .. 2 * n - 1) /\ WholeOK(line)
  BY <1>1 DEF IInv, CountOK, Doubling, DoublingOK, PairedOK, PassOK
<1>3. n' = 2 * n
  BY <1>1, <1>2, DoubleTyping DEF n
<1>4. HomeOK(line, 2 * n) /\ UniqueOK(line, 2 * n) /\ StatesOK(line, 2 * n, {})
  BY <1>2, DoubleTyping, PassEnds
<1>5. pline' \in Tables /\ \A b \in Index : pline'[b] = line[b]
  <2>1. pline' \in Tables
    BY ZenonT(30), <1>1, <1>2, DoubleTyping DEF Tables, persist
  <2>2. \A b \in Index : pline'[b] = line[b]
    BY <1>1, <1>2 DEF persist, Same
  <2> QED BY <2>1, <2>2
<1>6. count' \in Count
  BY <1>1, <1>2, SizesAssumption DEF TypeOK, Count
<1>7. TypeOK'
  BY <1>1, <1>2, <1>5, <1>6 DEF TypeOK, Tables, Pc
<1>8. Whole'
  BY ZenonT(60), <1>1, <1>2, <1>5 DEF Whole, WholeOK
<1>9. DoubledOK'
  BY ZenonT(60), <1>1, <1>2, <1>3, <1>4, <1>5 DEF DoubledOK, Table, Same, n
<1>10. DoublingOK'
  <2>1. CopiedOK' /\ RestartOK' /\ PassOK'
    BY <1>1 DEF CopiedOK, RestartOK, PassOK
  <2>2. PairedOK'
    BY <1>1 DEF PairedOK
  <2>3. AdjustedOK'
    BY <1>1 DEF AdjustedOK
  <2> QED BY ZenonT(30), <1>9, <2>1, <2>2, <2>3 DEF DoublingOK
<1> QED BY <1>1, <1>7, <1>8, <1>10, OnlyDoubling

\* resize returns.
LEMMA ResizeDoneStep ==
  ASSUME IInv, Counters', ResizeDone
  PROVE  TypeOK' /\ Whole' /\ Phases'
<1>1. /\ pc = "rsz_done" /\ pc' \in {"scan", "try"} /\ n' = n /\ pcount' = count
      /\ op' = [op EXCEPT !.ix = 0, !.dst = 0]
      /\ UNCHANGED <<line, pline, size, psize, count, sc, psc, heap>>
  BY DEF ResizeDone, n
<1>2. TypeOK /\ Table({}) /\ Same({})
  BY <1>1 DEF IInv, DoublingOK, DoubledOK
<1>3. op' \in Op
  <2>1. 0 \in Index /\ 0 \in 0 .. MaxBuckets
    BY MaxBucketsType DEF Index
  <2> QED BY ZenonT(60), <1>1, <1>2, <2>1 DEF TypeOK, Op
<1>4. TypeOK'
  BY <1>1, <1>2, <1>3 DEF TypeOK, Pc
<1>5. Whole'
  BY <1>1 DEF IInv, Whole, WholeOK
<1>6. Table({})' /\ Same({})'
  BY <1>1, <1>2 DEF Table, Same
<1>7. CASE pc' = "try"
  BY <1>4, <1>5, <1>6, <1>7, OnlyQuiet
<1>8. CASE pc' = "scan"
  <2>1. RecoverOK'
    BY <1>6, <1>8 DEF RecoverOK, Table
  <2> QED BY ZenonT(30), <1>4, <1>5, <1>8, <2>1, OnlyRecover
<1> QED BY <1>1, <1>7, <1>8

=============================================================================
