--------------------------- MODULE HopStepProofs ----------------------------
(***************************************************************************)
(* Facts about the operators of HopTable: positions, owners and states,    *)
(* and what the three ways to change an owner word (owner::insert,         *)
(* owner::erase and owner::move) and a change of content do to a sound     *)
(* table.  Then: emplace, make_space_for_insert and erase preserve the     *)
(* inductive invariant, one lemma for each action.                         *)
(***************************************************************************)
EXTENDS HopHashInv, WellFoundedInduction, TLAPS

\* A set of natural numbers has a least element: what the first-fit searches
\* of the code (nearest_free_bucket, locate_key, rightmost_one_pos) rely on.
LEMMA Least ==
  ASSUME NEW S, S \subseteq Nat, S # {}
  PROVE  \E x \in S : \A y \in S : x <= y
<1> DEFINE R == OpToRel(<, Nat)
<1>1. IsWellFoundedOn(R, Nat)
  BY ZenonT(30), NatLessThanWellFounded
<1> HIDE DEF R
<1>2. PICK x \in S : \A y \in S : ~(<<y, x>> \in R)
  BY ZenonT(30), <1>1, WFMin
<1>3. \A y \in S : ~(y < x)
  BY ZenonT(30), <1>2 DEF R, OpToRel
<1> QED BY <1>3

\* Quotient and remainder determine each other, also for a negative dividend
\* as in hop_hash's erase.
LEMMA DivModUnique ==
  ASSUME NEW a \in Int, NEW m \in Nat \ {0}, NEW q \in Int, NEW r \in 0 .. m - 1,
         a = q * m + r
  PROVE  a % m = r
OBVIOUS

\* Division with remainder, by which a hash is taken to a bucket's index.
LEMMA DivMod ==
  ASSUME NEW a \in Nat, NEW m \in Nat \ {0}
  PROVE  \E q \in Nat : a % m \in 0 .. m - 1 /\ a = q * m + (a % m)
<1>1. a \div m \in Nat /\ a % m \in 0 .. m - 1 /\ a = (a \div m) * m + (a % m)
  OBVIOUS
<1> QED BY ZenonT(30), <1>1

\* The bucket of a hash in the doubled table is its bucket in the table, or
\* the bucket paired with it in the junior segment.
LEMMA ModDouble ==
  ASSUME NEW h \in Nat, NEW m \in Nat \ {0}
  PROVE  h % (2 * m) = h % m \/ h % (2 * m) = m + (h % m)
<1>1. 2 * m \in Nat \ {0}
  OBVIOUS
<1>2. PICK q \in Nat, r \in 0 .. 2 * m - 1 : h = q * (2 * m) + r /\ r = h % (2 * m)
  BY ZenonT(30), <1>1, DivMod
<1>3. CASE r < m
  <2>1. 2 * q \in Int /\ r \in 0 .. m - 1
    BY <1>3
  <2>2. h = (2 * q) * m + r
    BY <1>2
  <2>3. h % m = r
    BY <2>1, <2>2, DivModUnique
  <2> QED BY <1>2, <2>3
<1>4. CASE r >= m
  <2>1. 2 * q + 1 \in Int /\ r - m \in 0 .. m - 1
    BY <1>4
  <2>2. h = (2 * q + 1) * m + (r - m)
    BY <1>2
  <2>3. \A s \in 0 .. m - 1 : h = (2 * q + 1) * m + s => h % m = s
    BY <2>1, DivModUnique
  <2>4. h % m = r - m
    BY <2>1, <2>2, <2>3
  <2> QED BY <1>2, <2>4
<1> QED BY <1>3, <1>4

-----------------------------------------------------------------------------
\* Table sizes.

\* base_segment_size is the size of a table of one segment.
LEMMA BucketCountOne == bucket_count(1) = BaseSize
BY SizesAssumption DEF bucket_count

\* A table of any number of segments has a bucket.
LEMMA BucketCountType ==
  \A c \in 1 .. SegmentCapacity : bucket_count(c) \in Nat \ {0}
<1> DEFINE Bad == {c \in 1 .. SegmentCapacity : ~(bucket_count(c) \in Nat \ {0})}
<1> SUFFICES ASSUME Bad # {} PROVE FALSE
  OBVIOUS
<1>1. Bad \subseteq Nat
  BY SizesAssumption
<1>2. PICK x \in Bad : \A y \in Bad : x <= y
  BY ZenonT(30), <1>1, Least
<1>3. x # 1
  BY <1>2, BucketCountOne, SizesAssumption
<1>4. x - 1 \in 1 .. SegmentCapacity /\ ~(x - 1 \in Bad)
  BY <1>2, <1>3, SizesAssumption
<1>5. bucket_count((x - 1) + 1) = 2 * bucket_count(x - 1)
  BY <1>4, BucketCountDoubles
<1> QED BY <1>2, <1>4, <1>5

\* No table is larger than one of _segment_capacity segments.
LEMMA BucketCountBound ==
  \A c \in 1 .. SegmentCapacity : bucket_count(c) <= MaxBuckets
<1> DEFINE Bad == {d \in 0 .. SegmentCapacity - 1 :
                     ~(bucket_count(SegmentCapacity - d) <= MaxBuckets)}
<1>1. Bad = {}
  <2> SUFFICES ASSUME Bad # {} PROVE FALSE
    OBVIOUS
  <2>1. Bad \subseteq Nat
    BY SizesAssumption
  <2>2. PICK x \in Bad : \A y \in Bad : x <= y
    BY ZenonT(30), <2>1, Least
  <2>3. x # 0
    BY <2>2, BucketCountType, SizesAssumption DEF MaxBuckets
  <2> DEFINE c == SegmentCapacity - x
  <2>4. c \in 1 .. SegmentCapacity - 1 /\ SegmentCapacity - (x - 1) = c + 1 /\ ~(x - 1 \in Bad)
        /\ x - 1 \in 0 .. SegmentCapacity - 1
    BY <2>2, <2>3, SizesAssumption
  <2>5. bucket_count(c + 1) = 2 * bucket_count(c)
    BY <2>4, BucketCountDoubles, SizesAssumption
  <2>6. bucket_count(c) \in Nat /\ bucket_count(c + 1) <= MaxBuckets /\ MaxBuckets \in Nat
    BY <2>4, BucketCountType, SizesAssumption DEF MaxBuckets
  <2> QED BY <2>2, <2>5, <2>6
<1> SUFFICES ASSUME NEW c \in 1 .. SegmentCapacity PROVE bucket_count(c) <= MaxBuckets
  OBVIOUS
<1>2. SegmentCapacity - c \in 0 .. SegmentCapacity - 1 /\ SegmentCapacity - (SegmentCapacity - c) = c
  BY SizesAssumption
<1> QED BY <1>1, <1>2

\* A table size is a multiple, at least the double, of the owner's width.
LEMMA BucketCountMultiple ==
  \A c \in 1 .. SegmentCapacity : \E j \in Nat : j >= 2 /\ bucket_count(c) = j * OwnerSize
<1> DEFINE Multiple(c) == \E j \in Nat : j >= 2 /\ bucket_count(c) = j * OwnerSize
           Bad == {c \in 1 .. SegmentCapacity : ~Multiple(c)}
<1> SUFFICES ASSUME Bad # {} PROVE FALSE
  OBVIOUS
<1>0. Bad \subseteq Nat
  BY SizesAssumption
<1>1. PICK x \in Bad : \A y \in Bad : x <= y
  BY ZenonT(30), <1>0, Least
<1>2. x # 1
  <2>1. PICK j \in Nat : BaseSize = j * OwnerSize + (BaseSize % OwnerSize)
    BY ZenonT(30), DivMod, SizesAssumption
  <2>2. BaseSize = j * OwnerSize
    BY <2>1, OwnerFitsBase, SizesAssumption
  <2>3. j # 0 /\ j # 1
    BY <2>2, OwnerFitsBase, SizesAssumption
  <2>4. Multiple(1)
    BY <2>2, <2>3, BucketCountOne
  <2> QED BY <1>1, <2>4
<1>3. x - 1 \in 1 .. SegmentCapacity /\ ~(x - 1 \in Bad)
  BY <1>1, <1>2, SizesAssumption
<1>4. PICK j \in Nat : j >= 2 /\ bucket_count(x - 1) = j * OwnerSize
  BY <1>3
<1>5. bucket_count((x - 1) + 1) = 2 * bucket_count(x - 1) /\ (x - 1) + 1 = x
  BY <1>3, BucketCountDoubles
<1>6. bucket_count(x) = (2 * j) * OwnerSize
  BY <1>4, <1>5, SizesAssumption
<1> QED BY <1>1, <1>4, <1>6

\* The largest table has a bucket.
LEMMA MaxBucketsType == MaxBuckets \in Nat \ {0}
BY BucketCountType, SizesAssumption DEF MaxBuckets

\* A table size: what the lemmas below ask of m.
TableSize(m) ==
  /\ m \in Nat \ {0}
  /\ m <= MaxBuckets
  /\ 2 * OwnerSize <= m
  /\ \E j \in Nat : m = j * OwnerSize

\* bucket_count() of every segment count is such a size.
LEMMA BucketCountIsTableSize ==
  \A c \in 1 .. SegmentCapacity : TableSize(bucket_count(c))
<1> SUFFICES ASSUME NEW c \in 1 .. SegmentCapacity PROVE TableSize(bucket_count(c))
  OBVIOUS
<1>1. PICK j \in Nat : j >= 2 /\ bucket_count(c) = j * OwnerSize
  BY BucketCountMultiple
<1>2. 2 * OwnerSize <= j * OwnerSize
  BY <1>1, SizesAssumption
<1> QED BY <1>1, <1>2, BucketCountType, BucketCountBound DEF TableSize

-----------------------------------------------------------------------------
\* Bucket arithmetic.

\* bucket_ix returns a bucket of the table.
LEMMA BucketIxType ==
  ASSUME NEW k \in Key, NEW m \in Nat \ {0}
  PROVE  bucket_ix(k, m) \in 0 .. m - 1
BY ZenonT(30), HashAssumption, DivMod DEF bucket_ix

\* add_small and distance_wrapped are inverse to each other.
LEMMA AddDistance ==
  ASSUME NEW m, TableSize(m), NEW o \in 0 .. m - 1, NEW p \in Position
  PROVE  /\ add_small(o, p, m) \in 0 .. m - 1
         /\ distance_wrapped(o, add_small(o, p, m), m) = p
BY SizesAssumption DEF add_small, distance_wrapped, Position, TableSize

\* The same from the other side.
LEMMA DistanceAdd ==
  ASSUME NEW m, TableSize(m), NEW o \in 0 .. m - 1, NEW b \in 0 .. m - 1
  PROVE  /\ distance_wrapped(o, b, m) \in 0 .. m - 1
         /\ add_small(o, distance_wrapped(o, b, m), m) = b
BY SizesAssumption DEF add_small, distance_wrapped, TableSize

\* make_space_for_insert's walk back from the free bucket is inverse to distance_wrapped.
LEMMA SubtractDistance ==
  ASSUME NEW m, TableSize(m), NEW b \in 0 .. m - 1, NEW d \in Position
  PROVE  /\ subtract_small(b, d, m) \in 0 .. m - 1
         /\ distance_wrapped(subtract_small(b, d, m), b, m) = d
BY SizesAssumption DEF subtract_small, distance_wrapped, Position, TableSize

\* erase's plain subtraction finds the position of a content that has wrapped.
LEMMA EraseMaskIsDistance ==
  ASSUME NEW m, TableSize(m), NEW o \in 0 .. m - 1, NEW b \in 0 .. m - 1,
         distance_wrapped(o, b, m) \in Position
  PROVE  EraseMask(b, o) = distance_wrapped(o, b, m)
<1> DEFINE d == distance_wrapped(o, b, m)
<1>1. PICK j \in Nat : m = j * OwnerSize
  BY DEF TableSize
<1>2. d \in 0 .. OwnerSize - 1 /\ b - o \in Int
  BY DEF Position, TableSize
<1>3. CASE b < o
  <2>1. b - o = (0 - j) * OwnerSize + d
    BY <1>1, <1>3, SizesAssumption DEF distance_wrapped, TableSize
  <2>2. 0 - j \in Int
    OBVIOUS
  <2> HIDE DEF d
  <2>3. (b - o) % OwnerSize = d
    BY ZenonT(30), <1>2, <2>1, <2>2, DivModUnique, SizesAssumption
  <2> QED BY <2>3 DEF EraseMask, d
<1>4. CASE ~(b < o)
  <2>1. b - o = 0 * OwnerSize + d
    BY <1>4, SizesAssumption DEF distance_wrapped, TableSize
  <2> HIDE DEF d
  <2>2. (b - o) % OwnerSize = d
    BY <1>2, <2>1, DivModUnique, SizesAssumption
  <2> QED BY <2>2 DEF EraseMask, d
<1> QED BY <1>3, <1>4

-----------------------------------------------------------------------------
\* Ownership and search.

Tables == [Index -> Bucket]

\* The buckets of a table, and their fields.
LEMMA TableType ==
  ASSUME NEW t \in Tables, NEW m, TableSize(m), NEW b \in 0 .. m - 1
  PROVE  b \in Index /\ t[b] \in Bucket /\ t[b].owner \subseteq Position
         /\ t[b].state \in ContentState
<1>1. b \in Index
  BY MaxBucketsType DEF TableSize, Index
<1> QED BY <1>1 DEF Tables, Bucket

\* A store of the content of bucket i.
WithKey(t, i, k) == [t EXCEPT ![i].key = k]

\* A store of a bucket's content leaves its owner and its state alone.
LEMMA KeyChange ==
  ASSUME NEW t \in Tables, NEW i \in Index, NEW k \in Key \cup {NoKey, Torn}
  PROVE  /\ WithKey(t, i, k) \in Tables
         /\ \A b \in Index : /\ WithKey(t, i, k)[b].owner = t[b].owner /\ WithKey(t, i, k)[b].state = t[b].state
                             /\ b # i => WithKey(t, i, k)[b] = t[b]
         /\ WithKey(t, i, k)[i].key = k
BY DEF Tables, Bucket, WithKey

\* An owner claims a bucket if one of its positions leads there.
LEMMA OwnedByPosition ==
  ASSUME NEW t \in Tables, NEW m, TableSize(m), NEW o \in 0 .. m - 1, NEW b \in 0 .. m - 1
  PROVE  OwnedBy(t, o, b, m) <=> \E p \in t[o].owner : b = add_small(o, p, m)
<1>1. t[o].owner \subseteq Position
  BY TableType
<1>2. ASSUME OwnedBy(t, o, b, m) PROVE \E p \in t[o].owner : b = add_small(o, p, m)
  BY ZenonT(30), <1>2, DistanceAdd DEF OwnedBy
<1>3. ASSUME NEW p \in t[o].owner, b = add_small(o, p, m) PROVE OwnedBy(t, o, b, m)
  BY <1>1, <1>3, AddDistance DEF OwnedBy
<1> QED BY <1>2, <1>3

\* nearest_free_bucket returns a free bucket of the table.
LEMMA NearestFreeIsFree ==
  ASSUME NEW t \in Tables, NEW m, TableSize(m), NEW b \in 0 .. m - 1,
         FreeDistances(t, b, m) # {}
  PROVE  /\ nearest_free_bucket(t, b, m) \in 0 .. m - 1
         /\ t[nearest_free_bucket(t, b, m)].state = "FREE"
<1> DEFINE F == FreeDistances(t, b, m)
           near == CHOOSE d \in F : \A e \in F : d <= e
<1>1. F \subseteq Nat
  BY DEF FreeDistances, TableSize
<1>2. \E d \in F : \A e \in F : d <= e
  BY <1>1, Least
<1>3. near \in F
  BY <1>2
<1>4. near \in 0 .. m - 1 /\ is_free(t, add_small(b, near, m))
  BY <1>3 DEF FreeDistances
<1>5. nearest_free_bucket(t, b, m) = add_small(b, near, m)
  BY DEF nearest_free_bucket
<1> HIDE DEF near
<1>6. add_small(b, near, m) \in 0 .. m - 1
  BY <1>4 DEF add_small, TableSize
<1> QED BY <1>4, <1>5, <1>6 DEF is_free

\* locate_key returns a bucket that the key's home owns and that holds it.
LEMMA LocateKeyFinds ==
  ASSUME NEW t \in Tables, NEW m, TableSize(m), NEW k \in Key, Found(t, k, m) # {}
  PROVE  \E p \in t[bucket_ix(k, m)].owner :
           /\ locate_key(t, k, m) = add_small(bucket_ix(k, m), p, m)
           /\ t[locate_key(t, k, m)].key = k
<1> DEFINE o == bucket_ix(k, m)
           F == Found(t, k, m)
           first == CHOOSE p \in F : \A q \in F : p <= q
<1>1. o \in 0 .. m - 1
  BY BucketIxType DEF TableSize
<1>2. F \subseteq Nat
  BY <1>1, TableType, SizesAssumption DEF Found, Position
<1>3. \E p \in F : \A q \in F : p <= q
  BY <1>2, Least
<1>4. first \in F
  BY <1>3
<1>5. locate_key(t, k, m) = add_small(o, first, m)
  BY DEF locate_key
<1> QED BY ZenonT(30), <1>4, <1>5 DEF Found

\* The donor that make_space_for_insert chooses owns the element it gives up.
LEMMA DonorGives ==
  ASSUME NEW t \in Tables, NEW m, TableSize(m), NEW dst \in 0 .. m - 1,
         NEW mask \in mask_all_ones, Donors(t, dst, mask, m) # {}
  PROVE  LET d == DonorDistance(t, dst, mask, m)
             o == subtract_small(dst, d, m)
         IN /\ d \in 1 .. OwnerSize - 1
            /\ o \in 0 .. m - 1
            /\ distance_wrapped(o, dst, m) = d
            /\ DonorPosition(t, dst, mask, m) \in t[o].owner
<1> DEFINE D == Donors(t, dst, mask, m)
           d == DonorDistance(t, dst, mask, m)
           o == subtract_small(dst, d, m)
           c == t[o].owner \cap eligible_items(mask, d)
           back == {OwnerSize - e : e \in D}
<1>1. D \subseteq 1 .. OwnerSize - 1
  BY DEF Donors
<1>2. back \subseteq Nat /\ back # {}
  BY <1>1, SizesAssumption
<1>3. PICK x \in back : \A y \in back : x <= y
  BY ZenonT(30), <1>2, Least
<1>4. \E e \in D : \A f \in D : f <= e
  <2>1. PICK e \in D : x = OwnerSize - e
    BY <1>3
  <2>2. \A f \in D : OwnerSize - e <= OwnerSize - f
    BY <1>3, <2>1
  <2>3. \A f \in D : f <= e
    BY <1>1, <2>2, SizesAssumption
  <2> QED BY <2>3
<1>5. d \in D
  BY <1>4 DEF DonorDistance
<1>6. d \in 1 .. OwnerSize - 1 /\ c # {}
  BY <1>5 DEF Donors
<1>7. d \in Position
  BY <1>6, SizesAssumption DEF Position
<1> HIDE DEF d
<1>8. o \in 0 .. m - 1 /\ distance_wrapped(o, dst, m) = d
  BY <1>7, SubtractDistance
<1>9. c \subseteq Nat
  BY <1>8, TableType, SizesAssumption DEF Position
<1>10. \E p \in c : \A q \in c : p <= q
  BY ZenonT(30), <1>6, <1>9, Least
<1>11. DonorPosition(t, dst, mask, m) = CHOOSE p \in c : \A q \in c : p <= q
  BY DEF DonorPosition, d
<1>12. DonorPosition(t, dst, mask, m) \in c
  BY <1>10, <1>11
<1> QED BY <1>6, <1>8, <1>12 DEF d

-----------------------------------------------------------------------------
\* owned_by_owner_mask in terms of positions.
LEMMA OwnedPosition ==
  ASSUME NEW t \in Tables, NEW m, TableSize(m), NEW b \in 0 .. m - 1
  PROVE  owned_by_owner_mask(t, b, m) <=>
           \E o \in 0 .. m - 1 : \E p \in t[o].owner : b = add_small(o, p, m)
BY OwnedByPosition DEF owned_by_owner_mask

\* The home bucket of its key is the only owner that claims a bucket.
LEMMA HomeDisjoint ==
  ASSUME NEW t \in Tables, NEW m, TableSize(m), HomeOK(t, m),
         NEW o1 \in 0 .. m - 1, NEW o2 \in 0 .. m - 1,
         NEW p1 \in t[o1].owner, NEW p2 \in t[o2].owner,
         add_small(o1, p1, m) = add_small(o2, p2, m)
  PROVE  o1 = o2 /\ p1 = p2
<1>1. o1 = o2
  BY DEF HomeOK
<1>2. p1 \in Position /\ p2 \in Position
  BY TableType
<1>3. p1 = distance_wrapped(o1, add_small(o1, p1, m), m)
  BY <1>2, AddDistance
<1>4. p2 = distance_wrapped(o2, add_small(o2, p2, m), m)
  BY <1>2, AddDistance
<1> QED BY <1>1, <1>3, <1>4

\* Which buckets are owned depends on the owners alone.
LEMMA KeepOwned ==
  ASSUME NEW t \in Tables, NEW u \in Tables, NEW m, TableSize(m),
         \A o \in 0 .. m - 1 : u[o].owner = t[o].owner,
         NEW b \in 0 .. m - 1
  PROVE  owned_by_owner_mask(u, b, m) <=> owned_by_owner_mask(t, b, m)
BY OwnedPosition

\* A change of contents that no owner claims.
LEMMA KeepTable ==
  ASSUME NEW t \in Tables, NEW u \in Tables, NEW m, TableSize(m),
         \A o \in 0 .. m - 1 : u[o].owner = t[o].owner,
         \A b \in 0 .. m - 1 : owned_by_owner_mask(t, b, m) => u[b].key = t[b].key,
         HomeOK(t, m), UniqueOK(t, m)
  PROVE  HomeOK(u, m) /\ UniqueOK(u, m)
<1>1. \A o \in 0 .. m - 1 : \A p \in t[o].owner :
        u[add_small(o, p, m)].key = t[add_small(o, p, m)].key
  <2> TAKE o \in 0 .. m - 1
  <2> TAKE p \in t[o].owner
  <2>1. add_small(o, p, m) \in 0 .. m - 1
    BY TableType, AddDistance
  <2> QED BY <2>1, OwnedPosition
<1> QED BY <1>1 DEF HomeOK, UniqueOK

\* A key that is absent stays so when only unclaimed contents change.
LEMMA KeepAbsent ==
  ASSUME NEW t \in Tables, NEW u \in Tables, NEW m, TableSize(m), NEW k \in Key,
         \A o \in 0 .. m - 1 : u[o].owner = t[o].owner,
         \A b \in 0 .. m - 1 : owned_by_owner_mask(t, b, m) => u[b].key = t[b].key,
         AbsentOK(t, k, m)
  PROVE  AbsentOK(u, k, m)
<1> DEFINE h == bucket_ix(k, m)
<1>1. h \in 0 .. m - 1
  BY BucketIxType DEF TableSize
<1>2. \A p \in t[h].owner : u[add_small(h, p, m)].key = t[add_small(h, p, m)].key
  <2> TAKE p \in t[h].owner
  <2>1. add_small(h, p, m) \in 0 .. m - 1
    BY <1>1, TableType, AddDistance
  <2> QED BY <1>1, <2>1, OwnedPosition
<1> QED BY <1>1, <1>2 DEF AbsentOK

\* A key that its home bucket does not lead to is in no owned bucket.
LEMMA AbsentEverywhere ==
  ASSUME NEW t \in Tables, NEW m, TableSize(m), NEW k \in Key, HomeOK(t, m), AbsentOK(t, k, m),
         NEW b \in 0 .. m - 1, owned_by_owner_mask(t, b, m)
  PROVE  t[b].key # k
<1>1. PICK o \in 0 .. m - 1 : \E p \in t[o].owner : b = add_small(o, p, m)
  BY OwnedPosition
<1> QED BY <1>1 DEF HomeOK, AbsentOK

\* owner::insert
LEMMA GainOwner ==
  ASSUME NEW t \in Tables, NEW u \in Tables, NEW m, TableSize(m),
         NEW o \in 0 .. m - 1, NEW p \in Position,
         u[o].owner = t[o].owner \cup {p},
         \A x \in (0 .. m - 1) \ {o} : u[x].owner = t[x].owner,
         \A b \in 0 .. m - 1 : u[b].key = t[b].key,
         t[add_small(o, p, m)].key \in Key,
         bucket_ix(t[add_small(o, p, m)].key, m) = o,
         \A q \in t[o].owner : t[add_small(o, q, m)].key # t[add_small(o, p, m)].key,
         HomeOK(t, m), UniqueOK(t, m)
  PROVE  /\ HomeOK(u, m)
         /\ UniqueOK(u, m)
         /\ \A b \in 0 .. m - 1 : owned_by_owner_mask(u, b, m) <=>
              owned_by_owner_mask(t, b, m) \/ b = add_small(o, p, m)
<1>1. \A x \in 0 .. m - 1 : \A q \in u[x].owner : q \in Position /\ add_small(x, q, m) \in 0 .. m - 1
  BY TableType, AddDistance
<1>2. \A x \in 0 .. m - 1 : \A q \in u[x].owner : q \in t[x].owner \/ (x = o /\ q = p)
  OBVIOUS
<1>3. \A x \in 0 .. m - 1 : t[x].owner \subseteq u[x].owner
  OBVIOUS
<1>4. HomeOK(u, m)
  BY <1>1, <1>2 DEF HomeOK
<1>5. UniqueOK(u, m)
  BY <1>1, <1>2 DEF UniqueOK
<1>6. ASSUME NEW b \in 0 .. m - 1
      PROVE  owned_by_owner_mask(u, b, m) <=>
               owned_by_owner_mask(t, b, m) \/ b = add_small(o, p, m)
  BY <1>2, <1>3, OwnedPosition
<1> QED BY <1>4, <1>5, <1>6

\* owner::erase
LEMMA LoseOwner ==
  ASSUME NEW t \in Tables, NEW u \in Tables, NEW m, TableSize(m),
         NEW o \in 0 .. m - 1, NEW p \in t[o].owner,
         u[o].owner = t[o].owner \ {p},
         \A x \in (0 .. m - 1) \ {o} : u[x].owner = t[x].owner,
         \A b \in 0 .. m - 1 : u[b].key = t[b].key,
         HomeOK(t, m), UniqueOK(t, m)
  PROVE  /\ HomeOK(u, m)
         /\ UniqueOK(u, m)
         /\ \A b \in 0 .. m - 1 : owned_by_owner_mask(u, b, m) <=>
              owned_by_owner_mask(t, b, m) /\ b # add_small(o, p, m)
<1>1. \A x \in 0 .. m - 1 : \A q \in t[x].owner : q \in Position /\ add_small(x, q, m) \in 0 .. m - 1
  BY TableType, AddDistance
<1>2. \A x \in 0 .. m - 1 : \A q : q \in u[x].owner <=> q \in t[x].owner /\ ~(x = o /\ q = p)
  OBVIOUS
<1>3. HomeOK(u, m)
  BY <1>1, <1>2 DEF HomeOK
<1>4. UniqueOK(u, m)
  BY <1>1, <1>2 DEF UniqueOK
<1>5. ASSUME NEW b \in 0 .. m - 1
      PROVE  owned_by_owner_mask(u, b, m) <=>
               owned_by_owner_mask(t, b, m) /\ b # add_small(o, p, m)
  <2>1. ASSUME NEW x \in 0 .. m - 1, NEW q \in t[x].owner,
               add_small(x, q, m) = add_small(o, p, m)
        PROVE  x = o /\ q = p
    BY <2>1, HomeDisjoint
  <2> QED BY <1>2, <2>1, OwnedPosition
<1> QED BY <1>3, <1>4, <1>5

\* owner::move
LEMMA MoveOwner ==
  ASSUME NEW t \in Tables, NEW u \in Tables, NEW m, TableSize(m),
         NEW o \in 0 .. m - 1, NEW d \in Position, NEW s \in t[o].owner, d \notin t[o].owner,
         u[o].owner = move(t[o].owner, d, s),
         \A x \in (0 .. m - 1) \ {o} : u[x].owner = t[x].owner,
         \A b \in 0 .. m - 1 : u[b].key = t[b].key,
         t[add_small(o, d, m)].key = t[add_small(o, s, m)].key,
         HomeOK(t, m), UniqueOK(t, m)
  PROVE  /\ HomeOK(u, m)
         /\ UniqueOK(u, m)
         /\ \A b \in 0 .. m - 1 : owned_by_owner_mask(u, b, m) <=>
              (owned_by_owner_mask(t, b, m) \/ b = add_small(o, d, m)) /\ b # add_small(o, s, m)
<1>1. \A x \in 0 .. m - 1 : \A q \in t[x].owner : q \in Position /\ add_small(x, q, m) \in 0 .. m - 1
  BY TableType, AddDistance
<1>2. \A x \in 0 .. m - 1 : \A q : q \in u[x].owner <=>
        (q \in t[x].owner /\ ~(x = o /\ q = s)) \/ (x = o /\ q = d)
  BY DEF move
<1>3. add_small(o, d, m) \in 0 .. m - 1 /\ add_small(o, d, m) # add_small(o, s, m)
  BY <1>1, AddDistance
<1>4. HomeOK(u, m)
  BY <1>1, <1>2, <1>3 DEF HomeOK
<1>5. UniqueOK(u, m)
  BY <1>1, <1>2, <1>3 DEF UniqueOK
<1>6. ASSUME NEW b \in 0 .. m - 1
      PROVE  owned_by_owner_mask(u, b, m) <=>
               (owned_by_owner_mask(t, b, m) \/ b = add_small(o, d, m)) /\ b # add_small(o, s, m)
  <2>1. ASSUME NEW x \in 0 .. m - 1, NEW q \in t[x].owner,
               add_small(x, q, m) = add_small(o, s, m)
        PROVE  x = o /\ q = s
    BY ZenonT(30), <2>1, HomeDisjoint
  <2> QED BY <1>2, <1>3, <2>1, OwnedPosition
<1> QED BY <1>4, <1>5, <1>6

\* Content states go on agreeing with the owners if neither changes.
LEMMA KeepStates ==
  ASSUME NEW t \in Tables, NEW u \in Tables, NEW m, TableSize(m), NEW X, NEW Y, X \subseteq Y,
         \A o \in 0 .. m - 1 : u[o].owner = t[o].owner,
         \A b \in (0 .. m - 1) \ Y : u[b].state = t[b].state,
         StatesOK(t, m, X)
  PROVE  StatesOK(u, m, Y)
BY KeepOwned DEF StatesOK

-----------------------------------------------------------------------------
\* The counters.

Counters == SizeOK /\ CountOK /\ SegmentsOK /\ KeyedOK

\* destabilize and stabilize undo each other.
LEMMA UndoSize == \A v \in Size : stabilize(destabilize(v)) = v
<1> TAKE v \in Size
<1>1. v = [val |-> v.val, unst |-> v.unst] /\ v.unst \in Int
  BY DEF Size
<1>2. destabilize(v) = [val |-> v.val, unst |-> v.unst + 1]
  BY DEF Size, destabilize
<1>3. stabilize([val |-> v.val, unst |-> v.unst + 1]) = [val |-> v.val, unst |-> (v.unst + 1) - 1]
  BY DEF stabilize
<1>4. (v.unst + 1) - 1 = v.unst
  BY <1>1
<1> QED BY <1>1, <1>2, <1>3, <1>4

\* The same for the segment count.
LEMMA UndoCount == \A v \in Count : stabilize(destabilize(v)) = v
<1> TAKE v \in Count
<1>1. v = [val |-> v.val, unst |-> v.unst] /\ v.unst \in Int
  BY DEF Count
<1>2. destabilize(v) = [val |-> v.val, unst |-> v.unst + 1]
  BY DEF Count, destabilize
<1>3. stabilize([val |-> v.val, unst |-> v.unst + 1]) = [val |-> v.val, unst |-> (v.unst + 1) - 1]
  BY DEF stabilize
<1>4. (v.unst + 1) - 1 = v.unst
  BY <1>1
<1> QED BY <1>1, <1>2, <1>3, <1>4

\* value_unstable's counter is 0 or 1: the table has one thread.
LEMMA UnstBit ==
  ASSUME TypeOK
  PROVE  /\ size.unst \in {0, 1} /\ psize.unst \in {0, 1}
         /\ count.unst \in {0, 1} /\ pcount.unst \in {0, 1}
BY DEF TypeOK, Size, Count

\* A segment count that says a doubling is under way leaves room for it.
LEMMA UnstableCountHasRoom ==
  ASSUME TypeOK, CountOK, pcount.unst = 1
  PROVE  pcount.val < SegmentCapacity
<1>1. CASE pc = "rsz_marked"
  BY <1>1 DEF TypeOK, CountOK, Count, Doubling, stabilize
<1>2. CASE pc = "rsz_done"
  BY <1>2, SizesAssumption DEF TypeOK, CountOK, Count
<1>3. CASE pc \notin {"rsz_marked", "rsz_done"}
  BY <1>3 DEF CountOK
<1> QED BY <1>1, <1>2, <1>3

\* Every action keeps the two counters, the segment pointers and the key of the
\* operation in step with the point reached.
LEMMA CountersStep ==
  ASSUME TypeOK, Counters, Next
  PROVE  Counters'
<1> USE DEF TypeOK, Counters, SizeOK, CountOK, SegmentsOK, KeyedOK, Size, Count, Op,
            Entering, Unstable, Leaving, Hopping, Inserting, Erasing, Doubling,
            destabilize, stabilize
<1>1. ASSUME NEW k \in Key, Emplace(k) \/ Erase(k) PROVE Counters'
  BY <1>1 DEF Emplace, Erase, NoOp
<1>2. CASE AlreadyPresent
  BY <1>2 DEF AlreadyPresent
<1>3. CASE NearestFree
  BY <1>3 DEF NearestFree
<1>4. CASE HopHashFull
  BY <1>4 DEF HopHashFull, NoNearEmptyBucket
<1>5. CASE MoveStuck
  BY <1>5 DEF MoveStuck, NoNearEmptyBucket
<1>6. CASE HopShare
  <2>1. op'.key = op.key
    BY <1>6 DEF HopShare
  <2>2. pc = "space" /\ pc' = "hop_unstable" /\ size' = destabilize(size)
        /\ UNCHANGED <<psize, count, pcount, sc, psc>>
    BY <1>6 DEF HopShare
  <2>3. stabilize(size') = size
    BY ZenonT(60), <2>2, UndoSize
  <2> QED BY <2>1, <2>2, <2>3
<1>7. CASE HopFreeSource
  BY <1>7 DEF HopFreeSource
<1>8. CASE HopUseDestination
  BY <1>8 DEF HopUseDestination
<1>9. CASE HopMoveOwner
  BY <1>9 DEF HopMoveOwner
<1>10. CASE HopStabilize
  BY <1>10 DEF HopStabilize, SizeChange
<1>11. CASE HopDone
  BY <1>11 DEF HopDone
<1>12. CASE Construct
  <2>1. stabilize(size') = size
    BY ZenonT(60), <1>12, UndoSize DEF Construct
  <2> QED BY <1>12, <2>1 DEF Construct
<1>13. CASE InsertContent
  BY <1>13 DEF InsertContent
<1>14. CASE InsertOwner
  BY <1>14 DEF InsertOwner
<1>15. CASE InsertStabilize
  BY <1>15 DEF InsertStabilize, SizeChange
<1>16. CASE InsertDone
  BY <1>16 DEF InsertDone
<1>17. CASE NoSuchElement
  BY <1>17 DEF NoSuchElement
<1>18. CASE EraseUnstable
  <2>1. stabilize(size') = size
    BY ZenonT(60), <1>18, UndoSize DEF EraseUnstable
  <2> QED BY <1>18, <2>1 DEF EraseUnstable
<1>19. CASE EraseOwner
  BY <1>19 DEF EraseOwner
<1>20. CASE EraseContent
  BY <1>20 DEF EraseContent
<1>21. CASE EraseStabilize
  BY <1>21 DEF EraseStabilize, SizeChange
<1>22. CASE EraseDone
  BY <1>22 DEF EraseDone
<1>23. CASE Return
  BY <1>23 DEF Return
<1>24. CASE ResizePass1
  BY ZenonT(60), <1>24 DEF ResizePass1
<1>25. CASE ResizeInterlog
  <2>1. stabilize(count') = count
    BY ZenonT(60), <1>25, UndoCount DEF ResizeInterlog
  <2> QED BY <1>25, <2>1 DEF ResizeInterlog
<1>26. CASE ResizePass2Begin
  BY <1>26 DEF ResizePass2Begin
<1>27. CASE ResizePass2
  BY <1>27 DEF ResizePass2, NextPair
<1>28. CASE ResizePass2Free
  BY <1>28 DEF ResizePass2Free, NextPair
<1>29. CASE ResizeEpilog
  BY <1>29 DEF ResizeEpilog
<1>30. CASE ResizeDone
  BY <1>30 DEF ResizeDone
<1>31. CASE Writeback
  BY <1>31 DEF Writeback, Evict
<1>32. CASE Crash
  <2>1. pc' = "recover" /\ size' = psize /\ psize' = psize /\ count' = pcount /\ pcount' = pcount
        /\ sc' = psc /\ psc' = psc
    BY <1>32 DEF Crash
  <2>2. SizeOK'
    <3>1. pcount.unst = 1 => psize.unst = 0
      OBVIOUS
    <3> QED BY <2>1, <3>1
  <2>3. CountOK'
    BY <2>1, UnstableCountHasRoom
  <2>4. SegmentsOK'
    BY <2>1
  <2> QED BY <2>1, <2>2, <2>3, <2>4
<1>33. CASE Reconstitute
  BY <1>33 DEF Reconstitute, is_stable
<1>34. CASE ScanNotNeeded
  BY <1>34 DEF ScanNotNeeded, is_stable
<1>35. CASE ScanStates
  <2>1. size.unst = 1 /\ psize = size /\ count.unst = 0 /\ pcount.unst = 0
        /\ UNCHANGED <<size, psize, count, pcount>> /\ pc' = "scan_states"
    BY ZenonT(60), <1>35, UnstBit DEF ScanStates, is_stable
  <2>3. SizeOK'
    BY <2>1
  <2>2. CountOK' /\ SegmentsOK' /\ KeyedOK'
    BY ZenonT(60), <1>35 DEF ScanStates
  <2> QED BY <2>2, <2>3
<1>36. CASE ScanSize
  BY <1>36 DEF ScanSize
<1>37. CASE ScanDone
  BY <1>37 DEF ScanDone
<1> QED BY ZenonT(60), <1>1, <1>2, <1>3, <1>4, <1>5, <1>6, <1>7, <1>8, <1>9, <1>10, <1>11, <1>12, <1>13,
           <1>14, <1>15, <1>16, <1>17, <1>18, <1>19, <1>20, <1>21, <1>22, <1>23, <1>24, <1>25,
           <1>26, <1>27, <1>28, <1>29, <1>30, <1>31, <1>32, <1>33, <1>34, <1>35, <1>36, <1>37
           DEF Next, Step

-----------------------------------------------------------------------------
\* The steps of emplace and erase.

Phases == QuietOK /\ SpaceOK /\ HopOK /\ InsertOK /\ EraseOK /\ RecoverOK /\ DoublingOK

Whole == WholeOK(line) /\ WholeOK(pline)

\* The types that the proofs use, spelled out.
LEMMA Typing ==
  ASSUME TypeOK
  PROVE  /\ line \in Tables /\ pline \in Tables
         /\ n \in Nat \ {0} /\ TableSize(n)
         /\ op.dst \in Index /\ op.src \in Index /\ op.own \in Index
BY BucketCountIsTableSize DEF TypeOK, Tables, n, Count, Op, TableSize

\* A doubling leaves nothing to show at the points outside it.
LEMMA NotDoubling ==
  ASSUME CountOK', pc' \notin Doubling \cup {"recover", "rsz_copied", "rsz_done"}
  PROVE  DoublingOK'
<1>1. count'.unst = 0
  BY DEF CountOK
<1>2. /\ pc' # "rsz_copied" /\ pc' # "rsz_marked" /\ pc' # "recover"
      /\ pc' # "pass2" /\ pc' # "pass2_adjusted" /\ pc' # "rsz_done"
  BY DEF Doubling
<1>3. CopiedOK' /\ RestartOK' /\ PassOK'
  BY <1>2 DEF CopiedOK, RestartOK, PassOK
<1>4. PairedOK'
  BY <1>1 DEF PairedOK
<1>5. AdjustedOK' /\ DoubledOK'
  BY <1>2 DEF AdjustedOK, DoubledOK
<1> QED BY <1>3, <1>4, <1>5 DEF DoublingOK

\* Points of one group leave nothing to show of the others.
LEMMA OnlyHop ==
  ASSUME Counters', pc' \in Hopping, HopOK'
  PROVE  Phases'
<1>1. /\ pc' \notin Doubling \cup {"recover", "rsz_copied", "rsz_done"}
      /\ pc' \notin Inserting /\ pc' \notin Erasing /\ pc' # "space"
      /\ pc' \notin {"idle", "ret", "try", "find", "resize", "scan_size"}
      /\ pc' \notin {"recover", "scan"} /\ pc' # "scan_states"
  BY DEF Hopping, Inserting, Erasing, Doubling
<1>2. DoublingOK'
  BY <1>1, NotDoubling DEF Counters
<1>3. QuietOK'
  BY <1>1 DEF QuietOK
<1>4. SpaceOK'
  BY <1>1 DEF SpaceOK
<1>5. InsertOK'
  BY <1>1 DEF InsertOK
<1>6. EraseOK'
  BY <1>1 DEF EraseOK
<1>7. RecoverOK'
  BY <1>1 DEF RecoverOK
<1> QED BY <1>2, <1>3, <1>4, <1>5, <1>6, <1>7 DEF Phases

\* Likewise for make_space_for_insert between two hops.
LEMMA OnlySpace ==
  ASSUME Counters', pc' = "space", SpaceOK'
  PROVE  Phases'
<1>1. /\ pc' \notin Doubling \cup {"recover", "rsz_copied", "rsz_done"}
      /\ pc' \notin Hopping /\ pc' \notin Inserting /\ pc' \notin Erasing
      /\ pc' \notin {"idle", "ret", "try", "find", "resize", "scan_size"}
      /\ pc' \notin {"recover", "scan"} /\ pc' # "scan_states"
  BY DEF Hopping, Inserting, Erasing, Doubling
<1>2. DoublingOK'
  BY <1>1, NotDoubling DEF Counters
<1>3. QuietOK'
  BY <1>1 DEF QuietOK
<1>4. HopOK'
  BY <1>1 DEF HopOK
<1>5. InsertOK'
  BY <1>1 DEF InsertOK
<1>6. EraseOK'
  BY <1>1 DEF EraseOK
<1>7. RecoverOK'
  BY <1>1 DEF RecoverOK
<1> QED BY <1>2, <1>3, <1>4, <1>5, <1>6, <1>7 DEF Phases

\* Likewise for the four-step change of emplace.
LEMMA OnlyInsert ==
  ASSUME Counters', pc' \in Inserting, InsertOK'
  PROVE  Phases'
<1>1. /\ pc' \notin Doubling \cup {"recover", "rsz_copied", "rsz_done"}
      /\ pc' \notin Hopping /\ pc' \notin Erasing /\ pc' # "space"
      /\ pc' \notin {"idle", "ret", "try", "find", "resize", "scan_size"}
      /\ pc' \notin {"recover", "scan"} /\ pc' # "scan_states"
  BY DEF Hopping, Inserting, Erasing, Doubling
<1>2. DoublingOK'
  BY <1>1, NotDoubling DEF Counters
<1>3. QuietOK'
  BY <1>1 DEF QuietOK
<1>4. SpaceOK'
  BY <1>1 DEF SpaceOK
<1>5. HopOK'
  BY <1>1 DEF HopOK
<1>6. EraseOK'
  BY <1>1 DEF EraseOK
<1>7. RecoverOK'
  BY <1>1 DEF RecoverOK
<1> QED BY <1>2, <1>3, <1>4, <1>5, <1>6, <1>7 DEF Phases

\* Likewise for erase.
LEMMA OnlyErase ==
  ASSUME Counters', pc' \in Erasing, EraseOK'
  PROVE  Phases'
<1>1. /\ pc' \notin Doubling \cup {"recover", "rsz_copied", "rsz_done"}
      /\ pc' \notin Hopping /\ pc' \notin Inserting /\ pc' # "space"
      /\ pc' \notin {"idle", "ret", "try", "find", "resize", "scan_size"}
      /\ pc' \notin {"recover", "scan"} /\ pc' # "scan_states"
  BY DEF Hopping, Inserting, Erasing, Doubling
<1>2. DoublingOK'
  BY <1>1, NotDoubling DEF Counters
<1>3. QuietOK'
  BY <1>1 DEF QuietOK
<1>4. SpaceOK'
  BY <1>1 DEF SpaceOK
<1>5. HopOK'
  BY ZenonT(30), <1>1 DEF HopOK
<1>6. InsertOK'
  BY <1>1 DEF InsertOK
<1>7. RecoverOK'
  BY <1>1 DEF RecoverOK
<1> QED BY <1>2, <1>3, <1>4, <1>5, <1>6, <1>7 DEF Phases

\* Likewise for the points at which every line is in memory.
LEMMA OnlyQuiet ==
  ASSUME Counters', pc' \in {"idle", "ret", "try", "find", "resize", "scan_size"},
         Table({})', Same({})'
  PROVE  Phases'
<1>1. /\ pc' \notin Doubling \cup {"recover", "rsz_copied", "rsz_done"}
      /\ pc' \notin Hopping /\ pc' \notin Inserting /\ pc' \notin Erasing /\ pc' # "space"
      /\ pc' \notin {"recover", "scan"} /\ pc' # "scan_states"
  BY DEF Hopping, Inserting, Erasing, Doubling
<1>2. DoublingOK'
  BY <1>1, NotDoubling DEF Counters
<1>3. QuietOK'
  BY <1>1 DEF QuietOK
<1>4. SpaceOK'
  BY <1>1 DEF SpaceOK
<1>5. HopOK'
  BY <1>1 DEF HopOK
<1>6. InsertOK'
  BY <1>1 DEF InsertOK
<1>7. EraseOK'
  BY ZenonT(30), <1>1 DEF EraseOK
<1>8. RecoverOK'
  BY <1>1 DEF RecoverOK
<1> QED BY <1>2, <1>3, <1>4, <1>5, <1>6, <1>7, <1>8 DEF Phases

\* Likewise for the scan of the constructor.
LEMMA OnlyRecover ==
  ASSUME Counters', pc' \in {"scan", "scan_states"}, RecoverOK'
  PROVE  Phases'
<1>1. /\ pc' \notin Doubling \cup {"recover", "rsz_copied", "rsz_done"}
      /\ pc' \notin Hopping /\ pc' \notin Inserting /\ pc' \notin Erasing /\ pc' # "space"
      /\ pc' \notin {"idle", "ret", "try", "find", "resize", "scan_size"}
  BY DEF Hopping, Inserting, Erasing, Doubling
<1>2. DoublingOK'
  BY <1>1, NotDoubling DEF Counters
<1>3. QuietOK'
  BY <1>1 DEF QuietOK
<1>4. SpaceOK'
  BY <1>1 DEF SpaceOK
<1>5. HopOK'
  BY <1>1 DEF HopOK
<1>6. InsertOK'
  BY <1>1 DEF InsertOK
<1>7. EraseOK'
  BY <1>1 DEF EraseOK
<1> QED BY <1>2, <1>3, <1>4, <1>5, <1>6, <1>7 DEF Phases

\* Likewise for resize.
LEMMA OnlyDoubling ==
  ASSUME Counters', pc' \in Doubling \cup {"rsz_copied", "rsz_done"}, DoublingOK'
  PROVE  Phases'
<1>1. /\ pc' \notin Hopping /\ pc' \notin Inserting /\ pc' \notin Erasing /\ pc' # "space"
      /\ pc' \notin {"idle", "ret", "try", "find", "resize", "scan_size"}
      /\ pc' \notin {"recover", "scan"} /\ pc' # "scan_states"
  BY DEF Hopping, Inserting, Erasing, Doubling
<1>2. QuietOK' /\ SpaceOK'
  BY <1>1 DEF QuietOK, SpaceOK
<1>3. HopOK'
  BY <1>1 DEF HopOK
<1>4. InsertOK'
  BY <1>1 DEF InsertOK
<1>5. EraseOK'
  BY <1>1 DEF EraseOK
<1>6. RecoverOK'
  BY <1>1 DEF RecoverOK
<1> QED BY <1>2, <1>3, <1>4, <1>5, <1>6 DEF Phases

\* Steps that change nothing but the point reached.
LEMMA QuietSteps ==
  ASSUME IInv, Counters',
         \/ \E k \in Key : Emplace(k) \/ Erase(k)
         \/ AlreadyPresent \/ NoSuchElement \/ Return \/ InsertDone \/ EraseDone
         \/ ScanDone \/ ScanNotNeeded
  PROVE  TypeOK' /\ Whole' /\ Phases'
<1>1. pc' \in {"idle", "ret", "try", "find"} /\ op' \in Op
  <2>1. NoOp \in Op /\ \A k \in Key : [NoOp EXCEPT !.key = k] \in Op
    BY MaxBucketsType DEF NoOp, Op, Index
  <2>2. \A res \in {"present", "absent", "inserted", "erased"} : [op EXCEPT !.res = res] \in Op
    BY DEF IInv, TypeOK, Op
  <2>3. op \in Op
    BY DEF IInv, TypeOK
  <2>4. CASE \E k \in Key : Emplace(k) \/ Erase(k)
    BY <2>1, <2>4 DEF Emplace, Erase
  <2>5. CASE AlreadyPresent \/ NoSuchElement \/ Return
    BY <2>1, <2>2, <2>5 DEF AlreadyPresent, NoSuchElement, Return
  <2>6. CASE InsertDone \/ EraseDone
    BY <2>2, <2>6 DEF InsertDone, EraseDone
  <2>7. CASE ScanDone \/ ScanNotNeeded
    BY <2>3, <2>7 DEF ScanDone, ScanNotNeeded
  <2> QED BY <2>4, <2>5, <2>6, <2>7
<1>2. UNCHANGED <<line, pline, size, count, pcount, sc, psc, heap>> /\ psize' \in {psize, size}
  <2>1. CASE \E k \in Key : Emplace(k) \/ Erase(k)
    BY <2>1 DEF Emplace, Erase
  <2>2. CASE AlreadyPresent \/ NoSuchElement \/ Return
    BY <2>2 DEF AlreadyPresent, NoSuchElement, Return
  <2>3. CASE InsertDone \/ EraseDone
    BY <2>3 DEF InsertDone, EraseDone
  <2>4. CASE ScanDone \/ ScanNotNeeded
    BY <2>4 DEF ScanDone, ScanNotNeeded
  <2> QED BY <2>1, <2>2, <2>3, <2>4
<1>3. Table({}) /\ Same({})
  <2>1. CASE \E k \in Key : Emplace(k) \/ Erase(k)
    BY <2>1 DEF IInv, QuietOK, Emplace, Erase
  <2>2. CASE AlreadyPresent \/ NoSuchElement \/ Return
    BY <2>2 DEF IInv, QuietOK, AlreadyPresent, NoSuchElement, Return
  <2>3. CASE InsertDone
    BY <2>3 DEF IInv, InsertOK, Inserting, InsertDone
  <2>4. CASE EraseDone
    BY <2>4 DEF IInv, EraseOK, Erasing, EraseDone
  <2>5. CASE ScanDone
    BY <2>5 DEF IInv, QuietOK, ScanDone
  <2>6. CASE ScanNotNeeded
    BY <2>6 DEF IInv, RecoverOK, CountOK, Doubling, is_stable, Table, ScanNotNeeded
  <2> QED BY <2>1, <2>2, <2>3, <2>4, <2>5, <2>6
<1>4. TypeOK'
  BY <1>1, <1>2 DEF IInv, TypeOK, Pc
<1>5. Whole'
  BY <1>2 DEF IInv, Whole, WholeOK
<1>6. Table({})' /\ Same({})'
  BY <1>2, <1>3 DEF Table, Same, n
<1> QED BY <1>1, <1>4, <1>5, <1>6, OnlyQuiet

\* emplace has found a free bucket for an absent key.
LEMMA NearestFreeStep ==
  ASSUME IInv, Counters', NearestFree
  PROVE  TypeOK' /\ Whole' /\ Phases'
<1> DEFINE d == nearest_free_bucket(line, home, n)
<1>1. TypeOK /\ Table({}) /\ Same({}) /\ op.key \in Key
  BY DEF IInv, QuietOK, KeyedOK, NearestFree
<1>2. line \in Tables /\ TableSize(n) /\ home \in 0 .. n - 1
  BY <1>1, Typing, BucketIxType DEF home
<1>3. d \in 0 .. n - 1 /\ d < n /\ line[d].state = "FREE"
  BY <1>2, NearestFreeIsFree DEF NearestFree, TableSize
<1>4. d \in Index
  BY <1>2, <1>3, TableType
<1> HIDE DEF d
<1>5. /\ pc' = "space" /\ op' = [op EXCEPT !.dst = d]
      /\ UNCHANGED <<line, pline, size, psize, count, pcount, sc, psc, heap>>
  BY DEF NearestFree, d
<1>6. op' \in Op /\ op'.dst = d /\ op'.key = op.key
  BY <1>1, <1>4, <1>5 DEF TypeOK, Op
<1>7. AbsentOK(line, op.key, n)
  BY DEF NearestFree, Found, AbsentOK
<1>8. TypeOK'
  BY <1>1, <1>5, <1>6 DEF TypeOK, Pc
<1>9. Whole'
  BY <1>5 DEF IInv, Whole, WholeOK
<1>10. SpaceOK'
  BY <1>1, <1>3, <1>5, <1>6, <1>7, <1>2 DEF SpaceOK, Table, Same, n
<1> QED BY <1>5, <1>8, <1>9, <1>10, OnlySpace

\* emplace has found no room.
LEMMA NoRoomStep ==
  ASSUME IInv, Counters', HopHashFull \/ MoveStuck
  PROVE  TypeOK' /\ Whole' /\ Phases'
<1>1. TypeOK /\ Table({}) /\ Same({})
  BY DEF IInv, QuietOK, SpaceOK, HopHashFull, MoveStuck
<1>2. /\ pc' \in {"resize", "ret"} /\ op' \in {op, [op EXCEPT !.res = "full"]}
      /\ UNCHANGED <<line, pline, size, psize, count, pcount, sc, psc, heap>>
  BY DEF HopHashFull, MoveStuck, NoNearEmptyBucket
<1>3. TypeOK'
  BY <1>1, <1>2 DEF TypeOK, Pc, Op
<1>4. Whole'
  BY <1>2 DEF IInv, Whole, WholeOK
<1>5. Table({})' /\ Same({})'
  BY <1>1, <1>2 DEF Table, Same, n
<1> QED BY ZenonT(60), <1>2, <1>3, <1>4, <1>5, OnlyQuiet

-----------------------------------------------------------------------------
\* make_space_for_insert

\* The size after size_stabilize.
LEMMA SizeChangeType ==
  ASSUME NEW v \in Size, v.unst = 1, NEW delta \in Int
  PROVE  SizeChange(v, delta) \in Size
<1>1. PICK a \in Int : v = [val |-> a, unst |-> 1]
  BY DEF Size
<1>2. SizeChange(v, delta) = [val |-> a + delta, unst |-> 0]
  <2>1. [v EXCEPT !.val = @ + delta] = [val |-> a + delta, unst |-> 1]
    BY <1>1
  <2>2. [[val |-> a + delta, unst |-> 1] EXCEPT !.unst = @ - 1] = [val |-> a + delta, unst |-> 0]
    OBVIOUS
  <2> QED BY ZenonT(60), <2>1, <2>2 DEF SizeChange, stabilize
<1> QED BY <1>2 DEF Size

\* The buckets that a hop is about.
LEMMA HopTyping ==
  ASSUME IInv, pc \in Hopping
  PROVE  /\ TypeOK /\ line \in Tables /\ pline \in Tables /\ TableSize(n) /\ n \in Nat
         /\ op \in Op /\ op.key \in Key
         /\ op.dst \in 0 .. n - 1 /\ op.src \in 0 .. n - 1 /\ op.own \in 0 .. n - 1
         /\ op.dst \in Index /\ op.src \in Index /\ op.own \in Index
         /\ 0 .. n - 1 \subseteq Index
<1>1. TypeOK /\ op.key \in Key /\ op.dst < n /\ op.src < n /\ op.own < n
  BY DEF IInv, HopOK, KeyedOK
<1>2. line \in Tables /\ pline \in Tables /\ TableSize(n) /\ n \in Nat /\ op \in Op
  BY <1>1, Typing DEF TypeOK
<1>3. op.dst \in Index /\ op.src \in Index /\ op.own \in Index
  BY <1>1, Typing
<1>4. 0 .. n - 1 \subseteq Index
  BY <1>2, TableType
<1>5. op.dst \in 0 .. n - 1 /\ op.src \in 0 .. n - 1 /\ op.own \in 0 .. n - 1
  BY <1>1, <1>2, <1>3 DEF Index
<1> QED BY ZenonT(30), <1>1, <1>2, <1>3, <1>4, <1>5

\* make_space_for_insert: content_share into the free bucket.
LEMMA HopShareStep ==
  ASSUME IInv, Counters', HopShare
  PROVE  TypeOK' /\ Whole' /\ Phases'
<1>1. /\ TypeOK /\ Table({}) /\ Same({}) /\ op.key \in Key
      /\ AbsentOK(line, op.key, n) /\ op.dst < n /\ line[op.dst].state = "FREE"
  BY DEF IInv, SpaceOK, KeyedOK, HopShare
<1>2. line \in Tables /\ pline \in Tables /\ TableSize(n) /\ op.dst \in 0 .. n - 1
  BY <1>1, Typing DEF Index
<1>3. PICK mask \in mask_all_ones :
        /\ Donors(line, op.dst, mask, n) # {}
        /\ LET own == subtract_small(op.dst, DonorDistance(line, op.dst, mask, n), n)
               src == add_small(own, DonorPosition(line, op.dst, mask, n), n)
           IN /\ op' = [op EXCEPT !.own = own, !.src = src]
              /\ line' = [line EXCEPT ![op.dst].key = line[src].key]
  BY ZenonT(60) DEF HopShare
<1> DEFINE own == subtract_small(op.dst, DonorDistance(line, op.dst, mask, n), n)
           pos == DonorPosition(line, op.dst, mask, n)
           src == add_small(own, pos, n)
<1>4. /\ own \in 0 .. n - 1 /\ distance_wrapped(own, op.dst, n) \in Position
      /\ pos \in line[own].owner
  BY <1>2, <1>3, DonorGives, SizesAssumption DEF Position
<1>5. op' = [op EXCEPT !.own = own, !.src = src] /\ line' = [line EXCEPT ![op.dst].key = line[src].key]
  BY <1>3
<1> HIDE DEF own, pos
<1>6. src \in 0 .. n - 1 /\ distance_wrapped(own, src, n) = pos /\ pos \in Position
  BY ZenonT(30), <1>2, <1>4, TableType, AddDistance
<1>7. owned_by_owner_mask(line, src, n) /\ ~owned_by_owner_mask(line, op.dst, n)
  <2>1. owned_by_owner_mask(line, src, n)
    BY ZenonT(30), <1>2, <1>4, <1>6, OwnedPosition
  <2> QED BY ZenonT(30), <1>1, <1>2, <2>1 DEF Table, StatesOK
<1>8. src # op.dst /\ line[src].state = "IN_USE" /\ line[src].key \in Key
  BY ZenonT(30), <1>1, <1>4, <1>6, <1>7 DEF Table, StatesOK, HomeOK
<1>9. distance_wrapped(own, op.dst, n) \notin line[own].owner
  <2>1. add_small(own, distance_wrapped(own, op.dst, n), n) = op.dst
    BY <1>2, <1>4, DistanceAdd
  <2> QED BY <1>2, <1>4, <1>7, <2>1, OwnedPosition
<1> HIDE DEF src
<1>10. /\ pc' = "hop_unstable" /\ size' = destabilize(size)
       /\ UNCHANGED <<psize, count, pcount, sc, psc, heap>>
       /\ \E half \in HalfWritten(op.dst) : pline' = [pline EXCEPT ![op.dst] = half]
  BY ZenonT(60) DEF HopShare
<1>11. /\ op' \in Op /\ op'.key = op.key /\ op'.dst = op.dst /\ op'.own = own /\ op'.src = src
  BY ZenonT(60), <1>1, <1>2, <1>4, <1>5, <1>6, TableType DEF TypeOK, Op
<1>12. /\ line' \in Tables /\ pline' \in Tables
       /\ \A b \in Index : /\ line'[b].owner = line[b].owner /\ line'[b].state = line[b].state
                           /\ b # op.dst => line'[b] = line[b] /\ pline'[b] = pline[b]
       /\ line'[op.dst].key = line[src].key
       /\ pline'[op.dst].owner = line[op.dst].owner /\ pline'[op.dst].state = "FREE"
  <2>1. op.dst \in Index /\ src \in Index
    BY <1>2, <1>6, TableType
  <2>2. pline[op.dst] = line[op.dst]
    BY <1>1, <2>1 DEF Same
  <2>3. \A half \in HalfWritten(op.dst) :
          half \in Bucket /\ half.owner = line[op.dst].owner /\ half.state = "FREE"
    BY <1>1, <1>2, <2>1, <2>2 DEF HalfWritten, Tables, Bucket
  <2>4. pline' \in Tables /\ pline'[op.dst].owner = line[op.dst].owner
        /\ pline'[op.dst].state = "FREE" /\ \A b \in Index : b # op.dst => pline'[b] = pline[b]
    BY <1>2, <1>10, <2>1, <2>3 DEF Tables
  <2>5. /\ line \in Tables /\ line[src].key \in Key \cup {NoKey, Torn}
        /\ line' = WithKey(line, op.dst, line[src].key)
    BY <1>2, <1>5, <1>8 DEF WithKey
  <2>6. /\ line' \in Tables
        /\ \A b \in Index : /\ line'[b].owner = line[b].owner /\ line'[b].state = line[b].state
                            /\ b # op.dst => line'[b] = line[b]
        /\ line'[op.dst].key = line[src].key
    BY <2>1, <2>5, KeyChange
  <2> QED BY <2>4, <2>6
<1>13. n' = n /\ 0 .. n - 1 \subseteq Index
  BY <1>2, <1>10, TableType DEF n
<1>14. AbsentOK(line', op.key, n)
  BY ZenonT(60), <1>1, <1>2, <1>7, <1>12, <1>13, KeepAbsent
<1>15. HomeOK(line', n) /\ UniqueOK(line', n)
  BY <1>1, <1>2, <1>7, <1>12, <1>13, KeepTable DEF Table
<1>16. StatesOK(line', n, {})
  BY <1>1, <1>2, <1>12, <1>13, KeepStates DEF Table
<1>17. TypeOK'
  <2>1. size' \in Size
    BY <1>10 DEF Counters, IInv, TypeOK, Size, destabilize, SizeOK, Entering, Unstable, Leaving, HopShare
  <2> QED BY ZenonT(30), <1>1, <1>10, <1>11, <1>12, <2>1 DEF TypeOK, Tables, Pc
<1>18. Whole'
  BY <1>1, <1>12, <1>13, <1>2 DEF Whole, WholeOK, IInv
<1>19. HopOK'
  <2>1. op.dst < n /\ src < n /\ own < n /\ src \in Index
    BY <1>1, <1>2, <1>4, <1>6, <1>13 DEF TableSize
  <2>2. Same({op.dst})' /\ SameOwner(op.dst)'
    BY ZenonT(30), <1>1, <1>2, <1>12, <1>13, <1>11 DEF Same, SameOwner
  <2>3. line'[op.dst].key = line'[src].key /\ line'[op.dst].state = "FREE"
    BY ZenonT(30), <1>1, <1>2, <1>8, <1>12, <1>13, <2>1
  <2>4. pos \in line'[own].owner /\ distance_wrapped(own, op.dst, n) \notin line'[own].owner
    BY <1>4, <1>9, <1>12, <1>13
  <2> QED BY ZenonT(30), <1>4, <1>6, <1>8, <1>10, <1>11, <1>12, <1>13, <1>14, <1>15, <1>16, <2>1, <2>2, <2>3, <2>4
          DEF HopOK, Table, Same, SameOwner
<1> QED BY <1>10, <1>17, <1>18, <1>19, OnlyHop DEF Hopping

\* make_space_for_insert: the source content is marked FREE.
LEMMA HopFreeSourceStep ==
  ASSUME IInv, Counters', HopFreeSource
  PROVE  TypeOK' /\ Whole' /\ Phases'
<1>1. pc \in Hopping /\ pc = "hop_unstable" /\ pc' = "hop_src" /\ n' = n /\ op' = op /\ pline' = pline
  BY DEF HopFreeSource, Hopping, n
<1>2. HopOK
  BY DEF IInv
<1>3. /\ line' \in Tables
      /\ \A b \in Index : /\ line'[b].owner = line[b].owner /\ line'[b].key = line[b].key
                          /\ b # op.src => line'[b] = line[b]
      /\ line'[op.src].state = "FREE"
  BY HopTyping, <1>1 DEF HopFreeSource, Tables, Bucket, ContentState
<1>4. AbsentOK(line', op.key, n)
  BY <1>1, <1>2, <1>3, HopTyping, KeepAbsent DEF HopOK
<1>5. HomeOK(line', n) /\ UniqueOK(line', n)
  BY <1>1, <1>2, <1>3, HopTyping, KeepTable DEF HopOK, Table
<1>6. StatesOK(line', n, {op.src})
  <2>1. StatesOK(line, n, {})
    BY <1>1, <1>2 DEF HopOK, Table
  <2> QED BY <1>1, <1>3, <2>1, HopTyping, KeepStates
<1>7. TypeOK'
  BY <1>1, <1>3, HopTyping DEF TypeOK, Tables, Pc, HopFreeSource
<1>8. Whole'
  BY <1>1, <1>3 DEF Whole, WholeOK, IInv
<1>9. HopOK'
  <2>1. Same({op.dst, op.src})' /\ SameOwner(op.dst)' /\ SameOwner(op.src)'
        /\ pline[op.src].key = line'[op.src].key
    BY <1>1, <1>2, <1>3, HopTyping DEF Same, SameOwner, HopOK
  <2> QED BY ZenonT(30), <1>1, <1>2, <1>3, <1>4, <1>5, <1>6, <2>1, HopTyping DEF HopOK, Table
<1> QED BY <1>1, <1>7, <1>8, <1>9, OnlyHop DEF Hopping

\* make_space_for_insert: the source is in memory and the destination marked IN_USE.
LEMMA HopUseDestinationStep ==
  ASSUME IInv, Counters', HopUseDestination
  PROVE  TypeOK' /\ Whole' /\ Phases'
<1>1. pc \in Hopping /\ pc = "hop_src" /\ pc' = "hop_dst" /\ n' = n /\ op' = op
  BY DEF HopUseDestination, Hopping, n
<1>2. HopOK
  BY DEF IInv
<1>3. /\ line' \in Tables
      /\ \A b \in Index : /\ line'[b].owner = line[b].owner /\ line'[b].key = line[b].key
                          /\ b # op.dst => line'[b] = line[b]
      /\ line'[op.dst].state = "IN_USE"
  BY HopTyping, <1>1 DEF HopUseDestination, Tables, Bucket, ContentState
<1>4. /\ pline' \in Tables
      /\ pline'[op.src] = line[op.src]
      /\ \A b \in Index : b # op.src => pline'[b] = pline[b]
  BY HopTyping, <1>1 DEF HopUseDestination, Tables, persist
<1>5. AbsentOK(line', op.key, n)
  BY <1>1, <1>2, <1>3, HopTyping, KeepAbsent DEF HopOK
<1>6. HomeOK(line', n) /\ UniqueOK(line', n)
  BY <1>1, <1>2, <1>3, HopTyping, KeepTable DEF HopOK, Table
<1>7. StatesOK(line', n, {op.src, op.dst})
  <2>1. StatesOK(line, n, {op.src})
    BY <1>1, <1>2 DEF HopOK, Table
  <2> QED BY <1>1, <1>3, <2>1, HopTyping, KeepStates
<1>8. TypeOK'
  BY ZenonT(60), <1>1, <1>3, <1>4, HopTyping DEF TypeOK, Tables, Pc, HopUseDestination
<1>9. Whole'
  <2>1. line[op.dst].key \in Key
    <3>1. distance_wrapped(op.own, op.src, n) \in line[op.own].owner /\ HomeOK(line, n)
          /\ line[op.dst].key = line[op.src].key
      BY <1>1, <1>2 DEF HopOK, Table
    <3>2. add_small(op.own, distance_wrapped(op.own, op.src, n), n) = op.src
      BY <1>1, HopTyping, DistanceAdd
    <3> QED BY <1>1, <3>1, <3>2, HopTyping DEF HomeOK
  <2> QED BY ZenonT(30), <1>1, <1>3, <1>4, <2>1, HopTyping DEF Whole, WholeOK, IInv
<1>10. HopOK'
  <2>1. Same({op.dst})' /\ SameOwner(op.dst)'
    BY ZenonT(60), <1>1, <1>2, <1>3, <1>4, HopTyping DEF Same, SameOwner, HopOK
  <2>2. line'[op.src] = line[op.src] /\ line'[op.src].state = "FREE"
    BY <1>1, <1>2, <1>3, HopTyping DEF HopOK
  <2> QED BY ZenonT(30), <1>1, <1>2, <1>3, <1>5, <1>6, <1>7, <2>1, <2>2, HopTyping DEF HopOK, Table
<1> QED BY <1>1, <1>8, <1>9, <1>10, OnlyHop DEF Hopping

\* make_space_for_insert: the owner lets go of the source and takes the destination.
LEMMA HopMoveOwnerStep ==
  ASSUME IInv, Counters', HopMoveOwner
  PROVE  TypeOK' /\ Whole' /\ Phases'
<1> DEFINE d == distance_wrapped(op.own, op.dst, n)
           s == distance_wrapped(op.own, op.src, n)
<1>1. pc \in Hopping /\ pc = "hop_dst" /\ pc' = "hop_owner" /\ n' = n /\ op' = op
  BY DEF HopMoveOwner, Hopping, n
<1>2. /\ op.dst # op.src /\ AbsentOK(line, op.key, n) /\ d \in Position /\ s \in Position
      /\ line[op.dst].key = line[op.src].key /\ s \in line[op.own].owner /\ d \notin line[op.own].owner
      /\ HomeOK(line, n) /\ UniqueOK(line, n) /\ StatesOK(line, n, {op.src, op.dst})
      /\ line[op.src].state = "FREE" /\ line[op.dst].state = "IN_USE" /\ Same({op.dst})
  BY <1>1 DEF IInv, HopOK, Table
<1>3. add_small(op.own, d, n) = op.dst /\ add_small(op.own, s, n) = op.src
  BY <1>1, HopTyping, DistanceAdd
<1>4. line' = [line EXCEPT ![op.own].owner = move(@, d, s)] /\ pline' = persist(pline, {op.dst})
  BY DEF HopMoveOwner
<1> HIDE DEF d, s
<1>5. /\ line' \in Tables
      /\ \A b \in Index : /\ line'[b].state = line[b].state /\ line'[b].key = line[b].key
                          /\ b # op.own => line'[b] = line[b]
      /\ line'[op.own].owner = move(line[op.own].owner, d, s)
  <2>1. line[op.own] \in Bucket /\ move(line[op.own].owner, d, s) \subseteq Position
    BY <1>1, <1>2, HopTyping DEF Tables, Bucket, move
  <2> QED BY ZenonT(30), <1>1, <1>4, <2>1, HopTyping DEF Tables, Bucket
<1>6. pline' \in Tables /\ \A b \in Index : pline'[b] = line[b]
  <2>1. pline' \in Tables
    BY HopTyping, <1>1, <1>4 DEF Tables, persist
  <2>2. \A b \in Index : pline'[b] = line[b]
    BY HopTyping, <1>1, <1>2, <1>4 DEF persist, Same
  <2> QED BY <2>1, <2>2
<1>7. /\ HomeOK(line', n) /\ UniqueOK(line', n)
      /\ \A b \in 0 .. n - 1 : owned_by_owner_mask(line', b, n) <=>
           (owned_by_owner_mask(line, b, n) \/ b = op.dst) /\ b # op.src
  <2>1. \A x \in (0 .. n - 1) \ {op.own} : line'[x].owner = line[x].owner
    BY <1>1, <1>5, HopTyping
  <2>2. \A b \in 0 .. n - 1 : line'[b].key = line[b].key
    BY <1>1, <1>5, HopTyping
  <2>3. PICK t \in Tables, u \in Tables : t = line /\ u = line'
    BY <1>1, <1>5, HopTyping
  <2>4. PICK o \in 0 .. n - 1 : o = op.own
    BY ZenonT(30), <1>1, HopTyping
  <2>5. /\ u[o].owner = move(t[o].owner, d, s) /\ s \in t[o].owner /\ d \notin t[o].owner
        /\ \A x \in (0 .. n - 1) \ {o} : u[x].owner = t[x].owner
        /\ \A b \in 0 .. n - 1 : u[b].key = t[b].key
    BY ZenonT(30), <1>2, <1>5, <2>1, <2>2, <2>3, <2>4
  <2>6. add_small(o, d, n) = op.dst /\ add_small(o, s, n) = op.src
    BY ZenonT(30), <1>3, <2>4
  <2>7. t[add_small(o, d, n)].key = t[add_small(o, s, n)].key
    BY ZenonT(30), <1>2, <2>3, <2>6
  <2>8. TableSize(n) /\ d \in Position /\ HomeOK(t, n) /\ UniqueOK(t, n)
    BY ZenonT(30), <1>1, <1>2, <2>3, HopTyping
  <2>9. /\ HomeOK(u, n) /\ UniqueOK(u, n)
        /\ \A b \in 0 .. n - 1 : owned_by_owner_mask(u, b, n) <=>
             (owned_by_owner_mask(t, b, n) \/ b = add_small(o, d, n)) /\ b # add_small(o, s, n)
    BY <2>5, <2>7, <2>8, MoveOwner
  <2> QED BY <2>3, <2>6, <2>9
<1>8. StatesOK(line', n, {})
  BY ZenonT(30), <1>1, <1>2, <1>5, <1>7, HopTyping DEF StatesOK
<1>9. AbsentOK(line', op.key, n)
  <2>1. home \in 0 .. n - 1 /\ home = bucket_ix(op.key, n)
    BY <1>1, HopTyping, BucketIxType DEF home, TableSize
  <2>2. SUFFICES ASSUME NEW p \in line'[home].owner PROVE line'[add_small(home, p, n)].key # op.key
    BY <2>1 DEF AbsentOK
  <2>3. add_small(home, p, n) \in Index
    BY ZenonT(30), <1>1, <1>5, <2>1, HopTyping, TableType, AddDistance
  <2>4. CASE p \in line[home].owner
    BY ZenonT(30), <1>2, <1>5, <2>1, <2>3, <2>4 DEF AbsentOK
  <2>5. CASE home = op.own /\ p = d
    <3>1. line'[add_small(home, p, n)].key = line[op.src].key
      BY ZenonT(30), <1>1, <1>2, <1>3, <1>5, <2>5, HopTyping
    <3>2. s \in line[home].owner /\ add_small(home, s, n) = op.src
      BY ZenonT(30), <1>2, <1>3, <2>5
    <3>3. line[op.src].key # op.key
      BY <1>2, <2>1, <3>2 DEF AbsentOK
    <3> QED BY ZenonT(30), <3>1, <3>3
  <2> QED BY ZenonT(30), <1>1, <1>5, <2>1, <2>4, <2>5, HopTyping DEF move
<1>10. TypeOK'
  BY ZenonT(60), <1>1, <1>5, <1>6, HopTyping DEF TypeOK, Tables, Pc, HopMoveOwner
<1>11. Whole'
  BY ZenonT(30), <1>1, <1>5, <1>6, HopTyping DEF Whole, WholeOK, IInv
<1>12. d \in line'[op.own].owner /\ s \notin line'[op.own].owner
  BY ZenonT(30), <1>2, <1>5, <1>3 DEF move
<1>13. line[op.own].owner = move(line'[op.own].owner, s, d)
  BY ZenonT(30), <1>2, <1>5, <1>3 DEF move
<1>14. Same({op.own})' /\ SameContent(op.own)' /\ pline'[op.own].owner = line[op.own].owner
  BY ZenonT(30), <1>1, <1>5, <1>6, HopTyping DEF Same, SameContent
<1>15. /\ op.dst < n /\ op.src < n /\ op.own < n
       /\ line'[op.dst].key = line'[op.src].key
       /\ line'[op.src].state = "FREE" /\ line'[op.dst].state = "IN_USE"
  <2>1. op.dst < n /\ op.src < n /\ op.own < n /\ op.dst \in Index /\ op.src \in Index
    BY <1>1, HopTyping
  <2> QED BY <1>2, <1>5, <2>1
<1>16. HopOK'
  BY <1>1, <1>2, <1>7, <1>8, <1>9, <1>12, <1>13, <1>14, <1>15 DEF HopOK, Table, d, s
<1> QED BY <1>1, <1>10, <1>11, <1>16, OnlyHop DEF Hopping

\* make_space_for_insert: the owner is in memory.
LEMMA HopStabilizeStep ==
  ASSUME IInv, Counters', HopStabilize
  PROVE  TypeOK' /\ Whole' /\ Phases'
<1>1. pc \in Hopping /\ pc = "hop_owner" /\ pc' = "hop_stable" /\ n' = n /\ op' = op /\ line' = line
  BY DEF HopStabilize, Hopping, n
<1>2. HopOK /\ Same({op.own})
  BY <1>1 DEF IInv, HopOK
<1>3. pline' \in Tables /\ \A b \in Index : pline'[b] = line[b]
  <2>1. pline' \in Tables
    BY HopTyping, <1>1 DEF Tables, persist, HopStabilize
  <2>2. \A b \in Index : pline'[b] = line[b]
    BY HopTyping, <1>1, <1>2 DEF persist, Same, HopStabilize
  <2> QED BY <2>1, <2>2
<1>4. size' \in Size
  <2>1. size \in Size /\ size.unst = 1
    BY <1>1 DEF IInv, TypeOK, SizeOK, Unstable
  <2> QED BY <2>1, SizeChangeType DEF HopStabilize
<1>5. TypeOK'
  BY ZenonT(60), <1>1, <1>3, <1>4, HopTyping DEF TypeOK, Tables, Pc, HopStabilize
<1>6. Whole'
  BY <1>1, <1>3, HopTyping DEF Whole, WholeOK, IInv
<1>7. Same({})'
  BY <1>1, <1>3 DEF Same
<1>8. HopOK'
  BY <1>1, <1>2, <1>7 DEF HopOK, Table
<1> QED BY <1>1, <1>5, <1>6, <1>8, OnlyHop DEF Hopping

\* make_space_for_insert: the source is the free bucket now.
LEMMA HopDoneStep ==
  ASSUME IInv, Counters', HopDone
  PROVE  TypeOK' /\ Whole' /\ Phases'
<1>1. pc \in Hopping /\ pc = "hop_stable" /\ pc' = "space" /\ n' = n
      /\ op' = [op EXCEPT !.dst = op.src, !.src = 0, !.own = 0]
  BY DEF HopDone, Hopping, n
<1>2. /\ HomeOK(line, n) /\ UniqueOK(line, n) /\ StatesOK(line, n, {}) /\ Same({})
      /\ AbsentOK(line, op.key, n) /\ line[op.src].state = "FREE"
  BY <1>1 DEF IInv, HopOK, Table
<1>3. op' \in Op /\ op'.dst = op.src /\ op'.key = op.key
  <2>1. 0 \in Index
    BY MaxBucketsType DEF Index
  <2> QED BY ZenonT(60), <1>1, <2>1, HopTyping DEF Op
<1>4. /\ line' \in Tables
      /\ \A b \in Index : /\ line'[b].owner = line[b].owner /\ line'[b].state = line[b].state
                          /\ b # op.src => line'[b] = line[b]
  BY HopTyping, <1>1 DEF HopDone, Tables, Bucket
<1>5. pline' \in Tables /\ \A b \in Index : pline'[b] = line'[b]
  BY HopTyping, <1>1, <1>2 DEF HopDone, Tables, Bucket, Same
<1>6. ~owned_by_owner_mask(line, op.src, n)
  BY <1>1, <1>2, HopTyping DEF StatesOK
<1>7. \A o \in 0 .. n - 1 : line'[o].owner = line[o].owner /\ line'[o].state = line[o].state
  BY <1>1, <1>4, HopTyping
<1>8. \A b \in 0 .. n - 1 : owned_by_owner_mask(line, b, n) => line'[b].key = line[b].key
  BY <1>1, <1>4, <1>6, HopTyping
<1>9. AbsentOK(line', op.key, n)
  BY <1>1, <1>2, <1>4, <1>7, <1>8, HopTyping, KeepAbsent
<1>10. HomeOK(line', n) /\ UniqueOK(line', n)
  BY <1>1, <1>2, <1>4, <1>7, <1>8, HopTyping, KeepTable
<1>11. StatesOK(line', n, {})
  BY <1>1, <1>2, <1>4, <1>7, HopTyping, KeepStates
<1>12. TypeOK'
  BY <1>1, <1>3, <1>4, <1>5, HopTyping DEF TypeOK, Tables, Pc, HopDone
<1>13. Whole'
  BY <1>1, <1>2, <1>4, <1>5, HopTyping DEF Whole, WholeOK, IInv
<1>14. SpaceOK'
  <2>1. Same({})' /\ op.src < n /\ line'[op.src].state = "FREE"
    BY <1>1, <1>2, <1>4, <1>5, HopTyping DEF Same
  <2> QED BY <1>1, <1>3, <1>9, <1>10, <1>11, <2>1 DEF SpaceOK, Table
<1> QED BY <1>1, <1>12, <1>13, <1>14, OnlySpace

-----------------------------------------------------------------------------
\* The rest of emplace.

\* The buckets that an emplace or an erase is about.
LEMMA KeyTyping ==
  ASSUME IInv, pc \in {"space", "find"} \cup Inserting \cup Erasing
  PROVE  /\ TypeOK /\ line \in Tables /\ pline \in Tables /\ TableSize(n) /\ n \in Nat
         /\ op \in Op /\ op.key \in Key
         /\ op.dst \in Index /\ op.src \in Index
         /\ 0 .. n - 1 \subseteq Index
         /\ home \in 0 .. n - 1 /\ home \in Index /\ home = bucket_ix(op.key, n)
<1>1. TypeOK /\ op.key \in Key
  BY DEF IInv, KeyedOK
<1>2. line \in Tables /\ pline \in Tables /\ TableSize(n) /\ n \in Nat \ {0} /\ op \in Op
  BY <1>1, Typing DEF TypeOK
<1>3. op.dst \in Index /\ op.src \in Index
  BY <1>1, Typing
<1>4. 0 .. n - 1 \subseteq Index
  BY <1>2, TableType
<1>5. home \in 0 .. n - 1 /\ home = bucket_ix(op.key, n)
  BY <1>1, <1>2, BucketIxType DEF home
<1> QED BY <1>1, <1>2, <1>3, <1>4, <1>5

\* emplace: the content is constructed in a free bucket.
LEMMA ConstructStep ==
  ASSUME IInv, Counters', Construct
  PROVE  TypeOK' /\ Whole' /\ Phases'
<1>1. pc = "space" /\ pc' = "ins_unstable" /\ n' = n /\ op' = op /\ home' = home
  BY ZenonT(30) DEF Construct, n, home
<1>2. /\ HomeOK(line, n) /\ UniqueOK(line, n) /\ StatesOK(line, n, {}) /\ Same({})
      /\ AbsentOK(line, op.key, n) /\ line[op.dst].state = "FREE" /\ op.dst < n
  BY <1>1 DEF IInv, SpaceOK, Table
<1>3. op.dst \in 0 .. n - 1
  BY <1>1, <1>2, KeyTyping DEF Index
<1>4. distance_wrapped(home, op.dst, n) \in Position
  <2>1. distance_wrapped(home, op.dst, n) \in 0 .. n - 1
    BY <1>1, <1>3, KeyTyping, DistanceAdd
  <2> QED BY <1>1, <2>1, KeyTyping, SizesAssumption DEF Construct, OutOfRange, Position
<1>5. /\ line' \in Tables
      /\ \A b \in Index : /\ line'[b].owner = line[b].owner /\ line'[b].state = line[b].state
                          /\ b # op.dst => line'[b] = line[b]
      /\ line'[op.dst].key = op.key
  BY <1>1, KeyTyping DEF Construct, Tables, Bucket
<1>6. /\ pline' \in Tables
      /\ pline'[op.dst].owner = line[op.dst].owner /\ pline'[op.dst].state = "FREE"
      /\ \A b \in Index : b # op.dst => pline'[b] = pline[b]
  <2>1. pline[op.dst] = line[op.dst] /\ line[op.dst] \in Bucket
    BY <1>1, <1>2, KeyTyping DEF Same, Tables
  <2>2. \A half \in HalfWritten(op.dst) :
          half \in Bucket /\ half.owner = line[op.dst].owner /\ half.state = "FREE"
    BY <1>2, <2>1 DEF HalfWritten, Bucket
  <2> QED BY <1>1, <2>2, KeyTyping DEF Construct, Tables
<1>7. ~owned_by_owner_mask(line, op.dst, n)
  BY <1>2, <1>3 DEF StatesOK
<1>8. \A o \in 0 .. n - 1 : line'[o].owner = line[o].owner /\ line'[o].state = line[o].state
  BY <1>1, <1>5, KeyTyping
<1>9. \A b \in 0 .. n - 1 : owned_by_owner_mask(line, b, n) => line'[b].key = line[b].key
  BY ZenonT(30), <1>1, <1>5, <1>7, KeyTyping
<1>10. AbsentOK(line', op.key, n)
  BY ZenonT(30), <1>1, <1>2, <1>5, <1>8, <1>9, KeyTyping, KeepAbsent
<1>11. HomeOK(line', n) /\ UniqueOK(line', n)
  BY ZenonT(60), <1>1, <1>2, <1>5, <1>8, <1>9, KeyTyping, KeepTable
<1>12. StatesOK(line', n, {})
  BY <1>1, <1>2, <1>5, <1>8, KeyTyping, KeepStates
<1>13. TypeOK'
  <2>1. size' \in Size
    <3>1. size \in Size /\ SizeOK /\ size' = destabilize(size)
      BY ZenonT(30) DEF IInv, TypeOK, Construct
    <3> QED BY <1>1, <3>1 DEF Size, destabilize, SizeOK, Entering, Unstable, Leaving
  <2> QED BY <1>1, <1>5, <1>6, <2>1, KeyTyping DEF TypeOK, Tables, Pc, Construct
<1>14. Whole'
  BY <1>1, <1>2, <1>5, <1>6, KeyTyping DEF Whole, WholeOK, IInv
<1>15. InsertOK'
  <2>1. Same({op.dst})' /\ SameOwner(op.dst)'
    BY ZenonT(30), <1>1, <1>2, <1>5, <1>6, KeyTyping DEF Same, SameOwner
  <2>2. line'[op.dst].state = "FREE" /\ pline'[op.dst].state = "FREE"
    BY <1>1, <1>2, <1>5, <1>6, KeyTyping
  <2> QED BY ZenonT(60), <1>1, <1>2, <1>4, <1>5, <1>10, <1>11, <1>12, <2>1, <2>2 DEF InsertOK, Table
<1> QED BY <1>1, <1>13, <1>14, <1>15, OnlyInsert DEF Inserting

\* emplace: the content is marked IN_USE.
LEMMA InsertContentStep ==
  ASSUME IInv, Counters', InsertContent
  PROVE  TypeOK' /\ Whole' /\ Phases'
<1>1. pc \in Inserting /\ pc = "ins_unstable" /\ pc' = "ins_content" /\ n' = n /\ op' = op /\ home' = home
      /\ pline' = pline
  BY DEF InsertContent, n, home, Inserting
<1>2. /\ HomeOK(line, n) /\ UniqueOK(line, n) /\ StatesOK(line, n, {})
      /\ InsertOK /\ AbsentOK(line, op.key, n) /\ line[op.dst].key = op.key
  BY ZenonT(60), <1>1 DEF IInv, InsertOK, Table
<1>3. /\ line' \in Tables
      /\ \A b \in Index : /\ line'[b].owner = line[b].owner /\ line'[b].key = line[b].key
                          /\ b # op.dst => line'[b] = line[b]
      /\ line'[op.dst].state = "IN_USE"
  BY <1>1, KeyTyping DEF InsertContent, Tables, Bucket, ContentState
<1>4. \A o \in 0 .. n - 1 : line'[o].owner = line[o].owner /\ line'[o].key = line[o].key
  BY <1>1, <1>3, KeyTyping
<1>5. AbsentOK(line', op.key, n)
  BY ZenonT(60), <1>1, <1>2, <1>3, <1>4, KeyTyping, KeepAbsent
<1>6. HomeOK(line', n) /\ UniqueOK(line', n)
  BY ZenonT(60), <1>1, <1>2, <1>3, <1>4, KeyTyping, KeepTable
<1>7. StatesOK(line', n, {op.dst})
  BY <1>1, <1>2, <1>3, <1>4, KeyTyping, KeepStates
<1>8. TypeOK'
  BY ZenonT(30), <1>1, <1>3, KeyTyping DEF TypeOK, Tables, Pc, InsertContent
<1>9. Whole'
  BY ZenonT(30), <1>1, <1>2, <1>3, KeyTyping DEF Whole, WholeOK, IInv
<1>10. InsertOK'
  <2>1. Same({op.dst})' /\ SameOwner(op.dst)' /\ line'[op.dst].key = op.key
    BY ZenonT(60), <1>1, <1>2, <1>3, KeyTyping DEF Same, SameOwner, InsertOK
  <2> QED BY ZenonT(60), <1>1, <1>2, <1>3, <1>5, <1>6, <1>7, <2>1 DEF InsertOK, Table
<1> QED BY <1>1, <1>8, <1>9, <1>10, OnlyInsert DEF Inserting

\* emplace: the content is in memory and the owner gains the position.
LEMMA InsertOwnerStep ==
  ASSUME IInv, Counters', InsertOwner
  PROVE  TypeOK' /\ Whole' /\ Phases'
<1> DEFINE d == distance_wrapped(home, op.dst, n)
<1>1. pc \in Inserting /\ pc = "ins_content" /\ pc' = "ins_owner" /\ n' = n /\ op' = op /\ home' = home
  BY ZenonT(30) DEF InsertOwner, n, home, Inserting
<1>2. /\ HomeOK(line, n) /\ UniqueOK(line, n) /\ StatesOK(line, n, {op.dst})
      /\ AbsentOK(line, op.key, n) /\ line[op.dst].key = op.key /\ line[op.dst].state = "IN_USE"
      /\ d \in Position /\ Same({op.dst}) /\ op.dst < n
  BY ZenonT(30), <1>1 DEF IInv, InsertOK, Table
<1>3. op.dst \in 0 .. n - 1
  BY <1>1, <1>2, KeyTyping DEF Index
<1>4. add_small(home, d, n) = op.dst
  BY <1>1, <1>3, KeyTyping, DistanceAdd
<1>5. line' = [line EXCEPT ![home].owner = @ \cup {d}] /\ pline' = persist(pline, {op.dst})
  BY DEF InsertOwner
<1> HIDE DEF d
<1>6. /\ line' \in Tables
      /\ \A b \in Index : /\ line'[b].state = line[b].state /\ line'[b].key = line[b].key
                          /\ b # home => line'[b] = line[b]
      /\ line'[home].owner = line[home].owner \cup {d}
  BY <1>1, <1>2, <1>5, KeyTyping DEF Tables, Bucket
<1>7. pline' \in Tables /\ \A b \in Index : pline'[b] = line[b]
  <2>1. pline' \in Tables
    BY KeyTyping, <1>1, <1>5 DEF Tables, persist
  <2>2. \A b \in Index : pline'[b] = line[b]
    BY ZenonT(30), KeyTyping, <1>1, <1>2, <1>5 DEF persist, Same
  <2> QED BY <2>1, <2>2
<1>8. \A q \in line[home].owner : line[add_small(home, q, n)].key # op.key
  BY ZenonT(30), <1>1, <1>2, KeyTyping DEF AbsentOK
<1>9. d \notin line[home].owner
  BY <1>2, <1>4, <1>8
<1>10. /\ HomeOK(line', n) /\ UniqueOK(line', n)
       /\ \A b \in 0 .. n - 1 : owned_by_owner_mask(line', b, n) <=>
            owned_by_owner_mask(line, b, n) \/ b = op.dst
  <2>1. \A x \in (0 .. n - 1) \ {home} : line'[x].owner = line[x].owner
    BY <1>1, <1>6, KeyTyping
  <2>2. \A b \in 0 .. n - 1 : line'[b].key = line[b].key
    BY ZenonT(30), <1>1, <1>6, KeyTyping
  <2>3. bucket_ix(line[op.dst].key, n) = home /\ line[op.dst].key \in Key
    BY <1>1, <1>2, KeyTyping
  <2>4. line \in Tables /\ line' \in Tables /\ TableSize(n) /\ home \in 0 .. n - 1 /\ d \in Position
    BY ZenonT(60), <1>1, <1>2, <1>6, KeyTyping
  <2>5. /\ line[add_small(home, d, n)].key \in Key /\ bucket_ix(line[add_small(home, d, n)].key, n) = home
        /\ \A q \in line[home].owner : line[add_small(home, q, n)].key # line[add_small(home, d, n)].key
    BY ZenonT(30), <1>2, <1>4, <1>8, <2>3
  <2>6. HomeOK(line, n) /\ UniqueOK(line, n) /\ line'[home].owner = line[home].owner \cup {d}
    BY <1>2, <1>6
  <2>7. /\ HomeOK(line', n) /\ UniqueOK(line', n)
        /\ \A b \in 0 .. n - 1 : owned_by_owner_mask(line', b, n) <=>
             owned_by_owner_mask(line, b, n) \/ b = add_small(home, d, n)
    <3>1. PICK t \in Tables, u \in Tables : t = line /\ u = line'
      BY <2>4
    <3>2. PICK o \in 0 .. n - 1 : o = home
      BY <2>4
    <3>3. /\ u[o].owner = t[o].owner \cup {d} /\ d \in Position
          /\ \A x \in (0 .. n - 1) \ {o} : u[x].owner = t[x].owner
          /\ \A b \in 0 .. n - 1 : u[b].key = t[b].key
      BY ZenonT(30), <2>1, <2>2, <2>4, <2>6, <3>1, <3>2
    <3>4. /\ t[add_small(o, d, n)].key \in Key /\ bucket_ix(t[add_small(o, d, n)].key, n) = o
          /\ \A q \in t[o].owner : t[add_small(o, q, n)].key # t[add_small(o, d, n)].key
      BY ZenonT(30), <2>5, <3>1, <3>2
    <3>5. TableSize(n) /\ HomeOK(t, n) /\ UniqueOK(t, n)
      BY ZenonT(30), <2>4, <2>6, <3>1
    <3>6. /\ HomeOK(u, n) /\ UniqueOK(u, n)
          /\ \A b \in 0 .. n - 1 : owned_by_owner_mask(u, b, n) <=>
               owned_by_owner_mask(t, b, n) \/ b = add_small(o, d, n)
      BY SMTT(30), <3>3, <3>4, <3>5, GainOwner
    <3> QED BY <3>1, <3>2, <3>6
  <2> QED BY ZenonT(60), <1>4, <2>7
<1>11. StatesOK(line', n, {})
  BY <1>1, <1>2, <1>6, <1>10, KeyTyping DEF StatesOK
<1>12. TypeOK'
  BY ZenonT(60), <1>1, <1>6, <1>7, KeyTyping DEF TypeOK, Tables, Pc, InsertOwner
<1>13. Whole'
  BY <1>1, <1>6, <1>7, KeyTyping DEF Whole, WholeOK, IInv
<1>14. InsertOK'
  <2>1. Same({home})' /\ SameContent(home)'
    BY <1>1, <1>6, <1>7, KeyTyping DEF Same, SameContent
  <2>2. pline'[home].owner = line'[home].owner \ {d} /\ d \in line'[home].owner
    BY ZenonT(30), <1>1, <1>6, <1>7, <1>9, KeyTyping
  <2>3. line'[op.dst].key = op.key /\ line'[op.dst].state = "IN_USE"
    BY <1>1, <1>2, <1>6, KeyTyping
  <2> QED BY ZenonT(60), <1>1, <1>2, <1>10, <1>11, <2>1, <2>2, <2>3 DEF InsertOK, Table, Same, SameContent, d
<1> QED BY <1>1, <1>12, <1>13, <1>14, OnlyInsert DEF Inserting

\* emplace: the owner is in memory.
LEMMA InsertStabilizeStep ==
  ASSUME IInv, Counters', InsertStabilize
  PROVE  TypeOK' /\ Whole' /\ Phases'
<1>1. pc \in Inserting /\ pc = "ins_owner" /\ pc' = "ins_stable" /\ n' = n /\ op' = op /\ home' = home
      /\ line' = line
  BY DEF InsertStabilize, n, home, Inserting
<1>2. InsertOK /\ Same({home})
  BY ZenonT(60), <1>1 DEF IInv, InsertOK
<1>3. pline' \in Tables /\ \A b \in Index : pline'[b] = line[b]
  <2>1. pline' \in Tables
    BY KeyTyping, <1>1 DEF Tables, persist, InsertStabilize
  <2>2. \A b \in Index : pline'[b] = line[b]
    BY KeyTyping, <1>1, <1>2 DEF persist, Same, InsertStabilize
  <2> QED BY <2>1, <2>2
<1>4. size' \in Size
  <2>1. size \in Size /\ size.unst = 1
    BY <1>1 DEF IInv, TypeOK, SizeOK, Unstable
  <2> QED BY <2>1, SizeChangeType DEF InsertStabilize
<1>5. TypeOK'
  BY ZenonT(60), <1>1, <1>3, <1>4, KeyTyping DEF TypeOK, Tables, Pc, InsertStabilize
<1>6. Whole'
  BY <1>1, <1>3, KeyTyping DEF Whole, WholeOK, IInv
<1>7. Same({})'
  BY <1>1, <1>3 DEF Same
<1>8. InsertOK'
  BY ZenonT(60), <1>1, <1>2, <1>7 DEF InsertOK, Table
<1> QED BY <1>1, <1>5, <1>6, <1>8, OnlyInsert DEF Inserting

-----------------------------------------------------------------------------
\* erase

\* erase: the element is located.
LEMMA EraseUnstableStep ==
  ASSUME IInv, Counters', EraseUnstable
  PROVE  TypeOK' /\ Whole' /\ Phases'
<1> DEFINE src == locate_key(line, op.key, n)
<1>1. /\ pc = "find" /\ pc' = "del_unstable" /\ n' = n /\ line' = line
      /\ op' = [op EXCEPT !.src = src] /\ pline' = persist(pline, {src})
  BY DEF EraseUnstable, n
<1>2. HomeOK(line, n) /\ UniqueOK(line, n) /\ StatesOK(line, n, {}) /\ Same({})
  BY <1>1 DEF IInv, QuietOK, Table
<1>3. PICK p \in line[home].owner : src = add_small(home, p, n) /\ line[src].key = op.key
  BY <1>1, KeyTyping, LocateKeyFinds DEF EraseUnstable
<1> HIDE DEF src
<1>4. p \in Position /\ src \in 0 .. n - 1 /\ distance_wrapped(home, src, n) = p
  BY <1>1, <1>3, KeyTyping, TableType, AddDistance
<1>5. src \in Index /\ src < n
  BY <1>1, <1>4, KeyTyping
<1>6. line[src].state = "IN_USE"
  BY <1>1, <1>2, <1>3, <1>4, KeyTyping, OwnedPosition DEF StatesOK
<1>7. op' \in Op /\ op'.src = src /\ op'.key = op.key
  BY <1>1, <1>5, KeyTyping DEF Op
<1>8. home' = home
  BY <1>1, <1>7 DEF home
<1>9. pline' \in Tables /\ \A b \in Index : pline'[b] = line[b]
  <2>1. pline' \in Tables
    BY <1>1, KeyTyping DEF Tables, persist
  <2>2. \A b \in Index : pline'[b] = line[b]
    BY <1>1, <1>2, KeyTyping DEF persist, Same
  <2> QED BY <2>1, <2>2
<1>10. TypeOK'
  <2>1. size' \in Size
    BY <1>1 DEF Counters, IInv, TypeOK, Size, destabilize, SizeOK, Entering, Unstable, Leaving, EraseUnstable
  <2> QED BY ZenonT(60), <1>1, <1>7, <1>9, <2>1, KeyTyping DEF TypeOK, Tables, Pc, EraseUnstable
<1>11. Whole'
  BY <1>1, <1>9 DEF Whole, WholeOK, IInv
<1>12. EraseOK'
  <2>1. Same({})'
    BY <1>1, <1>9 DEF Same
  <2> QED BY <1>1, <1>2, <1>3, <1>4, <1>5, <1>6, <1>7, <1>8, <2>1 DEF EraseOK, Table, Erasing
<1> QED BY <1>1, <1>10, <1>11, <1>12, OnlyErase DEF Erasing

\* erase: the owner loses the position that the plain subtraction names.
LEMMA EraseOwnerStep ==
  ASSUME IInv, Counters', EraseOwner
  PROVE  TypeOK' /\ Whole' /\ Phases'
<1> DEFINE p == distance_wrapped(home, op.src, n)
<1>1. pc \in Erasing /\ pc = "del_unstable" /\ pc' = "del_owner" /\ n' = n /\ op' = op /\ home' = home
      /\ pline' = pline
  BY DEF EraseOwner, n, home, Erasing
<1>2. /\ HomeOK(line, n) /\ UniqueOK(line, n) /\ StatesOK(line, n, {}) /\ Same({})
      /\ line[op.src].key = op.key /\ line[op.src].state = "IN_USE"
      /\ p \in Position /\ p \in line[home].owner /\ op.src < n
  BY ZenonT(60), <1>1 DEF IInv, EraseOK, Table
<1>3. op.src \in 0 .. n - 1
  <2>1. op.src \in Index /\ n \in Nat
    BY <1>1, KeyTyping
  <2> QED BY <1>2, <2>1 DEF Index
<1>4. add_small(home, p, n) = op.src
  BY <1>1, <1>3, KeyTyping, DistanceAdd
<1>5. line' = [line EXCEPT ![home].owner = @ \ {p}]
  <2>1. EraseMask(op.src, home) = p
    BY <1>1, <1>2, <1>3, KeyTyping, EraseMaskIsDistance
  <2> QED BY <2>1 DEF EraseOwner
<1> HIDE DEF p
<1>6. /\ line' \in Tables
      /\ \A b \in Index : /\ line'[b].state = line[b].state /\ line'[b].key = line[b].key
                          /\ b # home => line'[b] = line[b]
      /\ line'[home].owner = line[home].owner \ {p}
  BY <1>1, <1>2, <1>5, KeyTyping DEF Tables, Bucket
<1>7. /\ HomeOK(line', n) /\ UniqueOK(line', n)
      /\ \A b \in 0 .. n - 1 : owned_by_owner_mask(line', b, n) <=>
           owned_by_owner_mask(line, b, n) /\ b # op.src
  <2>1. \A x \in (0 .. n - 1) \ {home} : line'[x].owner = line[x].owner
    BY <1>1, <1>6, KeyTyping
  <2>2. \A b \in 0 .. n - 1 : line'[b].key = line[b].key
    BY ZenonT(60), <1>1, <1>6, KeyTyping
  <2>3. line \in Tables /\ line' \in Tables /\ TableSize(n) /\ home \in 0 .. n - 1 /\ p \in line[home].owner
    BY <1>1, <1>2, <1>6, KeyTyping
  <2>4. /\ HomeOK(line', n) /\ UniqueOK(line', n)
        /\ \A b \in 0 .. n - 1 : owned_by_owner_mask(line', b, n) <=>
             owned_by_owner_mask(line, b, n) /\ b # add_small(home, p, n)
    BY ZenonT(60), <1>2, <1>6, <2>1, <2>2, <2>3, LoseOwner
  <2> QED BY <1>4, <2>4
<1>8. StatesOK(line', n, {op.src})
  BY ZenonT(30), <1>1, <1>2, <1>6, <1>7, KeyTyping DEF StatesOK
<1>9. AbsentOK(line', op.key, n)
  <2>1. SUFFICES ASSUME NEW q \in line'[home].owner PROVE line'[add_small(home, q, n)].key # op.key
    BY <1>1, KeyTyping DEF AbsentOK
  <2>2. q \in line[home].owner /\ q # p
    BY ZenonT(30), <1>6
  <2>3. add_small(home, q, n) \in 0 .. n - 1
    BY ZenonT(30), <1>1, <2>2, KeyTyping, TableType, AddDistance
  <2>4. line'[add_small(home, q, n)].key = line[add_small(home, q, n)].key
    BY <1>1, <1>6, <2>3, KeyTyping
  <2> QED BY ZenonT(30), <1>1, <1>2, <1>4, <2>2, <2>4, KeyTyping DEF UniqueOK
<1>10. TypeOK'
  BY ZenonT(30), <1>1, <1>6, KeyTyping DEF TypeOK, Tables, Pc, EraseOwner
<1>11. Whole'
  BY <1>1, <1>6, KeyTyping DEF Whole, WholeOK, IInv
<1>12. EraseOK'
  <2>1. Same({home})' /\ SameContent(home)'
    BY ZenonT(60), <1>1, <1>2, <1>6, KeyTyping DEF Same, SameContent
  <2>2. pline'[home].owner = line'[home].owner \cup {p}
    BY ZenonT(60), <1>1, <1>2, <1>6, KeyTyping DEF Same
  <2>3. line'[op.src].key = op.key /\ line'[op.src].state = "IN_USE"
    BY <1>1, <1>2, <1>6, KeyTyping
  <2> QED BY ZenonT(60), <1>1, <1>2, <1>7, <1>8, <1>9, <2>1, <2>2, <2>3 DEF EraseOK, Table, p
<1> QED BY <1>1, <1>10, <1>11, <1>12, OnlyErase DEF Erasing

\* erase: the owner is in memory and the content destroyed.
LEMMA EraseContentStep ==
  ASSUME IInv, Counters', EraseContent
  PROVE  TypeOK' /\ Whole' /\ Phases'
<1>1. pc \in Erasing /\ pc = "del_owner" /\ pc' = "del_content" /\ n' = n /\ op' = op /\ home' = home
  BY DEF EraseContent, n, home, Erasing
<1>2. /\ HomeOK(line, n) /\ UniqueOK(line, n) /\ StatesOK(line, n, {op.src}) /\ Same({home})
      /\ EraseOK /\ op.src < n /\ AbsentOK(line, op.key, n) /\ line[op.src].key = op.key
  BY ZenonT(60), <1>1 DEF IInv, EraseOK, Table
<1>3. op.src \in 0 .. n - 1
  BY <1>1, <1>2, KeyTyping DEF Index
<1>4. ~owned_by_owner_mask(line, op.src, n)
  BY <1>1, <1>2, <1>3, KeyTyping, AbsentEverywhere
<1>5. /\ line' \in Tables
      /\ \A b \in Index : /\ line'[b].owner = line[b].owner
                          /\ b # op.src => line'[b] = line[b]
      /\ line'[op.src].state = "FREE"
  BY <1>1, KeyTyping DEF EraseContent, Tables, Bucket, ContentState
<1>6. pline' \in Tables /\ \A b \in Index : pline'[b] = line[b]
  <2>1. pline' \in Tables
    BY <1>1, KeyTyping DEF Tables, persist, EraseContent
  <2>2. \A b \in Index : pline'[b] = line[b]
    BY <1>1, <1>2, KeyTyping DEF persist, Same, EraseContent
  <2> QED BY <2>1, <2>2
<1>7. \A o \in 0 .. n - 1 : line'[o].owner = line[o].owner
  BY ZenonT(30), <1>1, <1>5, KeyTyping
<1>8. \A b \in 0 .. n - 1 : owned_by_owner_mask(line, b, n) => line'[b].key = line[b].key
  BY ZenonT(30), <1>1, <1>4, <1>5, KeyTyping
<1>9. AbsentOK(line', op.key, n)
  BY ZenonT(30), <1>1, <1>2, <1>5, <1>7, <1>8, KeyTyping, KeepAbsent
<1>10. HomeOK(line', n) /\ UniqueOK(line', n)
  BY ZenonT(30), <1>1, <1>2, <1>5, <1>7, <1>8, KeyTyping, KeepTable
<1>11. StatesOK(line', n, {})
  <2>1. \A b \in 0 .. n - 1 : owned_by_owner_mask(line', b, n) <=> owned_by_owner_mask(line, b, n)
    BY <1>1, <1>5, <1>7, KeyTyping, KeepOwned
  <2> QED BY ZenonT(30), <1>1, <1>2, <1>4, <1>5, <2>1, KeyTyping DEF StatesOK
<1>12. TypeOK'
  BY ZenonT(60), <1>1, <1>5, <1>6, KeyTyping DEF TypeOK, Tables, Pc, EraseContent
<1>13. Whole'
  BY <1>1, <1>5, <1>6, KeyTyping DEF Whole, WholeOK, IInv
<1>14. EraseOK'
  <2>1. Same({op.src})' /\ SameOwner(op.src)'
    BY <1>1, <1>5, <1>6, KeyTyping DEF Same, SameOwner
  <2> QED BY ZenonT(60), <1>1, <1>2, <1>5, <1>9, <1>10, <1>11, <2>1 DEF EraseOK, Table
<1> QED BY <1>1, <1>12, <1>13, <1>14, OnlyErase DEF Erasing

\* erase: the content is in memory.
LEMMA EraseStabilizeStep ==
  ASSUME IInv, Counters', EraseStabilize
  PROVE  TypeOK' /\ Whole' /\ Phases'
<1>1. pc \in Erasing /\ pc = "del_content" /\ pc' = "del_stable" /\ n' = n /\ op' = op /\ home' = home
      /\ line' = line
  BY DEF EraseStabilize, n, home, Erasing
<1>2. EraseOK /\ Same({op.src})
  BY ZenonT(60), <1>1 DEF IInv, EraseOK
<1>3. pline' \in Tables /\ \A b \in Index : pline'[b] = line[b]
  <2>1. pline' \in Tables
    BY <1>1, KeyTyping DEF Tables, persist, EraseStabilize
  <2>2. \A b \in Index : pline'[b] = line[b]
    BY <1>1, <1>2, KeyTyping DEF persist, Same, EraseStabilize
  <2> QED BY <2>1, <2>2
<1>4. size' \in Size
  <2>1. size \in Size /\ size.unst = 1
    BY <1>1 DEF IInv, TypeOK, SizeOK, Unstable
  <2> QED BY <2>1, SizeChangeType DEF EraseStabilize
<1>5. TypeOK'
  BY ZenonT(60), <1>1, <1>3, <1>4, KeyTyping DEF TypeOK, Tables, Pc, EraseStabilize
<1>6. Whole'
  BY <1>1, <1>3, KeyTyping DEF Whole, WholeOK, IInv
<1>7. Same({})'
  BY <1>1, <1>3 DEF Same
<1>8. EraseOK'
  BY ZenonT(60), <1>1, <1>2, <1>7 DEF EraseOK, Table
<1> QED BY <1>1, <1>5, <1>6, <1>8, OnlyErase DEF Erasing

=============================================================================
