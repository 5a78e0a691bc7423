------------------------------ MODULE HopTable ------------------------------
(***************************************************************************)
(* The bucket array of hstore's hopscotch hash table as pure operators:    *)
(* bucket arithmetic, ownership, search, and the choice of the element a   *)
(* full neighbourhood gives up.  Source:                                   *)
(* components/store/hstore/src/{hop_hash.tcc,owner.h,content.h,            *)
(* segment_and_bucket.h,persist_controller.h}.                             *)
(*                                                                         *)
(* A bucket is one cache line: the owner bitmap (here the set of positions *)
(* whose bit is 1), the content state, and the content's key.  A table is  *)
(* a function from bucket indexes to buckets; its first n entries are the  *)
(* live ones.  The pair (segment, bucket in segment) of the code is the    *)
(* flat index which segment_and_bucket::index() computes.                  *)
(***************************************************************************)
EXTENDS Integers, FiniteSets

CONSTANTS Key,            \* the keys clients use
          NoKey,          \* content never constructed, or destroyed
          Torn,           \* content of which only some words reached memory
          Hash,           \* the hash of each key
          OwnerSize,      \* owner::size, 64 in the code
          BaseSize,       \* base_segment_size, 128 in the code
          SegmentCapacity \* _segment_capacity, 32 in the code

ASSUME SizesAssumption ==
  /\ OwnerSize \in Nat \ {0}
  /\ BaseSize \in Nat \ {0}
  /\ SegmentCapacity \in Nat \ {0}

\* owner::size < base_segment_size is a static_assert; that it divides the
\* table size is what makes the truncated shift of EraseMask harmless.
ASSUME OwnerFitsBase == OwnerSize < BaseSize /\ BaseSize % OwnerSize = 0

ASSUME HashAssumption == Hash \in [Key -> Nat]

ASSUME MarkersAreNotKeys == NoKey \notin Key /\ Torn \notin Key /\ NoKey # Torn

Position == 0 .. OwnerSize - 1

ContentState == {"FREE", "IN_USE"}

Bucket == [owner : SUBSET Position, state : ContentState, key : Key \cup {NoKey, Torn}]

\* A bucket as the bucket_aligned_t constructor leaves it.
Blank == [owner |-> {}, state |-> "FREE", key |-> NoKey]

\* Buckets in a table of c segments: base_segment_size << (c - 1).
bucket_count(c) == BaseSize * 2^(c - 1)

\* Holds by the laws of exponents, which are not among the provers' facts.
ASSUME BucketCountDoubles ==
  \A c \in 1 .. SegmentCapacity : bucket_count(c + 1) = 2 * bucket_count(c)

MaxBuckets == bucket_count(SegmentCapacity)

Index == 0 .. MaxBuckets - 1

distance_wrapped(first, last, n) ==
  (IF last < first THEN last + n ELSE last) - first

\* add_small and repeated incr_with_wrap: fwd is less than the table size.
add_small(b, fwd, n) == IF b + fwd < n THEN b + fwd ELSE b + fwd - n

subtract_small(b, bkwd, n) == IF b < bkwd THEN b + n - bkwd ELSE b - bkwd

bucket_ix(k, n) == Hash[k] % n

\* The table of twice the size which a resize is about to make.
bucket_expanded_ix(k, n) == Hash[k] % (2 * n)

-----------------------------------------------------------------------------
\* Bucket b is marked in use by some owner.
OwnedBy(t, o, b, n) ==
  /\ distance_wrapped(o, b, n) \in Position
  /\ distance_wrapped(o, b, n) \in t[o].owner

owned_by_owner_mask(t, b, n) == \E o \in 0 .. n - 1 : OwnedBy(t, o, b, n)

is_free(t, b) == t[b].state = "FREE"

\* Positions, relative to the home bucket of k, at which k is found.
Found(t, k, n) ==
  LET o == bucket_ix(k, n)
  IN {p \in t[o].owner : t[add_small(o, p, n)].key = k}

locate_key(t, k, n) ==
  LET o == bucket_ix(k, n)
      first == CHOOSE p \in Found(t, k, n) : \A q \in Found(t, k, n) : p <= q
  IN add_small(o, first, n)

\* The free buckets a probe from b can stop at, nearest first.
FreeDistances(t, b, n) == {d \in 0 .. n - 1 : is_free(t, add_small(b, d, n))}

nearest_free_bucket(t, b, n) ==
  LET near == CHOOSE d \in FreeDistances(t, b, n) :
                \A e \in FreeDistances(t, b, n) : d <= e
  IN add_small(b, near, n)

-----------------------------------------------------------------------------
\* owner::mask_all_ones() shifts a 64-bit one by 64.  A compiler that folds
\* the shift gets 0 and so all ones; a shift at run time (x86 takes the count
\* modulo 64) gets 1 and so no ones at all.
mask_all_ones == {Position, {}}

\* Positions of the owner d buckets before the free bucket which precede the
\* free bucket: mask_all_ones() after OwnerSize - 1 - d right shifts.
eligible_items(mask, d) == {p \in Position : p + (OwnerSize - 1 - d) \in mask}

\* Distances, counted back from the free bucket dst, of the owners which have
\* an element to give up.
Donors(t, dst, mask, n) ==
  {d \in 1 .. OwnerSize - 1 :
     t[subtract_small(dst, d, n)].owner \cap eligible_items(mask, d) # {}}

\* The farthest donor, and in it the rightmost eligible position.
DonorDistance(t, dst, mask, n) ==
  CHOOSE d \in Donors(t, dst, mask, n) :
    \A e \in Donors(t, dst, mask, n) : e <= d

DonorPosition(t, dst, mask, n) ==
  LET d == DonorDistance(t, dst, mask, n)
      c == t[subtract_small(dst, d, n)].owner \cap eligible_items(mask, d)
  IN CHOOSE p \in c : \A q \in c : p <= q

\* hop_hash::erase computes the position with a plain subtraction, not with
\* distance_wrapped.  If the home bucket is near the end of the table and the
\* content near its beginning the difference wraps, and the shift count is
\* taken modulo the number of bits.
EraseMaskUnreduced(b, o) == b - o
EraseMask(b, o) == (b - o) % OwnerSize

=============================================================================
