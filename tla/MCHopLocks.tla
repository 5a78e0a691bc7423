----------------------------- MODULE MCHopLocks -----------------------------
(***************************************************************************)
(* Instances of HopLocks: owners of two positions, four buckets that may   *)
(* double once.                                                            *)
(***************************************************************************)
EXTENDS HopLocks, TLC

CONSTANTS k1, k2, k3, k4, k5

MCKey == {k1, k2, k3, k4, k5}

\* k1, k2 and k3 share a home in the small table, and k1 leaves it when the
\* table doubles; k5's positions wrap.
MCHash == k1 :> 4 @@ k2 :> 0 @@ k3 :> 0 @@ k4 :> 1 @@ k5 :> 3

\* Handles are interchangeable: only held and op name them.
HandleSymmetry == Permutations(Handle)
=============================================================================
