----------------------------- MODULE MCHopHash -----------------------------
(***************************************************************************)
(* Instances of HopHash for TLC.                                           *)
(***************************************************************************)
EXTENDS HopHashInv, TLC

CONSTANTS ka, kb, kc, kd, ke

\* Owners of two positions in a table of four buckets.  Three keys compete for
\* buckets 0 and 1, so that an element has to hop; two for bucket 3, so that
\* one wraps to bucket 0.  When the table doubles, one key of each group stays
\* and one moves.
NarrowHash ==
  [k \in Key |-> ((ka :> 0) @@ (kb :> 4) @@ (kc :> 1) @@ (kd :> 3) @@ (ke :> 7))[k]]

\* Owners of four positions in a table of eight buckets: a crowd around the
\* end of the table, where the last key finds its home range full and the
\* choice among donors, and the wrap of their positions, matter.
WideHash == (ka :> 6) @@ (kb :> 7) @@ (kc :> 8) @@ (kd :> 9) @@ (ke :> 14)
=============================================================================
