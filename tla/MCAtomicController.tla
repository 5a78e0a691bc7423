------------------------- MODULE MCAtomicController -------------------------
(***************************************************************************)
(* AtomicController with two keys and two allocations: one for a value and *)
(* one for the value on its way in.                                        *)
(***************************************************************************)
EXTENDS AtomicController, TLC

CONSTANTS k1, k2, b1, b2

MCKey == {k1, k2}

MCBlock == {b1, b2}

Symmetric == Permutations(MCBlock) \cup Permutations(MCKey) \cup Permutations(Val)

=============================================================================
