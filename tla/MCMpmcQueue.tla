---------------------------- MODULE MCMpmcQueue ----------------------------
(***************************************************************************)
(* Mpmc_bounded_lfq with a bound on the tickets, so that every node is     *)
(* used for several rounds.                                                *)
(***************************************************************************)
EXTENDS MpmcQueueInv, TLC

CONSTANT MaxTicket

BoundedSpec == Init /\ [][Next /\ head' <= MaxTicket]_vars

Threads == Permutations(Thread)

=============================================================================
