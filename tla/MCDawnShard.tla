---------------------------- MODULE MCDawnShard -----------------------------
(***************************************************************************)
(* Small instances of DawnShard for TLC.                                   *)
(***************************************************************************)
EXTENDS DawnShard, TLC

CONSTANTS c1, c2,  \* the clients
          Ops      \* the kinds of requests made

\* A put sends a value of some length, or of none; get_direct has room for any value, and
\* get for what fits a packet.
MCRequest ==
  {r \in [op : Ops, key : Key, len : 0 .. Large] :
     CASE r.op = "put" -> r.len \in {Tiny, Medium}
       [] r.op = "put_new" -> r.len \in {0, Small}
       [] r.op \in {"put_advance", "put_advance_new"} -> r.len = Large
       [] r.op = "get" -> r.len = Medium
       [] r.op = "get_direct" -> r.len = Large
       [] OTHER -> r.len = 0}

Three == [c \in Client |-> 3]
ThreeAndTwo == [c \in Client |-> IF c = c1 THEN 3 ELSE 2]
ThreeAndOne == [c \in Client |-> IF c = c1 THEN 3 ELSE 1]

\* The clients are alike only where they may make as many requests.
Symmetric == Permutations(Addr)
=============================================================================
