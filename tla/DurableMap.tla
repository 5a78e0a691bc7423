----------------------------- MODULE DurableMap -----------------------------
(***************************************************************************)
(* What hstore's table promises its single client: a set of keys, changed  *)
(* by one call at a time; a call takes effect at once and entirely; a call *)
(* that has returned survives every crash; a crash during a call leaves    *)
(* that call either done or not done and nothing else changed.             *)
(***************************************************************************)
CONSTANTS Key, NoKey

VARIABLES map,  \* the keys in the table
          call  \* the call in progress

vars == <<map, call>>

NoCall == [kind |-> "none", key |-> NoKey, res |-> "none"]

Init == map = {} /\ call = NoCall

Begin(kind, k) ==
  /\ call = NoCall
  /\ call' = [kind |-> kind, key |-> k, res |-> "none"]
  /\ UNCHANGED map

Answer(kind, res) ==
  /\ call.kind = kind
  /\ call.res = "none"
  /\ call' = [call EXCEPT !.res = res]

Inserted == Answer("emplace", "inserted") /\ call.key \notin map /\ map' = map \cup {call.key}
Present == Answer("emplace", "present") /\ call.key \in map /\ UNCHANGED map
Full == Answer("emplace", "full") /\ call.key \notin map /\ UNCHANGED map
Erased == Answer("erase", "erased") /\ call.key \in map /\ map' = map \ {call.key}
Absent == Answer("erase", "absent") /\ call.key \notin map /\ UNCHANGED map

Return == call.res # "none" /\ call' = NoCall /\ UNCHANGED map

\* The map without the effect of the call in progress, and with it.
Before ==
  CASE call.res = "inserted" -> map \ {call.key}
    [] call.res = "erased" -> map \cup {call.key}
    [] OTHER -> map

After ==
  CASE call.res = "full" -> map
    [] call.kind = "emplace" -> map \cup {call.key}
    [] OTHER -> map \ {call.key}

Crash == call # NoCall /\ call' = NoCall /\ map' \in {Before, After}

Next ==
  \/ \E kind \in {"emplace", "erase"}, k \in Key : Begin(kind, k)
  \/ Inserted \/ Present \/ Full \/ Erased \/ Absent
  \/ Return \/ Crash

Spec == Init /\ [][Next]_vars

=============================================================================
