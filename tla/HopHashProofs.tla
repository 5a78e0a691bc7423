--------------------------- MODULE HopHashProofs ----------------------------
(***************************************************************************)
(* The inductive invariant of HopHash holds of every reachable state, and with *)
(* it the type invariant and the safety properties, for every set of keys, *)
(* hash function, owner width, base size and segment capacity.             *)
(***************************************************************************)
EXTENDS HopDoubleProofs, FiniteSetTheorems

\* The cache.

\* A line that the cache writes back falsifies nothing.
LEMMA WritebackStep ==
  ASSUME IInv, Counters', Writeback
  PROVE  TypeOK' /\ Whole' /\ Phases'
<1>1. UNCHANGED <<line, size, count, sc, heap, pc, op, n, home>>
  BY DEF Writeback, n, home
<1>2. \A b \in Index : pline'[b] = pline[b] \/ pline'[b] = line[b]
  BY DEF IInv, TypeOK, Writeback, Evict
<1>3. pline' \in Tables
  BY DEF IInv, TypeOK, Tables, Writeback, Evict
<1>4. /\ psize' \in {psize, size} /\ pcount' \in {pcount, count} /\ psc' \in {psc, sc}
  BY DEF Writeback, Evict
<1>5. TypeOK'
  BY <1>1, <1>3, <1>4 DEF IInv, TypeOK, Tables
<1>6. Whole'
  BY <1>1, <1>2 DEF Whole, WholeOK, IInv
<1>7. \A X : Same(X) => Same(X)'
  BY <1>1, <1>2 DEF Same
<1>8. (QuietOK /\ SpaceOK)'
  BY <1>1, <1>7 DEF IInv, QuietOK, SpaceOK, Table
<1>9. HopOK'
  <2>1. CASE pc \notin Hopping
    BY ZenonT(30), <1>1, <2>1 DEF HopOK
  <2>2. CASE pc \in Hopping
    <3>1. \A b \in {op.dst, op.src} : SameOwner(b) => SameOwner(b)'
      BY <1>1, <1>2, <2>2, HopTyping DEF SameOwner
    <3>2. pline[op.src].key = line[op.src].key => pline'[op.src].key = line'[op.src].key
      BY <1>1, <1>2, <2>2, HopTyping
    <3>3. SameContent(op.own) => SameContent(op.own)'
      BY <1>1, <1>2, <2>2, HopTyping DEF SameContent
    <3>4. pline'[op.own].owner \in {pline[op.own].owner, line[op.own].owner}
      BY <1>1, <1>2, <2>2, HopTyping
    <3>5. /\ pline'[op.dst].state \in {pline[op.dst].state, line[op.dst].state}
      BY <1>1, <1>2, <2>2, HopTyping
    <3>6. HopOK
      BY DEF IInv
    <3> QED BY ZenonT(30), <1>1, <1>7, <3>1, <3>2, <3>3, <3>4, <3>5, <3>6 DEF HopOK, Table
  <2> QED BY <2>1, <2>2
<1>10. InsertOK'
  <2>1. CASE pc \notin Inserting
    BY ZenonT(30), <1>1, <2>1 DEF InsertOK
  <2>2. CASE pc \in Inserting
    <3>1. SameOwner(op.dst) => SameOwner(op.dst)'
      BY <1>1, <1>2, <2>2, KeyTyping DEF SameOwner
    <3>2. SameContent(home) => SameContent(home)'
      BY <1>1, <1>2, <2>2, KeyTyping DEF SameContent
    <3>3. pline'[home].owner \in {pline[home].owner, line[home].owner}
      BY <1>1, <1>2, <2>2, KeyTyping
    <3>4. pline'[op.dst].state \in {pline[op.dst].state, line[op.dst].state}
      BY <1>1, <1>2, <2>2, KeyTyping
    <3>5. InsertOK
      BY DEF IInv
    <3> QED BY ZenonT(30), <1>1, <1>7, <3>1, <3>2, <3>3, <3>4, <3>5 DEF InsertOK, Table
  <2> QED BY <2>1, <2>2
<1>11. EraseOK'
  <2>1. CASE pc \notin Erasing
    BY ZenonT(30), <1>1, <2>1 DEF EraseOK
  <2>2. CASE pc \in Erasing
    <3>1. SameOwner(op.src) => SameOwner(op.src)'
      BY ZenonT(30), <1>1, <1>2, <2>2, KeyTyping DEF SameOwner
    <3>2. SameContent(home) => SameContent(home)'
      BY ZenonT(30), <1>1, <1>2, <2>2, KeyTyping DEF SameContent
    <3>3. pline'[home].owner \in {pline[home].owner, line[home].owner}
      BY <1>1, <1>2, <2>2, KeyTyping
    <3>4. EraseOK
      BY DEF IInv
    <3> QED BY ZenonT(30), <1>1, <1>7, <3>1, <3>2, <3>3, <3>4 DEF EraseOK, Table
  <2> QED BY <2>1, <2>2
<1>12. RecoverOK'
  <2>1. RecoverOK
    BY DEF IInv
  <2>2. ASSUME pc = "scan_states"
        PROVE  \A b \in Index : SameOwner(b)' /\ (pline'[b].key = line'[b].key \/ ~owned_by_owner_mask(line, b, n))
    BY <1>1, <1>2, <2>1, <2>2 DEF RecoverOK, SameOwner
  <2> QED BY <1>1, <1>7, <2>1, <2>2 DEF RecoverOK, Table
<1>13. DoublingOK'
  <2>1. DoublingOK
    BY DEF IInv
  <2>2. ASSUME count.unst = 1
        PROVE  SamePairs(n)' /\ OwnersOK(pline', n)
    <3>1. SamePairs(n) /\ OwnersOK(line, n) /\ OwnersOK(pline, n)
      BY <2>1, <2>2 DEF DoublingOK, PairedOK
    <3>2. \A b \in 0 .. 2 * n - 1 : pline'[b] = line[b] \/ pline'[b] = pline[b]
      BY <1>2, <2>2, DoubleTyping
    <3>3. \A ix \in 0 .. n - 1 : PairKey(pline', n, ix) = PairKey(line, n, ix)
                               /\ PairPlace(pline', n, ix) = PairPlace(line, n, ix)
      <4>1. n \in Nat \ {0}
        BY <2>2, DoubleTyping
      <4>2. \A ix \in 0 .. n - 1 : PairKey(pline, n, ix) = PairKey(line, n, ix)
                                 /\ PairPlace(pline, n, ix) = PairPlace(line, n, ix)
        BY <3>1 DEF SamePairs
      <4> QED BY <3>2, <4>1, <4>2, MixPairs
    <3>4. OwnersOK(pline', n)
      BY ZenonT(60), <1>3, <2>2, <3>1, <3>2, <3>3, DoubleTyping, MixOwners DEF SamePairs
    <3> QED BY <1>1, <3>3, <3>4 DEF SamePairs
  <2>3. DoubledOK'
    <3>1. pc = "rsz_done" => count.unst = 0
      BY DEF IInv, CountOK, Doubling
    <3> QED BY <1>1, <1>4, <1>7, <2>1, <3>1 DEF DoublingOK, DoubledOK, Table
  <2>4. CopiedOK' /\ RestartOK'
    BY <1>1, <1>7, <2>1 DEF DoublingOK, CopiedOK, RestartOK, Table
  <2>5. PairedOK'
    BY <1>1, <1>7, <2>1, <2>2 DEF DoublingOK, PairedOK
  <2>6. PassOK' /\ AdjustedOK'
    BY <1>1, <2>1 DEF DoublingOK, PassOK, AdjustedOK
  <2> QED BY <2>3, <2>4, <2>5, <2>6 DEF DoublingOK
<1> QED BY ZenonT(30), <1>5, <1>6, <1>8, <1>9, <1>10, <1>11, <1>12, <1>13 DEF Phases

-----------------------------------------------------------------------------
\* The image in persistent memory.

\* The image in memory is a sound table, whatever the point reached.
Durable == /\ HomeOK(pline, n) /\ UniqueOK(pline, n)
           /\ psize.unst = 0 => StatesOK(pline, n, {})

\* ... because all of it is in memory,
LEMMA DurableSame ==
  ASSUME TypeOK, Same({}), HomeOK(line, n), UniqueOK(line, n), psize.unst = 0 => StatesOK(line, n, {})
  PROVE  Durable
<1>1. line \in Tables /\ pline \in Tables /\ TableSize(n) /\ 0 .. n - 1 \subseteq Index
  BY Typing, TableType
<1>2. \A b \in 0 .. n - 1 : pline[b] = line[b]
  BY <1>1 DEF Same
<1>3. HomeOK(pline, n) /\ UniqueOK(pline, n)
  BY <1>1, <1>2, KeepTable
<1>4. psize.unst = 0 => StatesOK(pline, n, {})
  BY <1>1, <1>2, KeepStates
<1> QED BY <1>3, <1>4 DEF Durable

\* ... during a hop,
LEMMA DurableHop ==
  ASSUME IInv, pc \in Hopping
  PROVE  Durable
<1> DEFINE d == distance_wrapped(op.own, op.dst, n)
           s == distance_wrapped(op.own, op.src, n)
<1>1. HopOK /\ TypeOK
  BY DEF IInv
<1>2. HomeOK(line, n) /\ UniqueOK(line, n) /\ line[op.dst].key = line[op.src].key
  BY <1>1 DEF HopOK, Table
<1>3. add_small(op.own, d, n) = op.dst /\ add_small(op.own, s, n) = op.src
  BY HopTyping, DistanceAdd
<1>4. pc \in {"hop_src", "hop_dst", "hop_owner"} => psize.unst = 1
  BY DEF IInv, SizeOK, Unstable
<1>5. CASE pc \in {"hop_unstable", "hop_src", "hop_dst"}
  <2>1. s \in line[op.own].owner /\ d \notin line[op.own].owner /\ SameOwner(op.dst)
    BY <1>1, <1>5 DEF HopOK
  <2>2. ~owned_by_owner_mask(line, op.dst, n)
    <3>1. SUFFICES ASSUME NEW o \in 0 .. n - 1, NEW p \in line[o].owner, op.dst = add_small(o, p, n)
                   PROVE  FALSE
      BY HopTyping, OwnedPosition
    <3>2. bucket_ix(line[op.dst].key, n) = o
      BY <1>2, <3>1 DEF HomeOK
    <3>3. bucket_ix(line[op.src].key, n) = op.own
      BY <1>2, <1>3, <2>1, HopTyping DEF HomeOK
    <3>4. o = op.own /\ p \in Position
      BY ZenonT(30), <1>2, <3>2, <3>3, HopTyping, TableType
    <3>5. p = d
      BY ZenonT(30), <3>1, <3>4, HopTyping, AddDistance
    <3> QED BY <2>1, <3>4, <3>5
  <2>3. \A b \in Index : b # op.dst => pline[b].owner = line[b].owner /\ pline[b].key = line[b].key
    BY <1>1, <1>5, HopTyping DEF HopOK, Same, SameOwner
  <2>4. /\ \A o \in 0 .. n - 1 : pline[o].owner = line[o].owner
        /\ \A b \in 0 .. n - 1 : owned_by_owner_mask(line, b, n) => pline[b].key = line[b].key
    BY ZenonT(30), <2>1, <2>2, <2>3, HopTyping DEF SameOwner
  <2>5. HomeOK(pline, n) /\ UniqueOK(pline, n)
    BY <1>2, <2>4, HopTyping, KeepTable
  <2>6. CASE pc = "hop_unstable"
    <3>1. \A b \in 0 .. n - 1 : pline[b].state = line[b].state
      BY ZenonT(30), <1>1, <2>6, HopTyping DEF HopOK, Same
    <3>2. StatesOK(line, n, {})
      BY <1>1, <2>6 DEF HopOK, Table
    <3>3. StatesOK(pline, n, {})
      BY <2>4, <3>1, <3>2, HopTyping, KeepStates
    <3> QED BY <2>5, <3>3 DEF Durable
  <2> QED BY <1>4, <1>5, <2>5, <2>6 DEF Durable
<1>6. CASE pc = "hop_owner"
  <2>1. /\ Same({op.own}) /\ SameContent(op.own) /\ d \in line[op.own].owner /\ s \notin line[op.own].owner
        /\ pline[op.own].owner \in {line[op.own].owner, move(line[op.own].owner, s, d)}
        /\ d \in Position /\ s \in Position
    BY <1>1, <1>6 DEF HopOK
  <2> HIDE DEF d, s
  <2>2. \A b \in 0 .. n - 1 : pline[b].key = line[b].key
    BY <2>1, HopTyping DEF Same, SameContent
  <2>3. \A x \in (0 .. n - 1) \ {op.own} : pline[x].owner = line[x].owner
    BY <2>1, HopTyping DEF Same
  <2>4. CASE pline[op.own].owner = line[op.own].owner
    <3>1. \A x \in 0 .. n - 1 : pline[x].owner = line[x].owner
      BY <2>3, <2>4
    <3>2. HomeOK(pline, n) /\ UniqueOK(pline, n)
      BY ZenonT(30), <1>2, <2>2, <3>1, HopTyping, KeepTable
    <3> QED BY <1>4, <1>6, <3>2 DEF Durable
  <2>5. CASE pline[op.own].owner = move(line[op.own].owner, s, d)
    <3>1. line[add_small(op.own, s, n)].key = line[add_small(op.own, d, n)].key
      BY ZenonT(30), <1>2, <1>3
    <3>2. HomeOK(pline, n) /\ UniqueOK(pline, n)
      BY ZenonT(30), <1>2, <2>1, <2>2, <2>3, <2>5, <3>1, HopTyping, MoveOwner
    <3> QED BY <1>4, <1>6, <3>2 DEF Durable
  <2> QED BY ZenonT(30), <2>1, <2>4, <2>5
<1>7. CASE pc = "hop_stable"
  <2>1. Same({}) /\ StatesOK(line, n, {})
    BY <1>1, <1>7 DEF HopOK, Table
  <2> QED BY <1>1, <1>2, <2>1, DurableSame
<1> QED BY <1>5, <1>6, <1>7 DEF Hopping

\* ... during the four-step change of emplace,
LEMMA DurableInsert ==
  ASSUME IInv, pc \in Inserting
  PROVE  Durable
<1> DEFINE d == distance_wrapped(home, op.dst, n)
<1>1. InsertOK /\ TypeOK
  BY DEF IInv
<1>2. HomeOK(line, n) /\ UniqueOK(line, n) /\ line[op.dst].key = op.key /\ op.dst < n
  BY <1>1 DEF InsertOK, Table
<1>3. op.dst \in 0 .. n - 1
  BY <1>2, KeyTyping DEF Index
<1>4. pc \in {"ins_content", "ins_owner"} => psize.unst = 1
  BY DEF IInv, SizeOK, Unstable
<1>5. CASE pc \in {"ins_unstable", "ins_content"}
  <2>1. AbsentOK(line, op.key, n) /\ Same({op.dst}) /\ SameOwner(op.dst)
    BY ZenonT(30), <1>1, <1>5 DEF InsertOK
  <2>2. ~owned_by_owner_mask(line, op.dst, n)
    BY ZenonT(30), <1>2, <1>3, <2>1, KeyTyping, AbsentEverywhere
  <2>3. /\ \A o \in 0 .. n - 1 : pline[o].owner = line[o].owner
        /\ \A b \in 0 .. n - 1 : owned_by_owner_mask(line, b, n) => pline[b].key = line[b].key
    BY <2>1, <2>2, KeyTyping DEF Same, SameOwner
  <2>4. HomeOK(pline, n) /\ UniqueOK(pline, n)
    BY ZenonT(30), <1>2, <2>3, KeyTyping, KeepTable
  <2>5. CASE pc = "ins_unstable"
    <3>1. StatesOK(line, n, {}) /\ line[op.dst].state = "FREE" /\ pline[op.dst].state = "FREE"
      BY <1>1, <2>5 DEF InsertOK, Table
    <3>2. \A b \in 0 .. n - 1 : pline[b].state = line[b].state
      BY ZenonT(30), <2>1, <3>1, KeyTyping DEF Same
    <3>3. StatesOK(pline, n, {})
      BY <2>3, <3>1, <3>2, KeyTyping, KeepStates
    <3> QED BY <2>4, <3>3 DEF Durable
  <2> QED BY <1>4, <1>5, <2>4, <2>5 DEF Durable
<1>6. CASE pc = "ins_owner"
  <2>1. /\ Same({home}) /\ SameContent(home) /\ d \in line[home].owner
        /\ pline[home].owner \in {line[home].owner, line[home].owner \ {d}}
    BY ZenonT(30), <1>1, <1>6 DEF InsertOK
  <2> HIDE DEF d
  <2>2. \A b \in 0 .. n - 1 : pline[b].key = line[b].key
    BY <2>1, KeyTyping DEF Same, SameContent
  <2>3. \A x \in (0 .. n - 1) \ {home} : pline[x].owner = line[x].owner
    BY <2>1, KeyTyping DEF Same
  <2>4. CASE pline[home].owner = line[home].owner
    <3>1. \A x \in 0 .. n - 1 : pline[x].owner = line[x].owner
      BY <2>3, <2>4
    <3>2. HomeOK(pline, n) /\ UniqueOK(pline, n)
      BY ZenonT(30), <1>2, <2>2, <3>1, KeyTyping, KeepTable
    <3> QED BY <1>4, <1>6, <3>2 DEF Durable
  <2>5. CASE pline[home].owner = line[home].owner \ {d}
    <3>1. HomeOK(pline, n) /\ UniqueOK(pline, n)
      BY ZenonT(30), <1>2, <2>1, <2>2, <2>3, <2>5, KeyTyping, LoseOwner
    <3> QED BY <1>4, <1>6, <3>1 DEF Durable
  <2> QED BY ZenonT(30), <2>1, <2>4, <2>5
<1>7. CASE pc = "ins_stable"
  <2>1. Same({}) /\ StatesOK(line, n, {})
    BY <1>1, <1>7 DEF InsertOK, Table
  <2> QED BY ZenonT(30), <1>1, <1>2, <2>1, DurableSame
<1> QED BY <1>5, <1>6, <1>7 DEF Inserting

\* ... and during erase.
LEMMA DurableErase ==
  ASSUME IInv, pc \in Erasing
  PROVE  Durable
<1> DEFINE p == distance_wrapped(home, op.src, n)
<1>1. EraseOK /\ TypeOK
  BY DEF IInv
<1>2. HomeOK(line, n) /\ UniqueOK(line, n) /\ op.src < n /\ p \in Position
  BY <1>1 DEF EraseOK, Table
<1>3. op.src \in 0 .. n - 1
  BY <1>2, KeyTyping DEF Index
<1>4. pc \in {"del_owner", "del_content"} => psize.unst = 1
  BY DEF IInv, SizeOK, Unstable
<1>5. CASE pc = "del_owner"
  <2>1. /\ Same({home}) /\ SameContent(home) /\ AbsentOK(line, op.key, n) /\ line[op.src].key = op.key
        /\ pline[home].owner \in {line[home].owner, line[home].owner \cup {p}}
    BY <1>1, <1>5 DEF EraseOK
  <2>2. add_small(home, p, n) = op.src
    BY ZenonT(30), <1>3, KeyTyping, DistanceAdd
  <2> HIDE DEF p
  <2>3. \A b \in 0 .. n - 1 : pline[b].key = line[b].key
    BY <2>1, KeyTyping DEF Same, SameContent
  <2>4. \A x \in (0 .. n - 1) \ {home} : pline[x].owner = line[x].owner
    BY <2>1, KeyTyping DEF Same
  <2>5. CASE pline[home].owner = line[home].owner
    <3>1. \A x \in 0 .. n - 1 : pline[x].owner = line[x].owner
      BY <2>4, <2>5
    <3>2. HomeOK(pline, n) /\ UniqueOK(pline, n)
      BY ZenonT(30), <1>2, <2>3, <3>1, KeyTyping, KeepTable
    <3> QED BY <1>4, <1>5, <3>2 DEF Durable
  <2>6. CASE pline[home].owner = line[home].owner \cup {p}
    <3>1. \A q \in line[home].owner : line[add_small(home, q, n)].key # op.key
      BY ZenonT(30), <2>1, KeyTyping DEF AbsentOK
    <3>2. bucket_ix(line[op.src].key, n) = home /\ line[op.src].key \in Key
      BY ZenonT(30), <2>1, KeyTyping
    <3>3. HomeOK(pline, n) /\ UniqueOK(pline, n)
      BY <1>2, <2>1, <2>2, <2>3, <2>4, <2>6, <3>1, <3>2, KeyTyping, GainOwner
    <3> QED BY <1>4, <1>5, <3>3 DEF Durable
  <2> QED BY ZenonT(30), <2>1, <2>5, <2>6
<1>6. CASE pc = "del_content"
  <2>1. Same({op.src}) /\ SameOwner(op.src) /\ line[op.src].state = "FREE" /\ StatesOK(line, n, {})
    BY <1>1, <1>6 DEF EraseOK, Table
  <2>2. ~owned_by_owner_mask(line, op.src, n)
    BY <1>3, <2>1 DEF StatesOK
  <2>3. /\ \A o \in 0 .. n - 1 : pline[o].owner = line[o].owner
        /\ \A b \in 0 .. n - 1 : owned_by_owner_mask(line, b, n) => pline[b].key = line[b].key
    BY <2>1, <2>2, KeyTyping DEF Same, SameOwner
  <2>4. HomeOK(pline, n) /\ UniqueOK(pline, n)
    BY <1>2, <2>3, KeyTyping, KeepTable
  <2> QED BY <1>4, <1>6, <2>4 DEF Durable
<1>7. CASE pc \in {"del_unstable", "del_stable"}
  <2>1. Same({}) /\ StatesOK(line, n, {})
    BY <1>1, <1>7 DEF EraseOK, Table
  <2> QED BY ZenonT(30), <1>1, <1>2, <2>1, DurableSame
<1> QED BY <1>5, <1>6, <1>7 DEF Erasing

\* Unless a doubling is recorded, memory holds a sound table, and a stable size
\* there vouches for its content states.
LEMMA DurableTable ==
  ASSUME IInv, pcount.unst = 0
  PROVE  Durable /\ pcount.val = count.val
<1>1. TypeOK
  BY DEF IInv
<1>2. pcount.val = count.val
  <2>1. count \in Count
    BY <1>1 DEF TypeOK
  <2>2. stabilize(count).val = count.val
    BY <2>1 DEF stabilize, Count
  <2>3. pc = "rsz_marked" => pcount \in {count, stabilize(count)}
    BY DEF IInv, CountOK
  <2>4. pc # "rsz_marked" => pcount = count
    BY DEF IInv, CountOK
  <2> QED BY <2>2, <2>3, <2>4
<1>3. pc \notin {"pass2", "pass2_adjusted"} /\ (pc = "recover" => count.unst = 0)
      /\ pc \in Pc
  BY <1>1 DEF IInv, CountOK, Doubling, TypeOK
<1>4. CASE pc \in Hopping \cup Inserting \cup Erasing
  BY ZenonT(30), <1>2, <1>4, DurableHop, DurableInsert, DurableErase
<1>5. CASE pc \in {"idle", "ret", "try", "find", "resize", "scan_size", "space", "rsz_copied", "rsz_marked", "rsz_done"}
  <2>1. Table({}) /\ Same({})
    BY <1>5 DEF IInv, QuietOK, SpaceOK, DoublingOK, CopiedOK, DoubledOK
  <2> QED BY ZenonT(30), <1>1, <1>2, <2>1, DurableSame DEF Table
<1>6. CASE pc \in {"recover", "scan"}
  <2>1. count.unst = 0 /\ psize = size
    BY ZenonT(30), <1>3, <1>6 DEF IInv, CountOK, Doubling, SizeOK, Entering, Unstable, Leaving
  <2>2. HomeOK(line, n) /\ UniqueOK(line, n) /\ Same({}) /\ (psize.unst = 0 => StatesOK(line, n, {}))
    BY ZenonT(30), <1>6, <2>1 DEF IInv, RecoverOK
  <2> QED BY ZenonT(30), <1>1, <1>2, <2>2, DurableSame
<1>7. CASE pc = "scan_states"
  <2>1. /\ HomeOK(line, n) /\ UniqueOK(line, n) /\ psize.unst = 1
        /\ \A b \in Index : SameOwner(b) /\ (pline[b].key = line[b].key \/ ~owned_by_owner_mask(line, b, n))
    BY <1>7 DEF IInv, RecoverOK, Table, SizeOK, Unstable
  <2>2. line \in Tables /\ pline \in Tables /\ TableSize(n) /\ 0 .. n - 1 \subseteq Index
    BY <1>1, Typing, TableType
  <2>3. HomeOK(pline, n) /\ UniqueOK(pline, n)
    BY <2>1, <2>2, KeepTable DEF SameOwner
  <2> QED BY <1>2, <2>1, <2>3 DEF Durable
<1> QED BY ZenonT(30), <1>3, <1>4, <1>5, <1>6, <1>7 DEF Pc, Hopping, Inserting, Erasing

\* If a doubling is recorded, memory holds what pass 2 needs to start again.
LEMMA DurablePairs ==
  ASSUME IInv, pcount.unst = 1
  PROVE  LET m == bucket_count(pcount.val)
         IN /\ TableSize(m) /\ TableSize(2 * m) /\ m \in Nat \ {0} /\ 0 .. 2 * m - 1 \subseteq Index
            /\ PairsOK(pline, m) /\ OwnersOK(pline, m)
<1> DEFINE m == bucket_count(pcount.val)
<1>1. TypeOK
  BY DEF IInv
<1>2. CASE pcount = count
  <2>1. count.unst = 1 /\ m = n
    BY <1>2 DEF n
  <2>2. PairsOK(line, n) /\ SamePairs(n) /\ OwnersOK(pline, n)
    BY <2>1 DEF IInv, DoublingOK, PairedOK
  <2>3. n \in Nat
    BY <2>1, DoubleTyping
  <2>4. PairsOK(pline, n)
    BY <2>2, <2>3, KeepPairs DEF SamePairs
  <2> QED BY <2>1, <2>2, <2>4, DoubleTyping
<1>3. CASE pcount # count
  <2>1. pc = "rsz_done" /\ count.val > 1 /\ pcount = [val |-> count.val - 1, unst |-> 1]
    <3>1. count \in Count
      BY <1>1 DEF TypeOK
    <3>2. pc = "rsz_marked" => count.unst = 1 /\ stabilize(count).unst = 0
      BY <3>1 DEF IInv, CountOK, Doubling, stabilize, Count
    <3> QED BY <1>3, <3>2 DEF IInv, CountOK
  <2>2. count.val \in 1 .. SegmentCapacity /\ pcount.val \in 1 .. SegmentCapacity
        /\ count.val = pcount.val + 1
    BY <1>1, <2>1 DEF TypeOK, Count
  <2>3. n = 2 * m
    BY <2>2, BucketCountDoubles DEF n
  <2>4. TableSize(m) /\ TableSize(2 * m) /\ m \in Nat \ {0}
    BY ZenonT(30), <2>2, <2>3, BucketCountIsTableSize DEF n, TableSize
  <2>5. line \in Tables /\ pline \in Tables
    BY <1>1, Typing
  <2>6. 0 .. 2 * m - 1 \subseteq Index
    BY ZenonT(30), <2>4, <2>5, TableType
  <2>7. Same({}) /\ PairsOK(line, m) /\ OwnersOK(line, m)
    BY <2>1 DEF IInv, DoublingOK, DoubledOK
  <2> HIDE DEF m
  <2>8. \A b \in 0 .. 2 * m - 1 : pline[b] = line[b]
    BY ZenonT(30), <2>6, <2>7 DEF Same
  <2>9. \A ix \in 0 .. m - 1 : PairKey(pline, m, ix) = PairKey(line, m, ix)
                             /\ PairPlace(pline, m, ix) = PairPlace(line, m, ix)
    BY <2>4, <2>8, MixPairs
  <2>10. PairsOK(pline, m)
    BY <2>4, <2>7, <2>9, KeepPairs
  <2>11. OwnersOK(pline, m)
    BY ZenonT(30), <2>4, <2>5, <2>7, <2>8, <2>9, MixOwners
  <2> QED BY ZenonT(30), <2>4, <2>6, <2>10, <2>11 DEF m
<1> QED BY <1>2, <1>3

-----------------------------------------------------------------------------
\* Crash and recovery.

\* A power failure leaves a table that recovery can work on.
LEMMA CrashStep ==
  ASSUME IInv, Counters', Crash
  PROVE  TypeOK' /\ Whole' /\ Phases'
<1> DEFINE m == bucket_count(pcount.val)
<1>1. /\ line' = Forget(pline, pcount) /\ pline' = line' /\ size' = psize /\ count' = pcount
      /\ pc' = "recover" /\ op' = NoOp /\ n' = m /\ psize' = psize /\ pcount' = pcount
  BY DEF Crash, n
<1>2. TypeOK
  BY DEF IInv
<1>3. NoOp \in Op /\ NoOp.ix = 0
  BY MaxBucketsType DEF NoOp, Op, Index
<1>4. pline \in Tables /\ pcount \in Count /\ TableSize(m) /\ 0 .. m - 1 \subseteq Index
  <2>1. pline \in Tables /\ pcount \in Count
    BY <1>2, Typing DEF TypeOK
  <2>2. TableSize(m)
    BY <2>1, BucketCountIsTableSize DEF Count
  <2> QED BY ZenonT(30), <2>1, <2>2, TableType
<1>5. line' \in Tables
  <2>1. Blank \in Bucket
    BY DEF Blank, Bucket, ContentState
  <2>2. \A b \in Index : [pline[b] EXCEPT !.key = NoKey] \in Bucket
    BY <1>4 DEF Tables, Bucket
  <2> QED BY ZenonT(30), <1>1, <1>4, <2>1, <2>2 DEF Forget, Tables
<1>6. TypeOK'
  BY ZenonT(30), <1>1, <1>2, <1>3, <1>5 DEF TypeOK, Tables, Pc, Crash
<1>7. \A b \in Index : line'[b].state = "IN_USE" => line'[b] = pline[b]
  BY <1>1, <1>4 DEF Forget, Blank, is_free, Tables, Bucket
<1>8. Whole'
  BY <1>1, <1>7 DEF Whole, WholeOK, IInv
<1>9. Same({})'
  BY <1>1 DEF Same
<1>10. CASE pcount.unst = 0
  <2>1. Durable /\ n = m
    BY <1>10, DurableTable DEF n
  <2>2. \A b \in 0 .. m - 1 : /\ line'[b].owner = pline[b].owner /\ line'[b].state = pline[b].state
                              /\ owned_by_owner_mask(pline, b, m) => line'[b].key = pline[b].key
    <3> SUFFICES ASSUME NEW b \in 0 .. m - 1
                 PROVE  /\ line'[b].owner = pline[b].owner /\ line'[b].state = pline[b].state
                        /\ owned_by_owner_mask(pline, b, m) => line'[b].key = pline[b].key
      OBVIOUS
    <3>1. b \in Index /\ ~(m <= b) /\ pline[b] \in Bucket
      BY <1>4 DEF TableSize, Tables
    <3>2. line'[b] = IF is_free(pline, b) /\ ~owned_by_owner_mask(pline, b, m)
                     THEN [pline[b] EXCEPT !.key = NoKey] ELSE pline[b]
      BY ZenonT(30), <1>1, <1>10, <3>1 DEF Forget, is_stable
    <3> QED BY <3>1, <3>2 DEF Bucket
  <2>3. HomeOK(line', m) /\ UniqueOK(line', m)
    BY ZenonT(30), <1>4, <1>5, <2>1, <2>2, KeepTable DEF Durable
  <2>4. psize.unst = 0 => StatesOK(line', m, {})
    BY <1>4, <1>5, <2>1, <2>2, KeepStates DEF Durable
  <2>5. RecoverOK'
    BY ZenonT(30), <1>1, <1>9, <2>3, <2>4 DEF RecoverOK
  <2>6. DoublingOK'
    BY <1>1, <1>3, <1>9, <1>10 DEF DoublingOK, CopiedOK, PairedOK, RestartOK, PassOK, AdjustedOK, DoubledOK
  <2>7. (QuietOK /\ SpaceOK /\ HopOK /\ InsertOK /\ EraseOK)'
    BY <1>1 DEF QuietOK, SpaceOK, HopOK, InsertOK, EraseOK, Hopping, Inserting, Erasing
  <2> QED BY ZenonT(30), <1>6, <1>8, <2>5, <2>6, <2>7 DEF Phases
<1>11. CASE pcount.unst = 1
  <2>1. /\ TableSize(2 * m) /\ m \in Nat \ {0} /\ 0 .. 2 * m - 1 \subseteq Index
        /\ PairsOK(pline, m) /\ OwnersOK(pline, m)
    BY <1>11, DurablePairs
  <2> HIDE DEF m
  <2>2. \A b \in 0 .. 2 * m - 1 : /\ line'[b].owner = pline[b].owner /\ line'[b].state = pline[b].state
                                  /\ pline[b].state = "IN_USE" => line'[b].key = pline[b].key
    <3> SUFFICES ASSUME NEW b \in 0 .. 2 * m - 1
                 PROVE  /\ line'[b].owner = pline[b].owner /\ line'[b].state = pline[b].state
                        /\ pline[b].state = "IN_USE" => line'[b].key = pline[b].key
      OBVIOUS
    <3>1. b \in Index /\ pline[b] \in Bucket
      BY <1>4, <2>1 DEF Tables
    <3>2. line'[b] = IF is_free(pline, b) THEN [pline[b] EXCEPT !.key = NoKey] ELSE pline[b]
      BY <1>1, <1>11, <3>1 DEF Forget, is_stable
    <3> QED BY <3>1, <3>2 DEF Bucket, is_free
  <2>3. \A ix \in 0 .. m - 1 : PairKey(line', m, ix) = PairKey(pline, m, ix)
                             /\ PairPlace(line', m, ix) = PairPlace(pline, m, ix)
    <3> TAKE ix \in 0 .. m - 1
    <3>1. ix \in 0 .. 2 * m - 1 /\ m + ix \in 0 .. 2 * m - 1
      BY <2>1
    <3> QED BY <2>2, <3>1 DEF PairKey, PairPlace
  <2>4. PairsOK(line', m)
    BY ZenonT(30), <2>1, <2>3, KeepPairs
  <2>5. OwnersOK(line', m)
    BY ZenonT(30), <1>4, <1>5, <2>1, <2>2, <2>3, MixOwners
  <2>6. PairedOK'
    BY ZenonT(30), <1>1, <2>4, <2>5 DEF PairedOK, SamePairs, Same
  <2>7. DoublingOK'
    BY <1>1, <1>3, <1>9, <2>6 DEF DoublingOK, CopiedOK, RestartOK, PassOK, AdjustedOK, DoubledOK
  <2>8. (QuietOK /\ SpaceOK /\ HopOK /\ InsertOK /\ EraseOK /\ RecoverOK)'
    BY <1>1, <1>11 DEF QuietOK, SpaceOK, HopOK, InsertOK, EraseOK, RecoverOK, Hopping, Inserting, Erasing
  <2> QED BY ZenonT(30), <1>6, <1>8, <2>7, <2>8 DEF Phases
<1> QED BY <1>4, <1>10, <1>11 DEF Count

\* The constructor, up to the choice between the scan and pass 2.
LEMMA ReconstituteStep ==
  ASSUME IInv, Counters', Reconstitute
  PROVE  TypeOK' /\ Whole' /\ Phases'
<1>1. /\ pc = "recover" /\ pc' = IF is_stable(count) THEN "scan" ELSE "pass2"
      /\ UNCHANGED <<line, pline, size, psize, count, pcount, sc, psc, op, n>>
      /\ heap' = {line[b].key : b \in {c \in Index : ~is_free(line, c)}}
  BY DEF Reconstitute, n
<1>2. TypeOK /\ line \in Tables
  BY Typing DEF IInv
<1>3. heap' \subseteq Key \cup {NoKey, Torn}
  BY <1>1, <1>2 DEF Tables, Bucket
<1>4. TypeOK'
  BY ZenonT(30), <1>1, <1>2, <1>3 DEF TypeOK, Pc
<1>5. Whole'
  BY <1>1 DEF IInv, Whole, WholeOK
<1>6. CASE count.unst = 0
  <2>1. RecoverOK'
    BY ZenonT(30), <1>1, <1>6 DEF IInv, RecoverOK, Same, is_stable
  <2> QED BY ZenonT(30), <1>1, <1>4, <1>5, <1>6, <2>1, OnlyRecover DEF is_stable
<1>7. CASE count.unst = 1
  <2>1. /\ PairsOK(line, n) /\ OwnersOK(line, n) /\ SamePairs(n) /\ OwnersOK(pline, n)
        /\ Same(0 .. 2 * n - 1) /\ op.ix = 0
    BY <1>1, <1>7 DEF IInv, DoublingOK, PairedOK, RestartOK
  <2>2. n \in Nat
    BY <1>7, DoubleTyping
  <2>3. PassedOK(line, n, 0)
    BY <2>2 DEF PassedOK
  <2>4. DoublingOK'
    <3>1. pc' = "pass2"
      BY <1>1, <1>7 DEF is_stable
    <3>2. CopiedOK' /\ RestartOK' /\ DoubledOK'
      BY <3>1 DEF CopiedOK, RestartOK, DoubledOK
    <3>3. AdjustedOK'
      BY <3>1 DEF AdjustedOK
    <3>4. PassOK'
      BY <1>1, <2>1, <2>2, <2>3 DEF PassOK
    <3>5. PairedOK'
      BY <1>1, <2>1 DEF PairedOK, SamePairs, Same
    <3> QED BY <3>2, <3>3, <3>4, <3>5 DEF DoublingOK
  <2> QED BY <1>1, <1>4, <1>5, <1>7, <2>4, OnlyDoubling DEF is_stable, Doubling
<1> QED BY <1>2, <1>6, <1>7 DEF TypeOK, Count

\* The constructor makes the content states follow from the owners.
LEMMA ScanStatesStep ==
  ASSUME IInv, Counters', ScanStates
  PROVE  TypeOK' /\ Whole' /\ Phases'
<1>1. pc = "scan" /\ pc' = "scan_states" /\ n' = n /\ pline' = pline
  BY ZenonT(60) DEF ScanStates, n
<1>2. TypeOK /\ count.unst = 0
  BY <1>1 DEF IInv, CountOK, Doubling
<1>3. line \in Tables /\ TableSize(n) /\ n \in Nat /\ 0 .. n - 1 \subseteq Index
  BY <1>2, Typing, TableType
<1>4. HomeOK(line, n) /\ UniqueOK(line, n) /\ Same({})
  BY <1>1, <1>2 DEF IInv, RecoverOK
<1>5. \A b \in Index : line'[b] =
        IF n <= b THEN line[b]
        ELSE IF owned_by_owner_mask(line, b, n)
             THEN [line[b] EXCEPT !.state = "IN_USE"]
             ELSE [line[b] EXCEPT !.state = "FREE", !.key = NoKey]
  BY ZenonT(60) DEF ScanStates
<1>6. line' \in Tables
  <2>1. \A b \in Index : [line[b] EXCEPT !.state = "IN_USE"] \in Bucket
                       /\ [line[b] EXCEPT !.state = "FREE", !.key = NoKey] \in Bucket
    BY ZenonT(60), <1>3 DEF Tables, Bucket, ContentState
  <2> QED BY ZenonT(60), <1>3, <2>1 DEF ScanStates, Tables
<1>7. \A b \in Index :
        /\ line'[b].owner = line[b].owner
        /\ n <= b => line'[b] = line[b]
        /\ b < n /\ owned_by_owner_mask(line, b, n) => line'[b].state = "IN_USE" /\ line'[b].key = line[b].key
        /\ b < n /\ ~owned_by_owner_mask(line, b, n) => line'[b].state = "FREE"
  <2> TAKE b \in Index
  <2>1. line[b] \in Bucket /\ b \in Int /\ n \in Int
    BY <1>3, MaxBucketsType DEF Tables, Index
  <2>2. CASE n <= b
    <3>1. line'[b] = line[b]
      BY ZenonT(60), <1>5, <2>2
    <3>2. ~(b < n)
      BY <2>1, <2>2
    <3> QED BY <3>1, <3>2
  <2>3. CASE ~(n <= b) /\ owned_by_owner_mask(line, b, n)
    <3>1. line'[b] = [line[b] EXCEPT !.state = "IN_USE"]
      BY ZenonT(60), <1>5, <2>3
    <3> QED BY <2>1, <2>3, <3>1 DEF Bucket
  <2>4. CASE ~(n <= b) /\ ~owned_by_owner_mask(line, b, n)
    <3>1. line'[b] = [line[b] EXCEPT !.state = "FREE", !.key = NoKey]
      BY ZenonT(60), <1>5, <2>4
    <3> QED BY <2>1, <2>4, <3>1 DEF Bucket
  <2> QED BY ZenonT(30), <2>2, <2>3, <2>4
<1>8. \A b \in 0 .. n - 1 : b \in Index /\ b < n
  BY <1>3
<1>9. \A o \in 0 .. n - 1 : line'[o].owner = line[o].owner
  BY <1>7, <1>8
<1>10. \A b \in 0 .. n - 1 : owned_by_owner_mask(line, b, n) => line'[b].key = line[b].key
  BY <1>7, <1>8
<1>11. HomeOK(line', n) /\ UniqueOK(line', n)
  BY ZenonT(30), <1>3, <1>4, <1>6, <1>9, <1>10, KeepTable
<1>12. \A b \in 0 .. n - 1 : owned_by_owner_mask(line', b, n) <=> owned_by_owner_mask(line, b, n)
  BY ZenonT(30), <1>3, <1>6, <1>9, KeepOwned
<1>13. StatesOK(line', n, {})
  BY <1>7, <1>8, <1>12 DEF StatesOK
<1>14. TypeOK'
  BY ZenonT(60), <1>1, <1>2, <1>6 DEF TypeOK, Tables, Pc, ScanStates
<1>15. WholeOK(line')
  <2> SUFFICES ASSUME NEW b \in Index, line'[b].state = "IN_USE" PROVE line'[b].key \in Key
    BY DEF WholeOK
  <2>1. CASE n <= b
    BY ZenonT(30), <1>7, <2>1 DEF IInv, WholeOK
  <2>2. CASE b < n
    <3>1. b \in 0 .. n - 1 /\ owned_by_owner_mask(line, b, n) /\ line'[b].key = line[b].key
      BY <1>3, <1>7, <2>2, MaxBucketsType DEF Index
    <3> QED BY <1>3, <1>4, <3>1, OwnedPosition DEF HomeOK
  <2> QED BY <1>3, <2>1, <2>2, MaxBucketsType DEF Index
<1>16. Whole'
  BY ZenonT(30), <1>1, <1>15 DEF Whole, WholeOK, IInv
<1>17. RecoverOK'
  <2>1. \A b \in Index : SameOwner(b)'
    BY ZenonT(30), <1>1, <1>4, <1>7 DEF Same, SameOwner
  <2>2. Same(0 .. n - 1)'
    <3> SUFFICES ASSUME NEW b \in Index \ (0 .. n - 1) PROVE pline'[b] = line'[b]
      BY <1>1 DEF Same
    <3>1. n <= b
      BY <1>3, MaxBucketsType DEF Index
    <3> QED BY ZenonT(30), <1>1, <1>4, <1>7, <3>1 DEF Same
  <2>3. \A b \in Index : pline'[b].key = line'[b].key \/ ~owned_by_owner_mask(line', b, n)
    <3> SUFFICES ASSUME NEW b \in Index PROVE pline'[b].key = line'[b].key \/ ~owned_by_owner_mask(line', b, n)
      OBVIOUS
    <3>1. pline'[b] = line[b]
      BY <1>1, <1>4 DEF Same
    <3>2. n <= b \/ b \in 0 .. n - 1
      BY <1>3, MaxBucketsType DEF Index
    <3> QED BY <1>7, <1>10, <1>12, <3>1, <3>2
  <2> QED BY ZenonT(30), <1>1, <1>11, <1>13, <2>1, <2>2, <2>3 DEF RecoverOK, Table
<1> QED BY <1>1, <1>14, <1>16, <1>17, OnlyRecover

\* The constructor has flushed the states and counted the elements.
LEMMA ScanSizeStep ==
  ASSUME IInv, Counters', ScanSize
  PROVE  TypeOK' /\ Whole' /\ Phases'
<1>1. pc = "scan_states" /\ pc' = "scan_size" /\ n' = n /\ line' = line /\ pline' = persist(pline, 0 .. n - 1)
  BY DEF ScanSize, n
<1>2. TypeOK /\ line \in Tables /\ pline \in Tables /\ n \in Nat
  BY Typing DEF IInv
<1>3. Table({}) /\ Same(0 .. n - 1)
  BY <1>1 DEF IInv, RecoverOK
<1>4. pline' \in Tables /\ \A b \in Index : pline'[b] = line[b]
  <2>1. pline' \in Tables
    BY <1>1, <1>2 DEF Tables, persist
  <2>2. \A b \in Index : pline'[b] = line[b]
    BY <1>1, <1>3 DEF persist, Same
  <2> QED BY <2>1, <2>2
<1>5. size' \in Size
  <2>1. IsFiniteSet(0 .. n - 1)
    BY <1>2, FS_Interval
  <2>2. IsFiniteSet({b \in 0 .. n - 1 : owned_by_owner_mask(line, b, n)})
    BY ZenonT(60), <2>1, FS_Subset
  <2>3. Cardinality({b \in 0 .. n - 1 : owned_by_owner_mask(line, b, n)}) \in Int
    BY <2>2, FS_CardinalityType
  <2> QED BY <2>3 DEF ScanSize, Size
<1>6. TypeOK'
  BY ZenonT(30), <1>1, <1>2, <1>4, <1>5 DEF TypeOK, Tables, Pc, ScanSize
<1>7. Whole'
  BY ZenonT(30), <1>1, <1>4 DEF Whole, WholeOK, IInv
<1>8. Table({})' /\ Same({})'
  BY <1>1, <1>3, <1>4 DEF Table, Same
<1> QED BY ZenonT(30), <1>1, <1>6, <1>7, <1>8, OnlyQuiet

-----------------------------------------------------------------------------
\* The theorems.

\* A new pool whose buckets are in memory satisfies the invariant.
LEMMA InitIInv == Init => IInv
<1> HAVE Init
<1>1. /\ line = [b \in Index |-> Blank] /\ pline = line /\ size = [val |-> 0, unst |-> 0] /\ psize = size
      /\ count = [val |-> 1, unst |-> 0] /\ pcount = count /\ sc = {0} /\ psc = sc /\ heap = {}
      /\ pc = "idle" /\ op = NoOp
  BY ZenonT(30) DEF Init
<1>2. Blank \in Bucket /\ Blank.owner = {} /\ Blank.state = "FREE"
  BY DEF Blank, Bucket, ContentState
<1>3. NoOp \in Op
  BY MaxBucketsType DEF NoOp, Op, Index
<1>4. TypeOK
  <2>1. size \in Size /\ count \in Count /\ sc \subseteq Segment
    BY <1>1, SizesAssumption DEF Size, Count, Segment
  <2> QED BY ZenonT(30), <1>1, <1>2, <1>3, <2>1 DEF TypeOK, Pc
<1>5. line \in Tables /\ TableSize(n) /\ 0 .. n - 1 \subseteq Index
  BY ZenonT(30), <1>4, Typing, TableType
<1>6. SizeOK /\ CountOK /\ SegmentsOK /\ KeyedOK
  BY <1>1, SizesAssumption DEF SizeOK, CountOK, SegmentsOK, KeyedOK, Entering, Unstable, Leaving, Doubling,
     Hopping, Inserting, Erasing
<1>7. \A b \in Index : line[b].owner = {} /\ line[b].state = "FREE" /\ pline[b] = line[b]
  BY <1>1, <1>2
<1>8. WholeOK(line) /\ WholeOK(pline)
  BY <1>7 DEF WholeOK
<1>9. HomeOK(line, n) /\ UniqueOK(line, n)
  BY <1>5, <1>7 DEF HomeOK, UniqueOK
<1>10. StatesOK(line, n, {})
  <2>1. \A b \in 0 .. n - 1 : ~owned_by_owner_mask(line, b, n)
    BY <1>5, <1>7 DEF owned_by_owner_mask, OwnedBy
  <2> QED BY <1>5, <1>7, <2>1 DEF StatesOK
<1>11. QuietOK
  BY <1>7, <1>9, <1>10 DEF QuietOK, Table, Same
<1>12. SpaceOK /\ HopOK /\ InsertOK /\ EraseOK /\ RecoverOK
  BY <1>1 DEF SpaceOK, HopOK, InsertOK, EraseOK, RecoverOK, Hopping, Inserting, Erasing
<1>13. DoublingOK
  <2>1. CopiedOK /\ RestartOK /\ PassOK /\ DoubledOK
    BY <1>1 DEF CopiedOK, RestartOK, PassOK, DoubledOK
  <2>2. PairedOK
    BY <1>1 DEF PairedOK
  <2>3. AdjustedOK
    BY <1>1 DEF AdjustedOK
  <2> QED BY <2>1, <2>2, <2>3 DEF DoublingOK
<1> QED BY ZenonT(30), <1>4, <1>6, <1>8, <1>11, <1>12, <1>13 DEF IInv

\* Every step of the table, of the cache and of a crash preserves it.
LEMMA NextIInv == IInv /\ [Next]_vars => IInv'
<1> SUFFICES ASSUME IInv, [Next]_vars PROVE IInv'
  OBVIOUS
<1>1. CASE Next
  <2>1. Counters'
    BY <1>1, CountersStep DEF IInv, Counters
  <2>2. TypeOK' /\ Whole' /\ Phases'
    BY ZenonT(60), <1>1, <2>1, QuietSteps, NearestFreeStep, NoRoomStep, HopShareStep, HopFreeSourceStep,
       HopUseDestinationStep, HopMoveOwnerStep, HopStabilizeStep, HopDoneStep, ConstructStep,
       InsertContentStep, InsertOwnerStep, InsertStabilizeStep, EraseUnstableStep, EraseOwnerStep,
       EraseContentStep, EraseStabilizeStep, ResizePass1Step, ResizeInterlogStep,
       ResizePass2BeginStep, ResizePass2Step, ResizePass2FreeStep, ResizeEpilogStep, ResizeDoneStep,
       ReconstituteStep, ScanStatesStep, ScanSizeStep, WritebackStep, CrashStep DEF Next, Step
  <2> QED BY <2>1, <2>2 DEF IInv, Counters, Whole, Phases
<1>2. CASE UNCHANGED vars
  <2>1. UNCHANGED <<line, pline, size, psize, count, pcount, sc, psc, heap, pc, op, n, home>>
    BY ZenonT(30), <1>2 DEF vars, n, home
  <2>2. (TypeOK /\ SizeOK /\ CountOK /\ SegmentsOK /\ KeyedOK /\ WholeOK(line) /\ WholeOK(pline))'
    BY ZenonT(60), <2>1 DEF IInv, TypeOK, SizeOK, CountOK, SegmentsOK, KeyedOK, WholeOK
  <2>3. (QuietOK /\ SpaceOK)'
    BY ZenonT(60), <2>1 DEF IInv, QuietOK, SpaceOK, Table, Same
  <2>4. HopOK'
    BY ZenonT(30), <2>1 DEF IInv, HopOK, Table, Same, SameOwner, SameContent
  <2>5. InsertOK' /\ EraseOK'
    BY ZenonT(60), <2>1 DEF IInv, InsertOK, EraseOK, Table, Same, SameOwner, SameContent
  <2>6. RecoverOK'
    BY ZenonT(30), <2>1 DEF IInv, RecoverOK, Table, Same, SameOwner
  <2>7. DoublingOK'
    BY ZenonT(60), <2>1 DEF IInv, DoublingOK, CopiedOK, PairedOK, RestartOK, PassOK, AdjustedOK, DoubledOK, Table,
       Same, SamePairs
  <2> QED BY ZenonT(30), <2>2, <2>3, <2>4, <2>5, <2>6, <2>7 DEF IInv
<1> QED BY <1>1, <1>2

\* The invariant holds in every reachable state, for every set of keys, hash
\* function, owner width, base size and segment capacity.
THEOREM Invariance == Spec => []IInv
<1> QED BY InitIInv, NextIInv, PTL DEF Spec

\* Every variable keeps its type; in particular an owner word never gets a
\* position outside its width, whatever mask_all_ones() returns.
THEOREM TypeCorrect == Spec => []TypeOK
<1>1. IInv => TypeOK
  BY ZenonT(30) DEF IInv
<1> QED BY <1>1, Invariance, PTL

\* Whatever the moment of a crash, an element that an owner claims in memory is
\* complete, lies under the home bucket of its key, and is the only one with it.
THEOREM Complete == Spec => []OwnedContentComplete
<1>1. IInv => OwnedContentComplete
  <2> SUFFICES ASSUME IInv, pcount.unst = 0 PROVE OwnedContentComplete
    BY ZenonT(30) DEF OwnedContentComplete, is_stable
  <2> DEFINE m == bucket_count(pcount.val)
  <2>1. HomeOK(pline, m) /\ UniqueOK(pline, m) /\ m = n
    BY ZenonT(30), DurableTable DEF Durable, n
  <2>2. pline \in Tables /\ TableSize(m)
    BY ZenonT(30), <2>1, Typing DEF IInv
  <2> HIDE DEF m
  <2>3. ASSUME NEW o \in 0 .. m - 1, NEW b \in 0 .. m - 1, OwnedBy(pline, o, b, m)
        PROVE  pline[b].key \in Key /\ bucket_ix(pline[b].key, m) = o
    BY <2>1, <2>2, <2>3, OwnedByPosition DEF HomeOK
  <2>4. ASSUME NEW b1 \in 0 .. m - 1, NEW b2 \in 0 .. m - 1, owned_by_owner_mask(pline, b1, m),
               owned_by_owner_mask(pline, b2, m), pline[b1].key = pline[b2].key
        PROVE  b1 = b2
    <3>1. PICK o1 \in 0 .. m - 1 : \E p \in pline[o1].owner : b1 = add_small(o1, p, m)
      BY ZenonT(60), <2>2, <2>4, OwnedPosition
    <3>2. PICK o2 \in 0 .. m - 1 : \E p \in pline[o2].owner : b2 = add_small(o2, p, m)
      BY ZenonT(60), <2>2, <2>4, OwnedPosition
    <3>3. o1 = o2
      BY <2>1, <2>4, <3>1, <3>2 DEF HomeOK
    <3> QED BY ZenonT(30), <2>1, <2>4, <3>1, <3>2, <3>3 DEF UniqueOK
  <2> QED BY ZenonT(30), <2>3, <2>4 DEF OwnedContentComplete, m
<1> QED BY <1>1, Invariance, PTL

\* The assertion of owned_by_owner_mask: no bucket is claimed by two owners, in
\* the table or in the image that a crash would leave.
THEOREM Disjoint == Spec => []OwnersDisjoint
<1>1. ASSUME NEW t \in Tables, NEW m, TableSize(m), HomeOK(t, m)
      PROVE  \A b, o1, o2 \in 0 .. m - 1 : OwnedBy(t, o1, b, m) /\ OwnedBy(t, o2, b, m) => o1 = o2
  BY <1>1, OwnedByPosition, HomeDisjoint
<1>2. IInv => OwnersDisjoint
  <2> SUFFICES ASSUME IInv PROVE OwnersDisjoint
    OBVIOUS
  <2>1. TypeOK /\ line \in Tables /\ pline \in Tables /\ TableSize(n)
    BY Typing DEF IInv
  <2>2. count.unst = 0 => HomeOK(line, n)
    <3>1. pc \in Pc
      BY <2>1 DEF TypeOK
    <3>2. pc \in {"pass2", "pass2_adjusted"} => count.unst = 1
      BY ZenonT(30) DEF IInv, CountOK, Doubling
    <3>3. pc \in Hopping \cup Inserting \cup Erasing => HomeOK(line, n)
      BY DEF IInv, HopOK, InsertOK, EraseOK, Table
    <3>4. pc \in {"idle", "ret", "try", "find", "resize", "scan_size", "space", "rsz_copied", "rsz_marked",
                  "rsz_done", "scan_states"} => HomeOK(line, n)
      BY ZenonT(60) DEF IInv, QuietOK, SpaceOK, DoublingOK, CopiedOK, DoubledOK, RecoverOK, Table
    <3>5. pc \in {"recover", "scan"} /\ count.unst = 0 => HomeOK(line, n)
      BY DEF IInv, RecoverOK
    <3> QED BY <3>1, <3>2, <3>3, <3>4, <3>5 DEF Pc, Hopping, Inserting, Erasing
  <2>3. pcount.unst = 0 => HomeOK(pline, n) /\ bucket_count(pcount.val) = n
    BY ZenonT(60), DurableTable DEF Durable, n
  <2>4. count.unst = 0 =>
          \A b, o1, o2 \in 0 .. n - 1 : OwnedBy(line, o1, b, n) /\ OwnedBy(line, o2, b, n) => o1 = o2
    BY <1>1, <2>1, <2>2
  <2>5. pcount.unst = 0 =>
          \A b, o1, o2 \in 0 .. n - 1 : OwnedBy(pline, o1, b, n) /\ OwnedBy(pline, o2, b, n) => o1 = o2
    BY ZenonT(30), <1>1, <2>1, <2>3
  <2>6. ASSUME NEW img \in {<<line, count>>, <<pline, pcount>>}, is_stable(img[2])
        PROVE  LET m == bucket_count(img[2].val)
               IN \A b \in 0 .. m - 1 :
                    \A o1, o2 \in {o \in 0 .. m - 1 : OwnedBy(img[1], o, b, m)} : o1 = o2
    <3>1. CASE img = <<line, count>>
      BY ZenonT(30), <2>4, <2>6, <3>1 DEF n, is_stable
    <3>2. CASE img = <<pline, pcount>>
      BY <2>3, <2>5, <2>6, <3>2 DEF is_stable
    <3> QED BY ZenonT(30), <3>1, <3>2
  <2> QED BY <2>6 DEF OwnersDisjoint
<1> QED BY <1>2, Invariance, PTL

\* Recovery never follows a pointer of a half-written content or of a segment
\* that was not recorded.
THEOREM RecoverySafe == Spec => []RecoveryReadsWholeData
<1>1. IInv => RecoveryReadsWholeData
  <2> SUFFICES ASSUME IInv, pc = "recover" PROVE RecoveryReadsWholeData
    BY DEF RecoveryReadsWholeData
  <2>1. \A b \in Index : ~is_free(line, b) => line[b].key \in Key
    <3> SUFFICES ASSUME NEW b \in Index, ~is_free(line, b) PROVE line[b].key \in Key
      OBVIOUS
    <3>1. line[b].state \in ContentState
      BY DEF IInv, TypeOK, Bucket
    <3> QED BY <3>1 DEF IInv, WholeOK, is_free, ContentState
  <2>2. 0 .. count.val - (IF is_stable(count) THEN 1 ELSE 0) \subseteq sc
    <3>1. count \in Count
      BY DEF IInv, TypeOK
    <3>2. 0 .. count.val - 1 \subseteq sc /\ (count.unst = 1 => count.val \in sc)
      BY DEF IInv, SegmentsOK
    <3>3. CASE count.unst = 0
      BY <3>2, <3>3 DEF is_stable
    <3>4. CASE count.unst = 1
      <4>1. 0 .. count.val \subseteq (0 .. count.val - 1) \cup {count.val}
        BY <3>1 DEF Count
      <4>2. count.val - 0 = count.val
        BY <3>1 DEF Count
      <4> QED BY ZenonT(30), <3>2, <3>4, <4>1, <4>2 DEF is_stable
    <3> QED BY <3>1, <3>3, <3>4 DEF Count
  <2> QED BY <2>1, <2>2 DEF RecoveryReadsWholeData
<1> QED BY <1>1, Invariance, PTL

\* In a table in service the content states agree with the owners, after every
\* recovery too: nearest_free_bucket offers exactly the buckets nobody owns.
THEOREM StatesAgree == Spec => []StatesInService
<1>1. IInv => StatesInService
  <2>1. IInv /\ pc = "idle" => StatesOK(line, n, {})
    BY DEF IInv, QuietOK, Table
  <2>2. StatesOK(line, n, {}) =>
          \A b \in 0 .. n - 1 : line[b].state = "IN_USE" <=> owned_by_owner_mask(line, b, n)
    BY ZenonT(60) DEF StatesOK
  <2> QED BY <2>1, <2>2 DEF StatesInService
<1> QED BY <1>1, Invariance, PTL

=============================================================================
