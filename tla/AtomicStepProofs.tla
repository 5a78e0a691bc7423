-------------------------- MODULE AtomicStepProofs --------------------------
(***************************************************************************)
(* The inductive invariant of AtomicController, and the steps other than   *)
(* those of redo() that keep it: calls, insert, erase, entering an update  *)
(* into the log, a write-back of the log, crashes and reopening.           *)
(*                                                                         *)
(* The invariant says what the processor's view and memory may differ in   *)
(* (Clean), which allocations are still needed (Kept), how often each one  *)
(* is referred to (RefCounts) and, as long as the redo log has always been *)
(* complete in memory when a crash found it set, what opening the pool     *)
(* would make of memory as it is (Recoverable).                            *)
(***************************************************************************)
EXTENDS AtomicController, TLAPS

\* The WRITEs of a call, none for a replacement, and mod_size for them.
OpLists == Writes \cup {<<>>, <<Part>>}

SizeOf(ops) == IF ops = <<>> THEN -1 ELSE Len(ops)

\* A rep holds its value or points to it.
Proper == {Small(v) : v \in Value} \cup {Large(l, b) : l \in Lengths \ {"small"}, b \in Block}

\* What a slot of the table can hold, before recovery as well.
Slots == Proper \cup {None, Torn}

\* Where enter() has begun and not set the log, and where redo() is at work.
Entering == {"enter", "enter_mapped", "enter_rest", "enter_size"}

Redoing == {"redo", "assign", "replaced"}

\* The form of the state: what each variable is made of.
Shape ==
  /\ tab \in [Key -> Slots] /\ ptab \in [Key -> Slots]
  /\ data \in [Block -> Value \cup {Junk}] /\ pdata \in [Block -> Value \cup {Junk}]
  /\ ref \in [Block -> Nat]
  /\ mod \in [key : Key \cup {NoKey}, mapped : Proper \cup {Torn}]
  /\ pmod \in [key : Key \cup {NoKey}, mapped : Proper \cup {Torn}]
  /\ ctl \in [size : Int, ops : OpLists] /\ ctl.size \in {0, SizeOf(ctl.ops)}
  /\ pctl \in [size : Int, ops : OpLists] /\ pctl.size \in {0, SizeOf(pctl.ops)}
  /\ pc \in {"idle", "finish", "recover", "failed"} \cup Entering \cup Redoing
  /\ op \in [key : Key \cup {NoKey}, ops : OpLists, len : Lengths, val : Value \cup {Junk},
             i : 0 .. 2]
  /\ lost \in BOOLEAN

\* Where in a call or in open_pool what is set.
Control ==
  /\ pc \in Entering \cup {"idle"} => ctl.size = 0 /\ pctl.size = 0
  /\ pc \in Entering => /\ op.key \in Key /\ op.val \in Value /\ op.i = 0
                        /\ op.ops = <<>> => tab[op.key] # None
  /\ pc \in {"enter_mapped", "enter_rest", "enter_size"} => mod.key = op.key
  /\ pc = "enter_rest" => op.len = "small" /\ mod.mapped = Torn
  /\ mod.mapped = Torn => pc \in {"enter_rest", "recover", "failed"}
  /\ pc \in Redoing => ctl.size # 0 /\ (pctl.size # 0 => pctl = ctl)
  /\ pc \in {"assign", "replaced"} =>
       /\ ctl.size < 0 /\ pctl = ctl /\ mod.key \in Key
       /\ tab[mod.key] = IF pc = "assign" THEN Torn ELSE mod.mapped
       /\ pc = "assign" => is_small(mod.mapped)
  /\ pc = "redo" /\ op.i > 0 => Found /\ pctl = ctl /\ op.i <= ctl.size
  /\ pc = "finish" => ctl.size = 0
  /\ pc = "recover" => tab = ptab /\ mod = pmod /\ ctl = pctl /\ op = NoOp
  /\ pc = "failed" => ctl = pctl
  /\ \A k \in Key : tab[k] = Torn => \/ pc \in {"recover", "failed"}
                                     \/ pc = "assign" /\ k = mod.key

\* redo_update has stored a WRITE that it has not flushed.
Busy == pc = "redo" /\ op.i > 0

\* Two values that agree outside the parts ps.
SameBut(v, w, ps) == \A p \in Part \ ps : v[p] = w[p]

\* The views differ only in the value of the key that redo() is at: in the
\* rep that is being replaced, or in what the last WRITE covers.
Clean ==
  /\ \A k \in Key :
       \/ tab[k] = ptab[k]
       \/ k = mod.key /\ pc \in {"assign", "replaced"}
       \/ /\ k = mod.key /\ Busy /\ is_small(tab[k]) /\ is_small(ptab[k])
          /\ SameBut(tab[k].val, ptab[k].val, ctl.ops[op.i])
  /\ \A b \in Block :
       \/ data[b] = pdata[b]
       \/ Busy /\ b = tab[mod.key].blk /\ SameBut(data[b], pdata[b], ctl.ops[op.i])

\* An allocation that either view refers to has contents.
Live(b) ==
  \/ \E k \in Key : Refers(tab[k], b) \/ Refers(ptab[k], b)
  \/ Refers(mod.mapped, b) \/ Refers(pmod.mapped, b)

\* No allocation that a slot or the log refers to, in either view, is junk.
Kept == \A b \in Block : Live(b) => data[b] # Junk /\ pdata[b] # Junk

-----------------------------------------------------------------------------
\* What holds as long as no crash has found the log incomplete.

\* The parts that a list of WRITEs covers, and what the slot of k holds.
Written(ops) == UNION {ops[i] : i \in DOMAIN ops}

Stored(t, d, k) == IF t[k].blk = NoBlock THEN t[k].val ELSE d[t[k].blk]

\* The data of the log, as memory has it if mod has reached it.
Logged == IF is_small(mod.mapped) THEN mod.mapped.val ELSE pdata[mod.mapped.blk]

\* What get() returns for k when WRITEs ops of v, or a replacement by a value
\* of length l, have been applied to memory.
Outcome(k, ops, l, v) ==
  IF ops = <<>> THEN <<l, v>>
  ELSE IF ptab[k] = None THEN <<None.len, Junk>>
  ELSE <<ptab[k].len, Overlay(Stored(ptab, pdata, k), Written(ops), v)>>

\* The log's data is not the value of k.
Unused(k) == \A b \in Block : Refers(mod.mapped, b) => ~Refers(ptab[k], b)

\* redo() of log c makes of memory what the call promised, however far an
\* earlier redo() of it came.
Pending(c) ==
  /\ mod.key \in Key /\ mod.mapped \in Proper
  /\ \A j \in Key \ {mod.key} : Unused(j)
  /\ c.ops # <<>> => Unused(mod.key)
  /\ c.ops = <<>> => ptab[mod.key] # None
  /\ \A j \in Key \ {mod.key} : Contents(ptab, pdata)[j] = hist.after[j]
  /\ hist.after[mod.key] = Outcome(mod.key, c.ops, mod.mapped.len, Logged)

\* What the pool, opened now, would hold: the contents before the call or
\* after it; with the log set, what redo() makes of it is the contents after.
Recoverable ==
  IF pctl.size = 0 THEN Contents(ptab, pdata) \in {hist.before, hist.after}
  ELSE Pending(pctl)

\* enter() has not touched the table yet.
Entered ==
  /\ Contents(ptab, pdata) = hist.before
  /\ \A j \in Key \ {op.key} : hist.after[j] = hist.before[j]
  /\ hist.after[op.key] = Outcome(op.key, op.ops, op.len, op.val)
  /\ pc = "enter_size" => /\ \A k \in Key : Unused(k)
                          /\ mod.mapped.len = op.len /\ Logged = op.val

\* The WRITEs so far have been copied.
Progress ==
  \A n \in 1 .. op.i : \A p \in ctl.ops[n] : Stored(tab, data, mod.key)[p] = Source[p]

\* No two slots in memory refer to one allocation.
Apart ==
  \A j, k \in Key : j # k => \A b \in Block : Refers(ptab[j], b) => ~Refers(ptab[k], b)

\* All that holds as long as every crash has found the log complete.
Sound ==
  /\ pc = "failed" => HalfAssigned
  /\ Apart
  /\ Recoverable
  /\ pc \in Entering => Entered
  /\ pc \in Redoing => Pending(ctl)
  /\ Busy => Progress
  /\ pc = "finish" => Contents(ptab, pdata) = hist.after

\* hist has a value for each key.
History ==
  /\ hist = [before |-> hist.before, after |-> hist.after]
  /\ hist.before = [k \in Key |-> hist.before[k]]
  /\ hist.after = [k \in Key |-> hist.after[k]]

\* The inductive invariant.
IInv == Shape /\ Control /\ Clean /\ RefCounts /\ Kept /\ History /\ (~lost => Sound)

-----------------------------------------------------------------------------
\* What a rep is made of: inline, or a pointer to the allocation.
LEMMA Forms ==
  /\ \A r \in Proper : \/ is_small(r) /\ r.blk = NoBlock /\ r.val \in Value /\ r = Small(r.val)
                       \/ ~is_small(r) /\ r.blk \in Block /\ r.val = Junk /\ r.len \in Lengths
  /\ ~is_small(None) /\ ~is_small(Torn) /\ None # Torn /\ None \notin Proper /\ Torn \notin Proper
  /\ None.blk = NoBlock /\ Torn.blk = NoBlock /\ None.val = Junk /\ None.len = "none"
  /\ NoBlock \notin Block /\ Junk \notin Value
<1>1. \A v : Small(v).len = "small" /\ Small(v).blk = NoBlock /\ Small(v).val = v
  BY DEF Small
<1>2. \A l, b : Large(l, b).len = l /\ Large(l, b).blk = b /\ Large(l, b).val = Junk
  BY DEF Large
<1>3. None.len = "none" /\ None.blk = NoBlock /\ None.val = Junk
  BY DEF None
<1>4. Torn.len = "torn" /\ Torn.blk = NoBlock /\ Torn.val = Junk
  BY DEF Torn
<1>5. NoBlock \notin Block
  BY NoBlockAssumption
<1>6. Junk \notin Value
  BY DEF Junk, Value, Part
<1>7. ASSUME NEW r \in Proper
      PROVE  \/ is_small(r) /\ r.blk = NoBlock /\ r.val \in Value /\ r = Small(r.val)
             \/ ~is_small(r) /\ r.blk \in Block /\ r.val = Junk /\ r.len \in Lengths
  <2>1. CASE \E v \in Value : r = Small(v)
    BY <1>1, <2>1 DEF is_small
  <2>2. CASE \E l \in Lengths \ {"small"}, b \in Block : r = Large(l, b)
    BY <1>2, <2>2 DEF is_small
  <2> QED BY <2>1, <2>2 DEF Proper
<1>8. None \notin Proper /\ Torn \notin Proper
  BY <1>3, <1>4, <1>5, <1>7 DEF is_small
<1> QED BY <1>3, <1>4, <1>5, <1>6, <1>7, <1>8 DEF is_small

\* The reps that a call constructs.
LEMMA Built ==
  /\ \A v \in Value : Small(v) \in Proper /\ is_small(Small(v)) /\ Small(v).val = v
  /\ \A l \in Lengths \ {"small"}, b \in Block :
       Large(l, b) \in Proper /\ Large(l, b).blk = b /\ Large(l, b).len = l
       /\ ~is_small(Large(l, b))
<1>1. \A v \in Value : Small(v) \in Proper
  BY DEF Proper
<1>2. \A l \in Lengths \ {"small"}, b \in Block : Large(l, b) \in Proper
  BY DEF Proper
<1>3. \A v : Small(v).len = "small" /\ Small(v).val = v
  BY DEF Small
<1>4. \A l, b : Large(l, b).len = l /\ Large(l, b).blk = b
  BY DEF Large
<1> QED BY <1>1, <1>2, <1>3, <1>4 DEF is_small

\* The lists of WRITEs are short and stay within the value.
LEMMA Lists ==
  /\ \A ops \in OpLists : /\ Len(ops) \in 0 .. 2 /\ DOMAIN ops = 1 .. Len(ops)
                          /\ ops = <<>> <=> Len(ops) = 0
                          /\ \A i \in 1 .. Len(ops) : ops[i] \subseteq Part
  /\ <<>> \in OpLists /\ <<Part>> \in OpLists /\ Writes \subseteq OpLists
<1>1. ASSUME NEW ops \in OpLists
      PROVE  /\ Len(ops) \in 0 .. 2 /\ DOMAIN ops = 1 .. Len(ops)
             /\ ops = <<>> <=> Len(ops) = 0
             /\ \A i \in 1 .. Len(ops) : ops[i] \subseteq Part
  <2>1. CASE ops = <<>>
    BY <2>1
  <2>2. CASE ops = <<Part>>
    BY <2>2
  <2>3. CASE ops = <<{1}>>
    BY <2>3 DEF Part
  <2>4. CASE ops = <<{2}, {1}>>
    BY <2>4 DEF Part
  <2> QED BY <2>1, <2>2, <2>3, <2>4 DEF OpLists, Writes
<1> QED BY <1>1 DEF OpLists

\* mod_size tells a replacement from an update.
LEMMA Sizes ==
  \A ops \in OpLists : /\ SizeOf(ops) \in {-1, 1, 2} /\ (SizeOf(ops) < 0 <=> ops = <<>>)
                       /\ ops # <<>> => SizeOf(ops) = Len(ops) /\ SizeOf(ops) > 0
<1> SUFFICES ASSUME NEW ops \in OpLists
             PROVE  /\ SizeOf(ops) \in {-1, 1, 2} /\ (SizeOf(ops) < 0 <=> ops = <<>>)
                    /\ ops # <<>> => SizeOf(ops) = Len(ops) /\ SizeOf(ops) > 0
  OBVIOUS
<1>1. Len(ops) \in 0 .. 2 /\ (ops = <<>> <=> Len(ops) = 0)
  BY Lists
<1> HIDE DEF OpLists
<1> QED BY <1>1 DEF SizeOf

-----------------------------------------------------------------------------
\* Counting references.

\* Whether a slot refers to an allocation, and how many slots of t do.
Holds(r, b) == IF Refers(r, b) THEN 1 ELSE 0

RefsIn(t, b) == Cardinality({k \in Key : Refers(t[k], b)})

\* The references from a table are finitely many; there are none exactly if
\* no slot refers.
LEMMA RefsFinite ==
  ASSUME NEW t, NEW b
  PROVE  /\ RefsIn(t, b) \in Nat
         /\ RefsIn(t, b) = 0 <=> \A k \in Key : ~Refers(t[k], b)
<1> DEFINE S == {k \in Key : Refers(t[k], b)}
<1>1. S \in SUBSET Key
  OBVIOUS
<1>2. Cardinality(S) \in Nat /\ (Cardinality(S) = 0 <=> S = {})
  BY <1>1, KeyAssumption DEF Countable
<1> QED BY <1>2 DEF RefsIn

\* A store to one slot takes away what it referred to and adds what it refers
\* to now.
LEMMA RefsStore ==
  ASSUME NEW t, NEW u, NEW k \in Key, NEW b, \A j \in Key \ {k} : u[j] = t[j]
  PROVE  RefsIn(u, b) = RefsIn(t, b) - Holds(t[k], b) + Holds(u[k], b)
<1> DEFINE R == {j \in Key \ {k} : Refers(t[j], b)}
           S == {j \in Key : Refers(t[j], b)}
           U == {j \in Key : Refers(u[j], b)}
<1>1. R \in SUBSET Key /\ k \in Key \ R /\ Cardinality(R) \in Nat
  BY KeyAssumption DEF Countable
<1>2. Cardinality(R \cup {k}) = Cardinality(R) + 1
  BY <1>1, KeyAssumption DEF Countable
<1>3. S = IF Refers(t[k], b) THEN R \cup {k} ELSE R
  OBVIOUS
<1>4. U = IF Refers(u[k], b) THEN R \cup {k} ELSE R
  OBVIOUS
<1>5. Cardinality(S) = Cardinality(R) + Holds(t[k], b)
  <2> HIDE DEF R, S
  <2> QED BY <1>1, <1>2, <1>3 DEF Holds
<1>6. Cardinality(U) = Cardinality(R) + Holds(u[k], b)
  <2> HIDE DEF R, U
  <2> QED BY <1>1, <1>2, <1>4 DEF Holds
<1>7. RefsIn(t, b) = Cardinality(S) /\ RefsIn(u, b) = Cardinality(U)
  BY DEF RefsIn
<1>8. Holds(t[k], b) \in {0, 1} /\ Holds(u[k], b) \in {0, 1}
  BY DEF Holds
<1> HIDE DEF R, S, U
<1> QED BY <1>1, <1>5, <1>6, <1>7, <1>8

\* A store to one slot of the table.
LEMMA TabStore ==
  ASSUME NEW k \in Key, NEW b, NEW r, tab'[k] = r, \A j \in Key \ {k} : tab'[j] = tab[j]
  PROVE  RefsIn(tab', b) = RefsIn(tab, b) - Holds(tab[k], b) + Holds(r, b)
<1>1. PICK t, u : t = tab /\ u = tab'
  OBVIOUS
<1>2. \A j \in Key \ {k} : u[j] = t[j]
  BY <1>1
<1>3. RefsIn(u, b) = RefsIn(t, b) - Holds(t[k], b) + Holds(u[k], b)
  BY <1>2, RefsStore
<1> QED BY <1>1, <1>3

\* dec_ref, inc_ref.
LEMMA Recounted ==
  ASSUME NEW cnt \in [Block -> Int], NEW r \in Slots
  PROVE  /\ Release(cnt, r) = [b \in Block |-> cnt[b] - Holds(r, b)]
         /\ Retain(cnt, r) = [b \in Block |-> cnt[b] + Holds(r, b)]
<1>1. CASE r.blk \in Block /\ ~is_small(r)
  <2>1. r.blk # NoBlock
    BY <1>1, NoBlockAssumption
  <2>2. /\ Release(cnt, r) = [cnt EXCEPT ![r.blk] = cnt[r.blk] - 1]
        /\ Retain(cnt, r) = [cnt EXCEPT ![r.blk] = cnt[r.blk] + 1]
    BY <1>1, <2>1 DEF Release, Retain
  <2>3. \A b \in Block : Holds(r, b) = IF b = r.blk THEN 1 ELSE 0
    BY DEF Holds, Refers
  <2>4. PICK c \in Block : c = r.blk
    BY <1>1
  <2>5. [cnt EXCEPT ![c] = cnt[c] - 1] = [b \in Block |-> cnt[b] - Holds(r, b)]
    <3> DEFINE f == [cnt EXCEPT ![c] = cnt[c] - 1]
    <3>1. \A b \in Block : f[b] = cnt[b] - (IF b = c THEN 1 ELSE 0)
      OBVIOUS
    <3>2. f = [b \in Block |-> f[b]]
      BY ZenonT(30)
    <3> HIDE DEF f
    <3>3. \A b \in Block : f[b] = cnt[b] - Holds(r, b)
      BY <2>3, <2>4, <3>1
    <3>4. f = [b \in Block |-> cnt[b] - Holds(r, b)]
      BY <3>2, <3>3, Zenon
    <3> QED BY <3>4 DEF f
  <2>6. [cnt EXCEPT ![c] = cnt[c] + 1] = [b \in Block |-> cnt[b] + Holds(r, b)]
    <3> DEFINE f == [cnt EXCEPT ![c] = cnt[c] + 1]
    <3>1. \A b \in Block : f[b] = cnt[b] + (IF b = c THEN 1 ELSE 0)
      OBVIOUS
    <3>2. f = [b \in Block |-> f[b]]
      BY ZenonT(30)
    <3> HIDE DEF f
    <3>3. \A b \in Block : f[b] = cnt[b] + Holds(r, b)
      BY <2>3, <2>4, <3>1
    <3>4. f = [b \in Block |-> cnt[b] + Holds(r, b)]
      BY <3>2, <3>3, Zenon
    <3> QED BY <3>4 DEF f
  <2> QED BY <2>2, <2>4, <2>5, <2>6
<1>2. CASE r.blk = NoBlock
  <2>1. Release(cnt, r) = cnt /\ Retain(cnt, r) = cnt
    BY <1>2 DEF Release, Retain
  <2>2. \A b \in Block : Holds(r, b) = 0
    BY <1>2, NoBlockAssumption DEF Holds, Refers
  <2> QED BY <2>1, <2>2
<1> QED BY <1>1, <1>2, Forms DEF Slots

\* References(b), from the table and from the log.
LEMMA Sum == \A b : References(b) = RefsIn(tab, b) + Holds(mod.mapped, b)
BY DEF References, RefsIn, Holds

\* An allocation whose count is 0 is referred to by neither.
LEMMA NoRefs ==
  ASSUME Shape, NEW b \in Block
  PROVE  /\ References(b) \in Nat
         /\ References(b) = 0 <=> ~Refers(mod.mapped, b) /\ \A k \in Key : ~Refers(tab[k], b)
<1>1. /\ RefsIn(tab, b) \in Nat
      /\ RefsIn(tab, b) = 0 <=> \A k \in Key : ~Refers(tab[k], b)
  BY RefsFinite
<1>2. Holds(mod.mapped, b) \in {0, 1} /\ (Holds(mod.mapped, b) = 0 <=> ~Refers(mod.mapped, b))
  BY DEF Holds
<1>3. References(b) = RefsIn(tab, b) + Holds(mod.mapped, b)
  BY Sum
<1> HIDE DEF Shape
<1> QED BY <1>1, <1>2, <1>3

-----------------------------------------------------------------------------
\* Forgetting and comparing contents.

\* What is counted or memory refers to is not forgotten.
LEMMA Forgotten ==
  ASSUME NEW d \in [Block -> Value \cup {Junk}], NEW cnt, NEW t, NEW m
  PROVE  /\ Forget(d, cnt, t, m) \in [Block -> Value \cup {Junk}]
         /\ \A b \in Block : \/ Forget(d, cnt, t, m)[b] = d[b]
                             \/ /\ cnt[b] = 0 /\ ~Refers(m.mapped, b)
                                /\ \A k \in Key : ~Refers(t[k], b)
                                /\ Forget(d, cnt, t, m)[b] = Junk
BY DEF Forget

\* What get() returns for a key, and when two states return the same.
LEMMA ContentsAt ==
  ASSUME NEW t, NEW d
  PROVE  /\ \A k \in Key : Contents(t, d)[k] = <<t[k].len, Stored(t, d, k)>>
         /\ Contents(t, d) = [k \in Key |-> Contents(t, d)[k]]
BY DEF Contents, Stored

\* A call that begins takes the contents as they are, before and after.
LEMMA Snapshot ==
  ASSUME hist' = [before |-> Contents(tab', data'), after |-> Contents(tab', data')]
  PROVE  History'
<1>1. hist'.before = Contents(tab', data') /\ hist'.after = Contents(tab', data')
  OBVIOUS
<1>2. Contents(tab', data') = [k \in Key |-> Contents(tab', data')[k]]
  BY DEF Contents
<1> QED BY <1>1, <1>2 DEF History

\* A slot's pointer, if it has one, is to an allocation.
LEMMA Pointers ==
  ASSUME Shape
  PROVE  /\ \A k \in Key : tab[k].blk \in Block \cup {NoBlock} /\ ptab[k].blk \in Block \cup {NoBlock}
         /\ mod.mapped.blk \in Block \cup {NoBlock}
         /\ pmod.mapped.blk \in Block \cup {NoBlock}
<1>1. \A r \in Slots : r.blk \in Block \cup {NoBlock}
  BY Forms DEF Slots
<1> QED BY <1>1 DEF Shape, Slots

\* Where redo() is not at work the views are the same.
LEMMA Still ==
  ASSUME Shape, Clean, pc \notin {"assign", "replaced"}, ~Busy
  PROVE  tab = ptab /\ data = pdata
<1>1. \A k \in Key : tab[k] = ptab[k]
  BY DEF Clean
<1>2. \A b \in Block : data[b] = pdata[b]
  BY DEF Clean
<1>3. tab \in [Key -> Slots] /\ ptab \in [Key -> Slots]
  BY DEF Shape
<1>4. data \in [Block -> Value \cup {Junk}] /\ pdata \in [Block -> Value \cup {Junk}]
  BY DEF Shape
<1>5. tab = ptab
  BY <1>1, <1>3
<1>6. data = pdata
  BY <1>2, <1>4
<1> QED BY <1>5, <1>6

\* Both views the same, and nothing stored that is not flushed.
LEMMA Calm == tab = ptab /\ data = pdata => Clean
BY DEF Clean

\* Callers pass values.
LEMMA Arguments == Argument \subseteq Value
BY DEF Argument, Value

\* The contents of an allocation that is made are in memory; what is counted,
\* or what memory refers to, stays as it is.
LEMMA Reserved ==
  ASSUME Shape, NEW r \in Proper, NEW v \in Value, NEW cnt \in [Block -> Nat], Reserve(r, v, cnt)
  PROVE  /\ ref' \in [Block -> Nat]
         /\ \A b \in Block : ref'[b] = IF Refers(r, b) THEN 1 ELSE cnt[b]
         /\ data' \in [Block -> Value \cup {Junk}] /\ pdata' \in [Block -> Value \cup {Junk}]
         /\ \A b \in Block : Refers(r, b) => data'[b] = v /\ pdata'[b] = v
         /\ \A b \in Block : ~Refers(r, b) =>
              \/ data'[b] = data[b] /\ pdata'[b] = pdata[b]
              \/ /\ cnt[b] = 0 /\ ~Refers(pmod.mapped, b) /\ \A k \in Key : ~Refers(ptab[k], b)
                 /\ data'[b] = Junk /\ pdata'[b] = Junk
<1> DEFINE W(d) == IF is_small(r) THEN d ELSE [d EXCEPT ![r.blk] = v]
<1>1. /\ ref' = IF is_small(r) THEN cnt ELSE [cnt EXCEPT ![r.blk] = 1]
      /\ data' = Forget(W(data), ref', ptab, pmod) /\ pdata' = Forget(W(pdata), ref', ptab, pmod)
  BY DEF Reserve
<1>2. IF is_small(r) THEN r.blk \notin Block ELSE r.blk \in Block
  BY Forms
<1>3. ref' \in [Block -> Nat] /\ \A b \in Block : ref'[b] = IF Refers(r, b) THEN 1 ELSE cnt[b]
  BY <1>1, <1>2 DEF Refers
<1>4. ASSUME NEW d \in [Block -> Value \cup {Junk}]
      PROVE  /\ W(d) \in [Block -> Value \cup {Junk}]
             /\ \A b \in Block : W(d)[b] = IF Refers(r, b) THEN v ELSE d[b]
  BY <1>2 DEF Refers
<1> HIDE DEF W
<1>5. ASSUME NEW d \in [Block -> Value \cup {Junk}], NEW e, e = Forget(W(d), ref', ptab, pmod)
      PROVE  /\ e \in [Block -> Value \cup {Junk}]
             /\ \A b \in Block : Refers(r, b) => e[b] = v
             /\ \A b \in Block : ~Refers(r, b) =>
                  \/ e[b] = d[b]
                  \/ /\ cnt[b] = 0 /\ ~Refers(pmod.mapped, b) /\ \A k \in Key : ~Refers(ptab[k], b)
                     /\ e[b] = Junk
  BY <1>3, <1>4, <1>5, Forgotten
<1>6. data \in [Block -> Value \cup {Junk}] /\ pdata \in [Block -> Value \cup {Junk}]
  BY DEF Shape
<1>7. \A b \in Block : IF ref'[b] = 0 /\ ~Refers(pmod.mapped, b) /\ ~\E k \in Key : Refers(ptab[k], b)
                       THEN data'[b] = Junk /\ pdata'[b] = Junk
                       ELSE data'[b] = W(data)[b] /\ pdata'[b] = W(pdata)[b]
  BY <1>1 DEF Forget
<1>8. \A b \in Block : ~Refers(r, b) =>
              \/ data'[b] = data[b] /\ pdata'[b] = pdata[b]
              \/ /\ cnt[b] = 0 /\ ~Refers(pmod.mapped, b) /\ \A k \in Key : ~Refers(ptab[k], b)
                 /\ data'[b] = Junk /\ pdata'[b] = Junk
  BY <1>3, <1>4, <1>6, <1>7
<1>9. data' \in [Block -> Value \cup {Junk}] /\ \A b \in Block : Refers(r, b) => data'[b] = v
  BY ZenonT(30), <1>1, <1>5, <1>6
<1>10. pdata' \in [Block -> Value \cup {Junk}] /\ \A b \in Block : Refers(r, b) => pdata'[b] = v
  BY ZenonT(30), <1>1, <1>5, <1>6
<1> QED BY <1>3, <1>8, <1>9, <1>10

\* The reps that a call may construct are of allocations that are free.
LEMMA Chosen ==
  ASSUME NEW l \in Lengths, NEW v \in Value, NEW r \in Reps(l, v)
  PROVE  /\ r \in Proper /\ r.len = l
         /\ is_small(r) => r.val = v
         /\ \A b \in Block : Refers(r, b) => ref[b] = 0
<1>1. CASE l = "small"
  <2>1. r = Small(v)
    BY <1>1 DEF Reps
  <2>2. \A b \in Block : ~Refers(r, b)
    BY <2>1, Built, Forms DEF Refers
  <2> QED BY <1>1, <2>1, <2>2, Built DEF is_small
<1>2. CASE l # "small"
  <2>1. PICK c \in Block : ref[c] = 0 /\ r = Large(l, c)
    BY <1>2 DEF Reps
  <2> QED BY <1>2, <2>1, Built DEF Refers
<1> QED BY <1>1, <1>2

-----------------------------------------------------------------------------
\* session::insert keeps the invariant: the slot is empty in both views and
\* the allocation is not in use in either.
LEMMA InsertInv ==
  ASSUME IInv, NEW k \in Key, NEW l \in Lengths, NEW v \in Argument, Insert(k, l, v)
  PROVE  IInv'
<1>1. /\ pc = "idle" /\ tab[k] = None
      /\ UNCHANGED <<mod, pmod, ctl, pctl, pc, op, lost>>
      /\ hist' = [before |-> Contents(tab', data'), after |-> Contents(tab', data')]
  BY DEF Insert
<1>2. PICK r \in Reps(l, v) : /\ Reserve(r, v, ref) /\ tab' = [tab EXCEPT ![k] = r]
                              /\ ptab' = [ptab EXCEPT ![k] = r]
  BY ZenonT(30) DEF Insert
<1>3. v \in Value /\ Shape /\ Clean /\ RefCounts /\ Kept
  BY Arguments DEF IInv
<1>4. r \in Proper /\ \A b \in Block : Refers(r, b) => ref[b] = 0
  BY <1>3, Chosen
<1>5. tab = ptab /\ data = pdata
  BY <1>1, <1>3, Still DEF Busy
<1>6. ref \in [Block -> Nat]
  BY <1>3 DEF Shape
<1>7. /\ ref' \in [Block -> Nat]
      /\ \A b \in Block : ref'[b] = IF Refers(r, b) THEN 1 ELSE ref[b]
      /\ data' \in [Block -> Value \cup {Junk}] /\ pdata' \in [Block -> Value \cup {Junk}]
      /\ \A b \in Block : Refers(r, b) => data'[b] = v /\ pdata'[b] = v
      /\ \A b \in Block : ~Refers(r, b) =>
           \/ data'[b] = data[b] /\ pdata'[b] = pdata[b]
           \/ /\ ref[b] = 0 /\ ~Refers(pmod.mapped, b) /\ \A j \in Key : ~Refers(ptab[j], b)
              /\ data'[b] = Junk /\ pdata'[b] = Junk
  BY <1>2, <1>3, <1>4, <1>6, Reserved
<1>8. tab' = ptab' /\ data' = pdata'
  <2>1. \A b \in Block : data'[b] = pdata'[b]
    BY <1>5, <1>7
  <2> QED BY <1>2, <1>5, <1>7, <2>1
<1>9. \A b \in Block : ref[b] = References(b)
  BY <1>1, <1>3 DEF RefCounts
<1>10. tab \in [Key -> Slots] /\ tab'[k] = r /\ \A j \in Key \ {k} : tab'[j] = tab[j]
  BY <1>2, <1>3 DEF Shape
<1>11. Shape'
  BY <1>1, <1>2, <1>3, <1>4, <1>7 DEF Shape, Slots
<1>12. Control'
  <2>1. tab'[k] # Torn /\ \A j \in Key : tab[j] # Torn
    BY ZenonT(30), <1>1, <1>4, <1>10, Forms DEF IInv, Control
  <2> QED BY ZenonT(30), <1>1, <1>10, <2>1 DEF IInv, Control, Entering, Redoing
<1>13. Clean'
  BY <1>8 DEF Clean
<1>14. RefCounts'
  <2> SUFFICES ASSUME NEW b \in Block PROVE ref'[b] = References(b)'
    BY DEF RefCounts
  <2>1. References(b)' = RefsIn(tab', b) + Holds(mod.mapped, b)
    BY <1>1 DEF References, RefsIn, Holds
  <2>2. RefsIn(tab', b) = RefsIn(tab, b) - Holds(tab[k], b) + Holds(r, b)
    BY <1>10, TabStore
  <2>3. Holds(tab[k], b) = 0
    BY <1>1, Forms DEF Holds, Refers
  <2>4. RefsIn(tab, b) \in Nat /\ Holds(mod.mapped, b) \in {0, 1}
    BY RefsFinite DEF Holds
  <2>5. ref[b] = RefsIn(tab, b) + Holds(mod.mapped, b)
    BY <1>9, Sum
  <2>6. CASE Refers(r, b)
    <3>1. ref'[b] = 1 /\ ref[b] = 0 /\ Holds(r, b) = 1
      BY <1>4, <1>7, <2>6 DEF Holds
    <3> QED BY <2>1, <2>2, <2>3, <2>4, <2>5, <3>1
  <2>7. CASE ~Refers(r, b)
    <3>1. ref'[b] = ref[b] /\ Holds(r, b) = 0
      BY <1>7, <2>7 DEF Holds
    <3> QED BY <2>1, <2>2, <2>3, <2>4, <2>5, <3>1
  <2> QED BY <2>6, <2>7
<1>15. Kept'
  <2> SUFFICES ASSUME NEW b \in Block, Live(b)' PROVE data'[b] # Junk /\ pdata'[b] # Junk
    BY ZenonT(30) DEF Kept
  <2>1. CASE Refers(r, b)
    BY <1>3, <1>7, <2>1, Forms
  <2>2. CASE ~Refers(r, b)
    <3>1. Live(b)
      BY ZenonT(30), <1>1, <1>2, <1>5, <1>8, <1>10, <2>2 DEF Live
    <3>2. data[b] # Junk /\ pdata[b] # Junk
      BY <1>3, <3>1 DEF Kept
    <3>3. ref[b] # 0 \/ Refers(pmod.mapped, b) \/ \E j \in Key : Refers(ptab[j], b)
      BY <1>3, <1>5, <1>9, <3>1, NoRefs DEF Live
    <3> QED BY ZenonT(30), <1>7, <2>2, <3>2, <3>3
  <2> QED BY <2>1, <2>2
<1>16. History'
  BY <1>1, Snapshot
<1>17. ASSUME ~lost' PROVE Sound'
  <2>1. Sound
    BY <1>1, <1>17 DEF IInv
  <2>2. Apart'
    <3> SUFFICES ASSUME NEW i \in Key, NEW j \in Key, i # j, NEW b \in Block, Refers(tab'[i], b)
                 PROVE  ~Refers(tab'[j], b)
      BY <1>8 DEF Apart
    <3>1. \A h \in Key : Refers(tab[h], b) => ref[b] # 0
      BY ZenonT(30), <1>3, <1>9, NoRefs
    <3> QED BY <1>4, <1>5, <1>10, <2>1, <3>1 DEF Sound, Apart
  <2>3. pctl'.size = 0
    BY <1>1 DEF IInv, Control
  <2>4. Recoverable'
    BY <1>1, <1>8, <2>3 DEF Recoverable
  <2> QED BY <1>1, <2>2, <2>4 DEF Sound, Busy, Entering, Redoing
<1> QED BY <1>11, <1>12, <1>13, <1>14, <1>15, <1>16, <1>17 DEF IInv

\* erase keeps the invariant: both views drop the value, and its allocation
\* is free if nothing else refers to it.
LEMMA EraseInv ==
  ASSUME IInv, NEW k \in Key, Erase(k)
  PROVE  IInv'
<1>1. /\ pc = "idle" /\ UNCHANGED <<mod, pmod, ctl, pctl, pc, op, lost>>
      /\ tab' = [tab EXCEPT ![k] = None] /\ ptab' = [ptab EXCEPT ![k] = None]
      /\ ref' = Release(ref, tab[k])
      /\ data' = Forget(data, ref', tab', pmod) /\ pdata' = Forget(pdata, ref', tab', pmod)
      /\ hist' = [before |-> Contents(tab', data'), after |-> Contents(tab', data')]
  BY DEF Erase
<1>2. Shape /\ Clean /\ RefCounts /\ Kept
  BY DEF IInv
<1>3. tab = ptab /\ data = pdata
  BY <1>1, <1>2, Still DEF Busy
<1>4. tab' = ptab' /\ data' = pdata'
  BY <1>1, <1>3
<1>5. \A b \in Block : ref[b] = References(b)
  BY <1>1, <1>2 DEF RefCounts
<1>6. tab \in [Key -> Slots] /\ tab'[k] = None /\ \A j \in Key \ {k} : tab'[j] = tab[j]
  BY <1>1, <1>2 DEF Shape
<1>7. \A b \in Block : ref'[b] = ref[b] - Holds(tab[k], b)
  <2>1. ref \in [Block -> Int] /\ tab[k] \in Slots
    BY <1>2 DEF Shape
  <2> QED BY <1>1, <2>1, Recounted
<1>8. \A b \in Block : ref'[b] = References(b)'
  <2> SUFFICES ASSUME NEW b \in Block PROVE ref'[b] = References(b)'
    OBVIOUS
  <2>1. References(b)' = RefsIn(tab', b) + Holds(mod.mapped, b)
    BY <1>1 DEF References, RefsIn, Holds
  <2>2. RefsIn(tab', b) = RefsIn(tab, b) - Holds(tab[k], b) + Holds(None, b)
    BY <1>6, TabStore
  <2>3. Holds(None, b) = 0
    BY Forms DEF Holds, Refers
  <2>4. RefsIn(tab, b) \in Nat /\ Holds(mod.mapped, b) \in {0, 1} /\ Holds(tab[k], b) \in {0, 1}
    BY RefsFinite DEF Holds
  <2>5. ref[b] = RefsIn(tab, b) + Holds(mod.mapped, b)
    BY <1>5, Sum
  <2> QED BY <1>7, <2>1, <2>2, <2>3, <2>4, <2>5
<1>9. ref' \in [Block -> Nat]
  <2>1. \A b \in Block : References(b)' \in Nat
    <3> TAKE b \in Block
    <3>1. References(b)' = RefsIn(tab', b) + Holds(mod.mapped, b)
      BY <1>1 DEF References, RefsIn, Holds
    <3>2. RefsIn(tab', b) \in Nat /\ Holds(mod.mapped, b) \in {0, 1}
      <4>1. PICK u : u = tab'
        OBVIOUS
      <4>2. RefsIn(u, b) \in Nat
        BY RefsFinite
      <4> QED BY <4>1, <4>2 DEF Holds
    <3> QED BY <3>1, <3>2
  <2>2. ref' = [b \in Block |-> ref'[b]]
    <3>1. ref \in [Block -> Int] /\ tab[k] \in Slots
      BY <1>2 DEF Shape
    <3>2. ref' = [b \in Block |-> ref[b] - Holds(tab[k], b)]
      BY ZenonT(30), <1>1, <3>1, Recounted
    <3> QED BY <3>2
  <2> QED BY <1>8, <2>1, <2>2
<1>10. data' \in [Block -> Value \cup {Junk}]
  <2>1. data \in [Block -> Value \cup {Junk}]
    BY <1>2 DEF Shape
  <2> QED BY <1>1, <2>1 DEF Forget
<1>11. Shape'
  BY ZenonT(30), <1>1, <1>2, <1>4, <1>9, <1>10 DEF Shape, Slots
<1>12. Control'
  <2>1. tab'[k] # Torn /\ \A j \in Key : tab[j] # Torn
    BY ZenonT(30), <1>1, <1>6, Forms DEF IInv, Control
  <2> QED BY ZenonT(30), <1>1, <1>6, <2>1 DEF IInv, Control, Entering, Redoing
<1>13. Clean'
  BY <1>4 DEF Clean
<1>14. RefCounts'
  BY <1>8 DEF RefCounts
<1>15. Kept'
  <2> SUFFICES ASSUME NEW b \in Block, Live(b)' PROVE data'[b] # Junk
    BY ZenonT(30), <1>4 DEF Kept
  <2>1. Live(b)
    BY <1>1, <1>4, <1>6, Forms DEF Live, Refers
  <2>2. data[b] # Junk
    BY ZenonT(30), <1>2, <2>1 DEF Kept
  <2>3. ref'[b] # 0 \/ Refers(pmod.mapped, b) \/ \E j \in Key : Refers(tab'[j], b)
    <3>1. CASE Refers(mod.mapped, b)
      <4>1. References(b)' = RefsIn(tab', b) + Holds(mod.mapped, b)
        BY <1>1 DEF References, RefsIn, Holds
      <4>2. RefsIn(tab', b) \in Nat
        <5>1. PICK u : u = tab'
          OBVIOUS
        <5> QED BY <5>1, RefsFinite
      <4> QED BY <1>8, <3>1, <4>1, <4>2 DEF Holds
    <3> QED BY ZenonT(30), <1>1, <1>4, <3>1 DEF Live
  <2>4. data'[b] = data[b]
    BY <1>1, <2>3 DEF Forget
  <2> QED BY <2>2, <2>4
<1>16. History'
  BY <1>1, Snapshot
<1>17. ASSUME ~lost' PROVE Sound'
  <2>1. Sound
    BY <1>1, <1>17 DEF IInv
  <2>2. Apart'
    <3> SUFFICES ASSUME NEW i \in Key, NEW j \in Key, i # j, NEW b \in Block, Refers(tab'[i], b)
                 PROVE  ~Refers(tab'[j], b)
      BY <1>4 DEF Apart
    <3>1. ~Refers(None, b)
      BY ZenonT(30), Forms DEF Refers
    <3> QED BY <1>3, <1>6, <2>1, <3>1 DEF Sound, Apart
  <2>3. pctl'.size = 0
    BY <1>1 DEF IInv, Control
  <2>4. Recoverable'
    BY ZenonT(30), <1>1, <1>4, <2>3 DEF Recoverable
  <2> QED BY <1>1, <2>2, <2>4 DEF Sound, Busy, Entering, Redoing
<1> QED BY <1>11, <1>12, <1>13, <1>14, <1>15, <1>16, <1>17 DEF IInv

\* A step that moves neither reps nor contents keeps the counts and what is
\* in use.
LEMMA Unmoved ==
  ASSUME RefCounts, Kept, UNCHANGED <<tab, ptab, data, pdata, ref>>,
         mod'.mapped = mod.mapped,
         pmod'.mapped = pmod.mapped \/ pmod'.mapped = mod.mapped,
         pc \notin {"recover", "failed"} \/ pc' \in {"recover", "failed"}
  PROVE  RefCounts' /\ Kept'
<1>1. \A b : References(b)' = References(b)
  BY DEF References
<1>2. RefCounts'
  BY <1>1 DEF RefCounts
<1>3. \A b : Live(b)' => Live(b)
  BY DEF Live
<1>4. Kept'
  BY <1>3 DEF Kept
<1> QED BY <1>2, <1>4

\* All the parts of a value, and what an update of all of them leaves.
LEMMA Whole ==
  /\ Written(<<Part>>) = Part
  /\ \A v \in Value : \A w : Overlay(w, Part, v) = v
<1>1. DOMAIN <<Part>> = {1} /\ <<Part>>[1] = Part
  OBVIOUS
<1>2. Written(<<Part>>) = Part
  BY <1>1 DEF Written
<1>3. ASSUME NEW v \in Value, NEW w PROVE Overlay(w, Part, v) = v
  BY DEF Overlay, Value
<1> QED BY <1>2, <1>3

\* A call begins with memory as it was before and the promise of its outcome.
LEMMA BeginInv ==
  ASSUME IInv, NEW k \in Key, NEW ops \in OpLists, NEW l \in Lengths, NEW v \in Value, NEW after,
         Begin(k, ops, l, v, after), ops = <<>> => tab[k] # None, after = Outcome(k, ops, l, v)
  PROVE  IInv'
<1>1. /\ pc = "idle" /\ pc' = "enter"
      /\ op' = [key |-> k, ops |-> ops, len |-> l, val |-> v, i |-> 0]
      /\ hist' = [before |-> Contents(tab, data), after |-> [Contents(tab, data) EXCEPT ![k] = after]]
      /\ UNCHANGED <<tab, ptab, data, pdata, ref, mod, pmod, ctl, pctl, lost>>
  BY DEF Begin
<1>2. Shape /\ Control /\ Clean /\ RefCounts /\ Kept
  BY DEF IInv
<1>3. tab = ptab /\ data = pdata
  BY <1>1, <1>2, Still DEF Busy
<1>4. Shape'
  BY <1>1, <1>2 DEF Shape, Entering
<1>5. Control'
  BY ZenonT(30), <1>1, <1>2 DEF Control, Entering, Redoing
<1>6. Clean'
  BY ZenonT(30), <1>1, <1>3 DEF Clean
<1>7. RefCounts' /\ Kept'
  BY <1>1, <1>2, Unmoved
<1>8. /\ hist'.before = Contents(tab, data) /\ hist'.after = [Contents(tab, data) EXCEPT ![k] = after]
      /\ hist' = [before |-> hist'.before, after |-> hist'.after]
  BY <1>1
<1>9. Contents(tab, data) = [j \in Key |-> Contents(tab, data)[j]]
  BY ContentsAt
<1>10. hist'.after[k] = after /\ \A j \in Key \ {k} : hist'.after[j] = hist'.before[j]
  BY <1>8, <1>9
<1>11. History'
  <2>1. hist'.before = [j \in Key |-> hist'.before[j]]
    BY <1>8, <1>9
  <2>2. hist'.after = [j \in Key |-> hist'.after[j]]
    BY <1>8, <1>9
  <2> QED BY <1>8, <2>1, <2>2 DEF History
<1>12. ASSUME ~lost' PROVE Sound'
  <2>1. Sound
    BY ZenonT(30), <1>1, <1>12 DEF IInv
  <2>2. Apart'
    BY <1>1, <2>1 DEF Sound, Apart
  <2>3. Contents(ptab, pdata)' = hist'.before
    BY ZenonT(30), <1>1, <1>3, <1>8
  <2>4. Recoverable'
    BY ZenonT(30), <1>1, <1>2, <2>3 DEF Recoverable, Control
  <2>5. Outcome(k, ops, l, v)' = Outcome(k, ops, l, v)
    BY ZenonT(30), <1>1 DEF Outcome, Stored
  <2>6. op'.key = k /\ op'.ops = ops /\ op'.len = l /\ op'.val = v
    BY <1>1
  <2>7. Entered'
    BY <1>1, <1>10, <2>3, <2>5, <2>6 DEF Entered
  <2> QED BY <1>1, <2>2, <2>4, <2>7 DEF Sound, Busy, Redoing
<1> QED BY <1>4, <1>5, <1>6, <1>7, <1>11, <1>12 DEF IInv

\* put over an existing key and atomic_update promise what the callers read.
LEMMA CallInv ==
  ASSUME IInv, Call
  PROVE  IInv'
<1>1. ASSUME NEW k \in Key, NEW l \in Lengths, NEW v \in Argument, PutReplace(k, l, v) PROVE IInv'
  <2>1. v \in Value /\ <<>> \in OpLists
    BY Arguments, Lists
  <2>2. <<l, v>> = Outcome(k, <<>>, l, v)
    BY DEF Outcome
  <2>3. Begin(k, <<>>, l, v, <<l, v>>) /\ tab[k] # None
    BY <1>1 DEF PutReplace
  <2> QED BY <2>1, <2>2, <2>3, BeginInv
<1>2. ASSUME NEW k \in Key, NEW v \in Argument, PutInPlace(k, v) PROVE IInv'
  <2>1. v \in Value /\ <<Part>> \in OpLists
    BY Arguments, Lists
  <2>2. /\ Begin(k, <<Part>>, tab[k].len, v, <<tab[k].len, v>>) /\ tab[k] # None /\ pc = "idle"
    BY <1>2 DEF PutInPlace, Begin
  <2>3. tab[k] = ptab[k]
    BY <2>2, Still DEF IInv, Busy
  <2>4. tab[k] \in Proper
    BY <2>2 DEF IInv, Shape, Control, Slots
  <2>5. tab[k].len \in Lengths
    BY <2>4, Forms, LengthsAssumption DEF is_small
  <2>6. <<Part>> # <<>>
    BY ZenonT(30)
  <2>7. <<tab[k].len, v>> = Outcome(k, <<Part>>, tab[k].len, v)
    BY ZenonT(30), <2>1, <2>2, <2>3, <2>6, Whole DEF Outcome
  <2> QED BY <2>1, <2>2, <2>5, <2>6, <2>7, BeginInv
<1>3. ASSUME NEW k \in Key, NEW ops \in Writes, NEW l \in Lengths, NEW v \in Argument,
             AtomicUpdate(k, ops, l, v)
      PROVE  IInv'
  <2> DEFINE old == Contents(tab, data)[k]
             after == IF tab[k] = None THEN old
                      ELSE <<old[1], [p \in Part |-> IF p \in Written(ops) THEN v[p] ELSE old[2][p]]>>
  <2>1. v \in Value /\ ops \in OpLists /\ ops # <<>>
    BY ZenonT(30), Arguments, Lists DEF Writes
  <2>2. Begin(k, ops, l, v, after)
    BY <1>3 DEF AtomicUpdate, Written
  <2>3. tab = ptab /\ data = pdata
    BY <2>2, Still DEF Begin, IInv, Busy
  <2>4. old = <<tab[k].len, Stored(tab, data, k)>>
    BY ZenonT(30), ContentsAt
  <2>5. after = Outcome(k, ops, l, v)
    <3>1. CASE tab[k] = None
      BY ZenonT(30), <2>1, <2>3, <2>4, <3>1, Forms DEF Outcome, Stored
    <3>2. CASE tab[k] # None
      <4>1. after = <<tab[k].len, Overlay(Stored(tab, data, k), Written(ops), v)>>
        BY <2>4, <3>2 DEF Overlay
      <4> QED BY ZenonT(30), <2>1, <2>3, <3>2, <4>1 DEF Outcome
    <3> QED BY ZenonT(30), <3>1, <3>2
  <2> HIDE DEF after
  <2> QED BY <2>1, <2>2, <2>5, BeginInv
<1> QED BY <1>1, <1>2, <1>3, InsertInv, EraseInv DEF Call

-----------------------------------------------------------------------------
\* The store of mod_key keeps the invariant: the log is not set.
LEMMA EnterKeyInv ==
  ASSUME IInv, EnterKey
  PROVE  IInv'
<1>1. /\ pc = "enter" /\ pc' = "enter_mapped" /\ mod' = [mod EXCEPT !.key = op.key]
      /\ UNCHANGED <<tab, ptab, data, pdata, ref, pmod, ctl, pctl, op, lost, hist>>
  BY DEF EnterKey
<1>2. Shape /\ Control /\ Clean /\ RefCounts /\ Kept /\ History
  BY DEF IInv
<1>3. tab = ptab /\ data = pdata
  BY <1>1, <1>2, Still DEF Busy
<1>4. mod'.mapped = mod.mapped /\ mod'.key = op.key /\ op.key \in Key
  BY <1>1, <1>2 DEF Shape, Control, Entering
<1>5. Shape'
  BY <1>1, <1>2, <1>4 DEF Shape, Entering
<1>6. Control'
  BY <1>1, <1>2, <1>4 DEF Control, Entering, Redoing
<1>7. Clean'
  BY <1>1, <1>3 DEF Clean
<1>8. RefCounts' /\ Kept'
  BY <1>1, <1>2, <1>4, Unmoved
<1>9. History'
  BY <1>1, <1>2 DEF History
<1>10. ASSUME ~lost' PROVE Sound'
  <2>1. Sound
    BY <1>1, <1>10 DEF IInv
  <2>2. Apart'
    BY <1>1, <2>1 DEF Sound, Apart
  <2>3. Contents(ptab, pdata)' = Contents(ptab, pdata)
    BY <1>1
  <2>4. pctl.size = 0 /\ pctl'.size = 0
    BY <1>1, <1>2 DEF Control, Entering
  <2>5. Recoverable'
    BY <1>1, <2>1, <2>3, <2>4 DEF Sound, Recoverable
  <2>6. Outcome(op.key, op.ops, op.len, op.val)' = Outcome(op.key, op.ops, op.len, op.val)
    BY <1>1 DEF Outcome, Stored
  <2>7. Entered'
    BY <1>1, <2>1, <2>3, <2>6 DEF Sound, Entered, Entering
  <2> QED BY <1>1, <2>2, <2>5, <2>7 DEF Sound, Busy, Redoing
<1> QED BY <1>5, <1>6, <1>7, <1>8, <1>9, <1>10 DEF IInv

\* A call without room for its data or for mod_ctl leaves everything as it was.
LEMMA EnterNoRoomInv ==
  ASSUME IInv, EnterNoRoom \/ EnterNoControl
  PROVE  IInv'
<1>1. /\ pc \in {"enter_mapped", "enter_size"} /\ pc' = "idle" /\ op' = NoOp
      /\ hist' = [hist EXCEPT !.after = hist.before]
      /\ UNCHANGED <<tab, ptab, data, pdata, ref, mod, pmod, ctl, pctl, lost>>
  BY DEF EnterNoRoom, EnterNoControl
<1>2. Shape /\ Control /\ Clean /\ RefCounts /\ Kept /\ History
  BY DEF IInv
<1>3. tab = ptab /\ data = pdata
  BY <1>1, <1>2, Still DEF Busy
<1>4. op' \in [key : Key \cup {NoKey}, ops : OpLists, len : Lengths, val : Value \cup {Junk}, i : 0 .. 2]
  BY <1>1, Lists, LengthsAssumption DEF NoOp
<1>5. Shape'
  BY <1>1, <1>2, <1>4 DEF Shape
<1>6. Control'
  BY <1>1, <1>2 DEF Control, Entering, Redoing
<1>7. Clean'
  BY <1>1, <1>3 DEF Clean
<1>8. RefCounts' /\ Kept'
  BY <1>1, <1>2, Unmoved
<1>9. /\ hist' = [before |-> hist.before, after |-> hist.before]
      /\ hist'.before = hist.before /\ hist'.after = hist.before
  BY <1>1, <1>2 DEF History
<1>10. History'
  BY <1>2, <1>9 DEF History
<1>11. ASSUME ~lost' PROVE Sound'
  <2>1. Sound
    BY <1>1, <1>11 DEF IInv
  <2>2. Apart'
    BY <1>1, <2>1 DEF Sound, Apart
  <2>3. Contents(ptab, pdata)' = hist'.before
    BY <1>1, <1>9, <2>1 DEF Sound, Entered, Entering
  <2>4. Recoverable'
    BY <1>1, <1>2, <2>3 DEF Recoverable, Control, Entering
  <2> QED BY <1>1, <2>2, <2>4 DEF Sound, Busy, Entering, Redoing
<1> QED BY <1>5, <1>6, <1>7, <1>8, <1>10, <1>11 DEF IInv

\* The store of mod_size sets the log: redo() of it would do what the call
\* promised.
LEMMA EnterSizeInv ==
  ASSUME IInv, EnterSize
  PROVE  IInv'
<1>1. /\ pc = "enter_size" /\ pc' = "redo"
      /\ ctl' = [size |-> IF op.ops = <<>> THEN -1 ELSE Len(op.ops), ops |-> op.ops]
      /\ UNCHANGED <<tab, ptab, data, pdata, ref, mod, pmod, pctl, op, lost, hist>>
  BY DEF EnterSize
<1>2. Shape /\ Control /\ Clean /\ RefCounts /\ Kept /\ History
  BY DEF IInv
<1>3. tab = ptab /\ data = pdata
  BY <1>1, <1>2, Still DEF Busy
<1>4. op.ops \in OpLists /\ pctl.size = 0 /\ mod.key = op.key /\ op.i = 0
      /\ op.key \in Key
  BY <1>1, <1>2 DEF Shape, Control, Entering
<1>5. ctl' = [size |-> SizeOf(op.ops), ops |-> op.ops]
  BY <1>1 DEF SizeOf
<1>6. ctl'.ops = op.ops /\ ctl'.size = SizeOf(op.ops) /\ SizeOf(op.ops) \in {-1, 1, 2}
      /\ ctl' \in [size : Int, ops : OpLists]
  BY <1>4, <1>5, Sizes
<1>7. Shape'
  BY <1>1, <1>2, <1>6 DEF Shape, Redoing
<1>8. Control'
  BY <1>1, <1>2, <1>4, <1>6 DEF Control, Entering, Redoing
<1>9. Clean'
  BY <1>1, <1>3 DEF Clean
<1>10. RefCounts' /\ Kept'
  BY <1>1, <1>2, Unmoved
<1>11. History'
  BY <1>1, <1>2 DEF History
<1>12. ASSUME ~lost' PROVE Sound'
  <2>1. Sound /\ Entered
    BY <1>1, <1>12 DEF IInv, Sound, Entering
  <2>2. Apart'
    BY <1>1, <2>1 DEF Sound, Apart
  <2>3. Contents(ptab, pdata)' = Contents(ptab, pdata) /\ Contents(ptab, pdata) = hist.before
    BY <1>1, <2>1 DEF Entered
  <2>4. Recoverable'
    BY <1>1, <1>4, <2>3 DEF Recoverable
  <2>5. \A k \in Key : Unused(k)'
    BY <1>1, <2>1 DEF Entered, Unused
  <2>6. hist.after[op.key] = Outcome(op.key, op.ops, mod.mapped.len, Logged)
    BY <1>1, <2>1 DEF Entered
  <2>7. hist'.after[mod'.key] = Outcome(mod.key, ctl.ops, mod.mapped.len, Logged)'
    BY <1>1, <1>4, <1>6, <2>6 DEF Outcome, Stored, Logged
  <2>8. ctl'.ops = <<>> => ptab'[mod'.key] # None
    BY <1>1, <1>2, <1>3, <1>4, <1>6 DEF Control, Entering
  <2>9. \A j \in Key \ {mod'.key} : Contents(ptab, pdata)'[j] = hist'.after[j]
    BY <1>1, <1>4, <2>1, <2>3 DEF Entered
  <2>10. mod.mapped \in Proper
    BY <1>1, <1>2 DEF Shape, Control
  <2>11. Pending(ctl)'
    BY <1>1, <1>4, <2>5, <2>7, <2>8, <2>9, <2>10 DEF Pending
  <2> QED BY <1>1, <1>4, <2>2, <2>4, <2>11 DEF Sound, Busy, Entering
<1> QED BY <1>7, <1>8, <1>9, <1>10, <1>11, <1>12 DEF IInv

\* Memory returns the same when the values it refers to are the same.
LEMMA MemorySame ==
  ASSUME Shape, ptab' = ptab,
         \A k \in Key : \A b \in Block : Refers(ptab[k], b) => pdata'[b] = pdata[b]
  PROVE  /\ Contents(ptab, pdata)' = Contents(ptab, pdata)
         /\ \A k \in Key : Stored(ptab, pdata, k)' = Stored(ptab, pdata, k)
<1>1. \A k \in Key : ptab[k].blk \in Block \cup {NoBlock}
  BY Pointers
<1>2. \A k \in Key : Stored(ptab, pdata, k)' = Stored(ptab, pdata, k)
  BY <1>1 DEF Stored, Refers
<1>3. Contents(ptab, pdata) = [k \in Key |-> <<ptab[k].len, Stored(ptab, pdata, k)>>]
  BY DEF Contents, Stored
<1>4. Contents(ptab, pdata)' = [k \in Key |-> <<ptab'[k].len, Stored(ptab, pdata, k)'>>]
  BY DEF Contents, Stored
<1>5. Contents(ptab, pdata)' = [k \in Key |-> <<ptab[k].len, Stored(ptab, pdata, k)>>]
  BY <1>2, <1>4
<1> QED BY <1>2, <1>3, <1>5

\* The data of the call, moved into mod_mapped, is in an allocation that
\* neither view refers to.
LEMMA EnterMappedInv ==
  ASSUME IInv, EnterMapped
  PROVE  IInv'
<1>1. pc = "enter_mapped" /\ UNCHANGED <<tab, ptab, pmod, ctl, pctl, op, lost, hist>>
  BY DEF EnterMapped
<1> DEFINE twice(r) == ~is_small(mod.mapped) /\ is_small(r)
<1>2. PICK r \in Reps(op.len, op.val) :
        /\ mod' = [mod EXCEPT !.mapped = IF twice(r) THEN Torn ELSE r]
        /\ Reserve(r, op.val, Release(ref, mod.mapped))
        /\ pc' = IF twice(r) THEN "enter_rest" ELSE "enter_size"
  BY ZenonT(30) DEF EnterMapped
<1> DEFINE m == IF twice(r) THEN Torn ELSE r
<1>3. Shape /\ Control /\ Clean /\ RefCounts /\ Kept /\ History
  BY DEF IInv
<1>4. /\ op.len \in Lengths /\ op.val \in Value /\ op.ops \in OpLists /\ op.key \in Key
      /\ mod.key = op.key /\ ctl.size = 0 /\ pctl.size = 0 /\ op.i = 0
  BY ZenonT(30), <1>1, <1>3 DEF Shape, Control, Entering
<1>5. /\ r \in Proper /\ r.len = op.len /\ (is_small(r) => r.val = op.val)
      /\ \A b \in Block : Refers(r, b) => ref[b] = 0
  BY <1>4, Chosen
<1>6. tab = ptab /\ data = pdata
  BY <1>1, <1>3, Still DEF Busy
<1>7. \A b \in Block : ref[b] = RefsIn(tab, b) + Holds(mod.mapped, b)
  BY <1>1, <1>3, Sum DEF RefCounts
<1>8. \A b \in Block : /\ RefsIn(tab, b) \in Nat
                       /\ RefsIn(tab, b) = 0 <=> \A k \in Key : ~Refers(tab[k], b)
  BY RefsFinite
<1>9. Release(ref, mod.mapped) = [b \in Block |-> RefsIn(tab, b)]
  <2>1. ref \in [Block -> Int] /\ mod.mapped \in Slots
    BY <1>3 DEF Shape, Slots
  <2>2. Release(ref, mod.mapped) = [b \in Block |-> ref[b] - Holds(mod.mapped, b)]
    BY <2>1, Recounted
  <2>3. \A b \in Block : ref[b] - Holds(mod.mapped, b) = RefsIn(tab, b)
    <3> TAKE b \in Block
    <3>1. Holds(mod.mapped, b) \in {0, 1}
      BY DEF Holds
    <3> QED BY <1>7, <1>8, <3>1
  <2> QED BY <2>2, <2>3
<1>10. Release(ref, mod.mapped) \in [Block -> Nat]
  BY ZenonT(30), <1>8, <1>9
<1>11. /\ ref' \in [Block -> Nat]
       /\ \A b \in Block : ref'[b] = IF Refers(r, b) THEN 1 ELSE RefsIn(tab, b)
       /\ data' \in [Block -> Value \cup {Junk}] /\ pdata' \in [Block -> Value \cup {Junk}]
       /\ \A b \in Block : Refers(r, b) => data'[b] = op.val /\ pdata'[b] = op.val
       /\ \A b \in Block : ~Refers(r, b) =>
            \/ data'[b] = data[b] /\ pdata'[b] = pdata[b]
            \/ /\ RefsIn(tab, b) = 0 /\ ~Refers(pmod.mapped, b) /\ \A j \in Key : ~Refers(ptab[j], b)
               /\ data'[b] = Junk /\ pdata'[b] = Junk
  <2>1. PICK cnt \in [Block -> Nat] : cnt = Release(ref, mod.mapped)
    BY <1>10
  <2>2. PICK v \in Value : v = op.val
    BY <1>4
  <2>3. Reserve(r, v, cnt)
    BY <1>2, <2>1, <2>2
  <2>4. \A b \in Block : cnt[b] = RefsIn(tab, b)
    BY <1>9, <2>1
  <2> QED BY ZenonT(30), <1>3, <1>5, <2>2, <2>3, <2>4, Reserved
<1>12. \A b \in Block : Refers(r, b) => \A k \in Key : ~Refers(tab[k], b)
  <2> SUFFICES ASSUME NEW b \in Block, Refers(r, b) PROVE \A k \in Key : ~Refers(tab[k], b)
    OBVIOUS
  <2>1. ref[b] = 0 /\ Holds(mod.mapped, b) \in {0, 1}
    BY <1>5 DEF Holds
  <2>2. RefsIn(tab, b) = 0
    BY <1>7, <1>8, <2>1
  <2> QED BY <1>8, <2>2
<1>13. \A b \in Block : (\E k \in Key : Refers(tab[k], b)) => pdata'[b] = pdata[b] /\ data'[b] = data[b]
  BY <1>6, <1>11, <1>12
<1>14. data' = pdata'
  <2>1. \A b \in Block : data'[b] = pdata'[b]
    BY <1>6, <1>11
  <2> QED BY <1>11, <2>1
<1>15. /\ mod' = [key |-> op.key, mapped |-> m] /\ mod'.key = op.key /\ mod'.mapped = m
       /\ m \in Proper \cup {Torn} /\ pc' \in {"enter_rest", "enter_size"}
       /\ pc' = "enter_rest" <=> m = Torn
       /\ pc' = "enter_size" => m = r
       /\ pc' = "enter_rest" => op.len = "small"
       /\ \A b \in Block : Refers(m, b) <=> Refers(r, b)
  <2>1. mod' = [key |-> op.key, mapped |-> m]
    BY <1>2, <1>3, <1>4 DEF Shape
  <2>2. r # Torn /\ (is_small(r) => op.len = "small")
    BY ZenonT(30), <1>5, Forms DEF is_small
  <2>3. is_small(r) => \A b \in Block : ~Refers(r, b) /\ ~Refers(Torn, b)
    BY ZenonT(30), <1>5, Forms DEF Refers
  <2>4. mod'.key = op.key /\ mod'.mapped = m
    BY <2>1
  <2>5. CASE twice(r)
    <3>1. m = Torn /\ pc' = "enter_rest" /\ is_small(r)
      BY <1>2, <2>5
    <3> HIDE DEF m
    <3> QED BY ZenonT(30), <2>1, <2>2, <2>3, <2>4, <3>1
  <2>6. CASE ~twice(r)
    <3>1. m = r /\ pc' = "enter_size"
      BY <1>2, <2>6
    <3> HIDE DEF m
    <3> QED BY ZenonT(30), <1>5, <2>1, <2>2, <2>4, <3>1
  <2> QED BY <2>5, <2>6
<1> HIDE DEF m, twice
<1>16. Shape'
  BY <1>1, <1>3, <1>4, <1>11, <1>15 DEF Shape, Entering
<1>17. Control'
  BY <1>1, <1>3, <1>4, <1>15 DEF Control, Entering, Redoing
<1>18. Clean'
  BY <1>1, <1>6, <1>14 DEF Clean
<1>19. RefCounts'
  <2> SUFFICES ASSUME NEW b \in Block PROVE ref'[b] = References(b)'
    BY DEF RefCounts
  <2>1. References(b)' = RefsIn(tab, b) + Holds(r, b)
    <3>1. References(b)' = RefsIn(tab, b) + Holds(m, b)
      BY ZenonT(30), <1>1, <1>15 DEF References, RefsIn, Holds
    <3> QED BY <1>15, <3>1 DEF Holds
  <2>2. CASE Refers(r, b)
    <3>1. RefsIn(tab, b) = 0
      BY ZenonT(30), <1>8, <1>12, <2>2
    <3> QED BY <1>11, <2>1, <2>2, <3>1 DEF Holds
  <2>3. CASE ~Refers(r, b)
    BY <1>8, <1>11, <2>1, <2>3 DEF Holds
  <2> QED BY <2>2, <2>3
<1>20. Kept'
  <2> SUFFICES ASSUME NEW b \in Block, Live(b)' PROVE data'[b] # Junk /\ pdata'[b] # Junk
    BY ZenonT(30) DEF Kept
  <2>1. CASE Refers(r, b)
    BY ZenonT(30), <1>4, <1>11, <2>1, Forms
  <2>2. CASE ~Refers(r, b)
    <3>1. (\E k \in Key : Refers(tab[k], b)) \/ Refers(pmod.mapped, b)
      BY ZenonT(30), <1>1, <1>6, <1>15, <2>2 DEF Live
    <3>2. data[b] # Junk /\ pdata[b] # Junk
      BY ZenonT(30), <1>3, <3>1 DEF Kept, Live
    <3> QED BY ZenonT(30), <1>6, <1>11, <2>2, <3>1, <3>2
  <2> QED BY <2>1, <2>2
<1>21. History'
  BY <1>1, <1>3 DEF History
<1>22. ASSUME ~lost' PROVE Sound'
  <2>1. Sound /\ Entered
    BY <1>1, <1>22 DEF IInv, Sound, Entering
  <2>2. Apart'
    BY <1>1, <2>1 DEF Sound, Apart
  <2>3. /\ Contents(ptab, pdata)' = Contents(ptab, pdata)
        /\ \A k \in Key : Stored(ptab, pdata, k)' = Stored(ptab, pdata, k)
    <3>1. \A k \in Key : \A b \in Block : Refers(ptab[k], b) => pdata'[b] = pdata[b]
      BY <1>6, <1>13
    <3> QED BY ZenonT(30), <1>1, <1>3, <3>1, MemorySame
  <2>4. Recoverable'
    BY <1>1, <1>4, <2>1, <2>3 DEF Entered, Recoverable
  <2>5. Outcome(op.key, op.ops, op.len, op.val)' = Outcome(op.key, op.ops, op.len, op.val)
    BY <1>1, <1>4, <2>3 DEF Outcome
  <2>6. \A k \in Key : Unused(k)'
    BY ZenonT(30), <1>1, <1>6, <1>12, <1>15 DEF Unused
  <2>7. pc' = "enter_size" => Logged' = op.val
    <3> SUFFICES ASSUME pc' = "enter_size" PROVE Logged' = op.val
      OBVIOUS
    <3>1. Logged' = IF is_small(r) THEN r.val ELSE pdata'[r.blk]
      BY ZenonT(30), <1>15 DEF Logged
    <3>2. ~is_small(r) => r.blk \in Block
      BY ZenonT(30), <1>5, Forms
    <3> QED BY ZenonT(30), <1>5, <1>11, <3>1, <3>2 DEF Refers
  <2>8. Entered'
    BY <1>1, <1>5, <1>15, <2>1, <2>3, <2>5, <2>6, <2>7 DEF Entered
  <2> QED BY <1>1, <1>15, <2>2, <2>4, <2>8 DEF Sound, Busy, Redoing
<1> QED BY <1>16, <1>17, <1>18, <1>19, <1>20, <1>21, <1>22 DEF IInv

\* The second store of that move makes mod_mapped the inline data.
LEMMA EnterRestInv ==
  ASSUME IInv, EnterRest
  PROVE  IInv'
<1>1. /\ pc = "enter_rest" /\ pc' = "enter_size" /\ mod' = [mod EXCEPT !.mapped = Small(op.val)]
      /\ UNCHANGED <<tab, ptab, data, pdata, ref, pmod, ctl, pctl, op, lost, hist>>
  BY DEF EnterRest
<1>2. Shape /\ Control /\ Clean /\ RefCounts /\ Kept /\ History
  BY DEF IInv
<1>3. tab = ptab /\ data = pdata
  BY <1>1, <1>2, Still DEF Busy
<1>4. mod.mapped = Torn /\ mod.key = op.key /\ op.key \in Key /\ op.val \in Value /\ op.len = "small"
  BY <1>1, <1>2 DEF Control, Entering
<1>5. mod' = [key |-> op.key, mapped |-> Small(op.val)]
  BY <1>1, <1>2, <1>4 DEF Shape
<1>6. /\ Small(op.val) \in Proper /\ Small(op.val) # Torn /\ is_small(Small(op.val))
      /\ Small(op.val).val = op.val /\ Small(op.val).len = "small"
  BY <1>4, Built, Forms DEF is_small
<1>7. mod'.key = op.key /\ mod'.mapped = Small(op.val)
  BY <1>5
<1>8. \A b \in Block : ~Refers(mod.mapped, b) /\ ~Refers(mod'.mapped, b)
  BY <1>4, <1>6, <1>7, Forms DEF Refers
<1>9. Shape'
  BY <1>1, <1>2, <1>4, <1>5, <1>6 DEF Shape, Entering
<1>10. Control'
  BY <1>1, <1>2, <1>6, <1>7 DEF Control, Entering, Redoing
<1>11. Clean'
  BY <1>1, <1>3 DEF Clean
<1>12. RefCounts'
  <2>1. \A b \in Block : References(b)' = References(b)
    BY <1>1, <1>8 DEF References
  <2> QED BY <1>1, <1>2, <2>1 DEF RefCounts
<1>13. Kept'
  <2>1. \A b \in Block : Live(b)' => Live(b)
    BY <1>1, <1>8 DEF Live
  <2> QED BY <1>1, <1>2, <2>1 DEF Kept
<1>14. History'
  BY <1>1, <1>2 DEF History
<1>15. ASSUME ~lost' PROVE Sound'
  <2>1. Sound /\ Entered
    BY <1>1, <1>15 DEF IInv, Sound, Entering
  <2>2. /\ Contents(ptab, pdata)' = Contents(ptab, pdata) /\ Apart' = Apart
        /\ Outcome(op.key, op.ops, op.len, op.val)' = Outcome(op.key, op.ops, op.len, op.val)
    BY <1>1 DEF Apart, Outcome, Stored
  <2>3. pctl'.size = 0
    BY <1>1, <1>2 DEF Control, Entering
  <2>4. Recoverable'
    BY <1>1, <2>1, <2>2, <2>3 DEF Entered, Recoverable
  <2>5. (\A k \in Key : Unused(k)') /\ Logged' = op.val
    BY <1>6, <1>7, <1>8 DEF Unused, Logged
  <2>6. Entered'
    BY <1>1, <1>4, <1>6, <1>7, <2>1, <2>2, <2>5 DEF Entered
  <2> QED BY <1>1, <2>1, <2>2, <2>4, <2>6 DEF Sound, Busy, Redoing
<1> QED BY <1>9, <1>10, <1>11, <1>12, <1>13, <1>14, <1>15 DEF IInv

-----------------------------------------------------------------------------
\* redo() does the same to two values that differ only where it stores.
LEMMA OverlaySame ==
  ASSUME NEW v, NEW w, NEW x, NEW ps, SameBut(v, w, ps)
  PROVE  Overlay(v, ps, x) = Overlay(w, ps, x)
BY ZenonT(30) DEF Overlay, SameBut

\* A log that is set stays redoable when memory changes only in the value of
\* its key: any rep but none for a replacement, the parts that the WRITEs
\* cover for an update.
LEMMA PendingKept ==
  ASSUME Shape, NEW c, Pending(c), mod' = mod, hist' = hist,
         \A j \in Key \ {mod.key} : ptab'[j] = ptab[j],
         \A j \in Key \ {mod.key} : \A b \in Block : Refers(ptab[j], b) => pdata'[b] = pdata[b],
         \A b \in Block : Refers(mod.mapped, b) => pdata'[b] = pdata[b],
         c.ops = <<>> => ptab'[mod.key] # None,
         c.ops # <<>> => /\ ptab'[mod.key].len = ptab[mod.key].len
                         /\ ptab'[mod.key].blk = ptab[mod.key].blk
                         /\ ptab'[mod.key] = None <=> ptab[mod.key] = None
                         /\ SameBut(Stored(ptab, pdata, mod.key)', Stored(ptab, pdata, mod.key),
                                    Written(c.ops))
  PROVE  Pending(c)'
<1>1. mod.key \in Key /\ mod.mapped \in Proper
  BY ZenonT(30) DEF Pending
<1>2. \A j \in Key \ {mod.key} : Unused(j)'
  BY ZenonT(30) DEF Pending, Unused
<1>3. c.ops # <<>> => Unused(mod.key)'
  BY ZenonT(30) DEF Pending, Unused, Refers
<1>4. ASSUME NEW j \in Key \ {mod.key} PROVE Contents(ptab, pdata)'[j] = hist.after[j]
  <2>1. ptab[j].blk \in Block \cup {NoBlock}
    BY ZenonT(30), Pointers
  <2>2. Stored(ptab, pdata, j)' = Stored(ptab, pdata, j)
    BY ZenonT(30), <2>1 DEF Stored, Refers
  <2>3. Contents(ptab, pdata)'[j] = <<ptab'[j].len, Stored(ptab, pdata, j)'>>
    BY ZenonT(30) DEF Contents, Stored
  <2>4. Contents(ptab, pdata)[j] = <<ptab[j].len, Stored(ptab, pdata, j)>>
    BY ZenonT(30) DEF Contents, Stored
  <2> QED BY ZenonT(30), <2>2, <2>3, <2>4 DEF Pending
<1>5. Logged' = Logged
  <2>1. ~is_small(mod.mapped) => mod.mapped.blk \in Block
    BY ZenonT(30), <1>1, Forms
  <2> QED BY ZenonT(30), <2>1 DEF Logged, Refers
<1>6. Outcome(mod.key, c.ops, mod.mapped.len, Logged)' = Outcome(mod.key, c.ops, mod.mapped.len, Logged)
  <2>1. CASE c.ops = <<>>
    BY ZenonT(30), <1>5, <2>1 DEF Outcome
  <2>2. CASE c.ops # <<>>
    <3>1. PICK v, w : v = Stored(ptab, pdata, mod.key)' /\ w = Stored(ptab, pdata, mod.key)
      BY ZenonT(30)
    <3>2. PICK ps, x : ps = Written(c.ops) /\ x = Logged
      BY ZenonT(30)
    <3>3. Overlay(v, Written(c.ops), Logged) = Overlay(w, Written(c.ops), Logged)
      <4>1. SameBut(v, w, ps)
        BY ZenonT(30), <2>2, <3>1, <3>2
      <4>2. Overlay(v, ps, x) = Overlay(w, ps, x)
        BY ONLY <4>1, OverlaySame
      <4> QED BY ZenonT(30), <3>2, <4>2
    <3>4. CASE ptab[mod.key] = None
      BY ZenonT(30), <2>2, <3>4 DEF Outcome
    <3>5. CASE ptab[mod.key] # None
      <4>1. Outcome(mod.key, c.ops, mod.mapped.len, Logged)
              = <<ptab[mod.key].len, Overlay(w, Written(c.ops), Logged)>>
        BY ZenonT(30), <2>2, <3>1, <3>5 DEF Outcome
      <4>2. Outcome(mod.key, c.ops, mod.mapped.len, Logged)'
              = <<ptab[mod.key].len, Overlay(v, Written(c.ops), Logged)>>
        BY ZenonT(30), <1>5, <2>2, <3>1, <3>5 DEF Outcome, Written, Overlay
      <4> QED BY ZenonT(30), <3>3, <4>1, <4>2
    <3> QED BY ZenonT(30), <3>4, <3>5
  <2> QED BY ZenonT(30), <2>1, <2>2
<1>7. hist'.after[mod'.key] = Outcome(mod.key, c.ops, mod.mapped.len, Logged)'
  BY ZenonT(30), <1>6 DEF Pending
<1> QED BY ZenonT(30), <1>1, <1>2, <1>3, <1>4, <1>7 DEF Pending

\* Nothing in memory moves.
LEMMA PendingSame ==
  ASSUME Shape, NEW c, Pending(c), mod' = mod, hist' = hist, ptab' = ptab,
         \A k \in Key : \A b \in Block : Refers(ptab[k], b) => pdata'[b] = pdata[b],
         \A b \in Block : Refers(mod.mapped, b) => pdata'[b] = pdata[b]
  PROVE  Pending(c)'
<1>1. mod.key \in Key /\ (c.ops = <<>> => ptab[mod.key] # None)
  BY ZenonT(30) DEF Pending
<1>2. Stored(ptab, pdata, mod.key)' = Stored(ptab, pdata, mod.key)
  BY ZenonT(30), <1>1, MemorySame
<1>3. SameBut(Stored(ptab, pdata, mod.key)', Stored(ptab, pdata, mod.key), Written(c.ops))
  BY <1>2 DEF SameBut
<1> QED BY ZenonT(30), <1>1, <1>3, PendingKept

\* The key of a replacement is there.
LEMMA RedoNoSuchKeyInv ==
  ASSUME IInv, RedoNoSuchKey
  PROVE  IInv'
<1>1. /\ pc = "redo" /\ pc' = "failed" /\ ctl.size < 0 /\ ~Found /\ pctl' = ctl
      /\ UNCHANGED <<tab, ptab, data, pdata, ref, mod, pmod, ctl, op, lost, hist>>
  BY ZenonT(30) DEF RedoNoSuchKey
<1>2. Shape /\ Control /\ Clean /\ RefCounts /\ Kept /\ History
  BY DEF IInv
<1>3. tab = ptab /\ data = pdata
  BY ZenonT(30), <1>1, <1>2, Still DEF Busy, Control
<1>4. Shape'
  BY ZenonT(30), <1>1, <1>2 DEF Shape
<1>5. Control'
  BY ZenonT(30), <1>1, <1>2 DEF Control, Entering, Redoing
<1>6. Clean'
  BY ZenonT(30), <1>1, <1>3 DEF Clean
<1>7. RefCounts' /\ Kept'
  BY <1>1, <1>2, Unmoved
<1>8. History'
  BY ZenonT(30), <1>1, <1>2 DEF History
<1>9. ASSUME ~lost' PROVE FALSE
  <2>1. Pending(ctl)
    BY <1>1, <1>9 DEF IInv, Sound, Redoing
  <2>2. ctl.ops = <<>>
    BY <1>1, <1>2, Sizes DEF Shape
  <2> QED BY <1>1, <1>3, <2>1, <2>2 DEF Pending, Found
<1> QED BY <1>4, <1>5, <1>6, <1>7, <1>8, <1>9 DEF IInv

\* A call that returns has done what it promised, in memory.
LEMMA RedoDoneInv ==
  ASSUME IInv, RedoDone
  PROVE  IInv'
<1>1. /\ pc = "finish" /\ pc' = "idle" /\ pctl' = ctl /\ op' = NoOp
      /\ hist' = IF op.key = NoKey THEN hist ELSE [hist EXCEPT !.before = hist.after]
      /\ UNCHANGED <<tab, ptab, data, pdata, ref, mod, pmod, ctl, lost>>
  BY DEF RedoDone
<1>2. Shape /\ Control /\ Clean /\ RefCounts /\ Kept /\ History
  BY DEF IInv
<1>3. tab = ptab /\ data = pdata
  BY <1>1, <1>2, Still DEF Busy
<1>4. op' \in [key : Key \cup {NoKey}, ops : OpLists, len : Lengths, val : Value \cup {Junk}, i : 0 .. 2]
  BY <1>1, Lists, LengthsAssumption DEF NoOp
<1>5. Shape'
  BY <1>1, <1>2, <1>4 DEF Shape
<1>6. Control'
  BY <1>1, <1>2 DEF Control, Entering, Redoing
<1>7. Clean'
  BY <1>1, <1>3 DEF Clean
<1>8. RefCounts' /\ Kept'
  BY <1>1, <1>2, Unmoved
<1>9. /\ hist' = [before |-> hist'.before, after |-> hist.after] /\ hist'.after = hist.after
      /\ hist'.before \in {hist.before, hist.after}
  BY <1>1, <1>2 DEF History
<1>10. History'
  BY <1>2, <1>9 DEF History
<1>11. ASSUME ~lost' PROVE Sound'
  <2>1. Sound
    BY <1>1, <1>11 DEF IInv
  <2>2. Apart'
    BY <1>1, <2>1 DEF Sound, Apart
  <2>3. Contents(ptab, pdata)' = hist'.after
    BY <1>1, <1>9, <2>1 DEF Sound
  <2>4. Recoverable'
    BY ZenonT(30), <1>1, <1>2, <2>3 DEF Recoverable, Control
  <2> QED BY <1>1, <2>2, <2>4 DEF Sound, Busy, Entering, Redoing
<1> QED BY <1>5, <1>6, <1>7, <1>8, <1>10, <1>11 DEF IInv

\* The log, whichever name it has.
LEMMA PendingNamed ==
  ASSUME NEW c, Pending(c)'
  PROVE  (ctl' = c => Pending(ctl)') /\ (pctl' = c => Pending(pctl)')
BY ZenonT(30) DEF Pending, Outcome

-----------------------------------------------------------------------------
\* The cache writes a line back.

\* The line of the log's data: memory gets what the processor sees.
LEMMA EvictModInv ==
  ASSUME IInv, pmod' = mod,
         UNCHANGED <<tab, ptab, data, pdata, ref, mod, ctl, pctl, pc, op, lost, hist>>
  PROVE  IInv'
<1>1. Shape /\ Control /\ Clean /\ RefCounts /\ Kept /\ History
  BY ZenonT(30) DEF IInv
<1>2. Shape'
  BY ZenonT(30), <1>1 DEF Shape
<1>3. Control'
  BY ZenonT(30), <1>1 DEF Control, Found
<1>4. Clean'
  BY ZenonT(30), <1>1 DEF Clean, Busy
<1>5. RefCounts' /\ Kept'
  <2>1. \A b : References(b)' = References(b)
    BY DEF References
  <2>2. \A b : Live(b)' => Live(b)
    BY DEF Live
  <2> QED BY ZenonT(30), <1>1, <2>1, <2>2 DEF RefCounts, Kept
<1>6. History'
  BY ZenonT(30), <1>1 DEF History
<1>7. ASSUME ~lost' PROVE Sound'
  <2>1. Sound
    BY ZenonT(30), <1>7 DEF IInv
  <2>2. /\ Contents(ptab, pdata)' = Contents(ptab, pdata) /\ Apart' = Apart /\ Logged' = Logged
        /\ \A k : Unused(k)' = Unused(k)
        /\ \A k, ops, l, v : Outcome(k, ops, l, v)' = Outcome(k, ops, l, v)
        /\ HalfAssigned' = HalfAssigned
    BY ZenonT(30) DEF Apart, Logged, Unused, Outcome, Stored, HalfAssigned
  <2>3. Recoverable'
    BY ZenonT(30), <2>1, <2>2 DEF Sound, Recoverable, Pending
  <2>4. pc \in Entering => Entered'
    BY ZenonT(30), <2>1, <2>2 DEF Sound, Entered
  <2>5. pc \in Redoing => Pending(ctl)'
    BY ZenonT(30), <2>1, <2>2 DEF Sound, Pending
  <2>6. Busy' => Progress'
    BY ZenonT(30), <2>1 DEF Sound, Busy, Progress, Stored, Source
  <2> QED BY <2>1, <2>2, <2>3, <2>4, <2>5, <2>6 DEF Sound
<1> QED BY ZenonT(30), <1>2, <1>3, <1>4, <1>5, <1>6, <1>7 DEF IInv

\* mod_size reaches memory: what redo() of the log would do is what the call
\* promised.
LEMMA EvictCtlInv ==
  ASSUME IInv, pctl' = ctl,
         UNCHANGED <<tab, ptab, data, pdata, ref, mod, pmod, ctl, pc, op, lost, hist>>
  PROVE  IInv'
<1>1. Shape /\ Control /\ Clean /\ RefCounts /\ Kept /\ History
  BY ZenonT(30) DEF IInv
<1>2. Shape'
  BY ZenonT(60), <1>1 DEF Shape
<1>3. Control'
  BY ZenonT(30), <1>1 DEF Control, Found
<1>4. Clean'
  BY ZenonT(30), <1>1 DEF Clean, Busy
<1>5. RefCounts' /\ Kept'
  <2>1. \A b : References(b)' = References(b)
    BY DEF References
  <2>2. \A b : Live(b)' => Live(b)
    BY DEF Live
  <2> QED BY <1>1, <2>1, <2>2 DEF RefCounts, Kept
<1>6. History'
  BY <1>1 DEF History
<1>7. ASSUME ~lost' PROVE Sound'
  <2>1. Sound
    BY ZenonT(30), <1>7 DEF IInv
  <2>2. /\ Contents(ptab, pdata)' = Contents(ptab, pdata) /\ Apart' = Apart /\ Logged' = Logged
        /\ \A k : Unused(k)' = Unused(k)
        /\ \A k, ops, l, v : Outcome(k, ops, l, v)' = Outcome(k, ops, l, v)
        /\ HalfAssigned' = HalfAssigned
    BY ZenonT(30) DEF Apart, Logged, Unused, Outcome, Stored, HalfAssigned
  <2>3. pc \in Redoing => Pending(ctl)'
    BY ZenonT(30), <2>1, <2>2 DEF Sound, Pending
  <2>4. Recoverable'
    <3>1. CASE pc \in Entering \cup {"idle"}
      BY ZenonT(30), <1>1, <2>1, <2>2, <3>1 DEF Control, Sound, Recoverable
    <3>2. CASE pc \in Redoing
      <4>1. Pending(pctl)'
        BY ZenonT(30), <2>3, <3>2 DEF Pending, Outcome
      <4> QED BY ZenonT(30), <1>1, <3>2, <4>1 DEF Control, Recoverable
    <3>3. CASE pc = "finish"
      BY ZenonT(30), <1>1, <2>1, <2>2, <3>3 DEF Control, Sound, Recoverable
    <3>4. CASE pc \in {"recover", "failed"}
      <4>1. pctl' = pctl
        BY ZenonT(30), <1>1, <3>4 DEF Control
      <4> QED BY ZenonT(30), <2>1, <2>2, <4>1 DEF Sound, Recoverable, Pending
    <3> QED BY ZenonT(30), <1>1, <2>1, <3>1, <3>2, <3>3, <3>4 DEF Shape
  <2>5. pc \in Entering => Entered'
    BY ZenonT(30), <2>1, <2>2 DEF Sound, Entered
  <2>6. Busy' => Progress'
    BY ZenonT(30), <2>1 DEF Sound, Busy, Progress, Stored, Source
  <2> QED BY <2>1, <2>2, <2>3, <2>4, <2>5, <2>6 DEF Sound
<1> QED BY <1>2, <1>3, <1>4, <1>5, <1>6, <1>7 DEF IInv

-----------------------------------------------------------------------------
\* A crash leaves memory, and memory is recoverable.
LEMMA CrashInv ==
  ASSUME IInv, Crash
  PROVE  IInv'
<1>1. /\ tab' = ptab /\ mod' = pmod /\ ctl' = pctl /\ ref' = [b \in Block |-> 0]
      /\ data' = Forget(pdata, ref', ptab, pmod) /\ pdata' = data'
      /\ pc' = "recover" /\ op' = NoOp /\ UNCHANGED <<ptab, pmod, pctl, hist>>
      /\ lost' = (lost \/ (pctl.size # 0 /\ pmod # mod))
  BY DEF Crash
<1>2. Shape /\ Control /\ Clean /\ Kept /\ History
  BY DEF IInv
<1>3. op' \in [key : Key \cup {NoKey}, ops : OpLists, len : Lengths, val : Value \cup {Junk}, i : 0 .. 2]
  BY <1>1, Lists, LengthsAssumption DEF NoOp
<1>4. data' \in [Block -> Value \cup {Junk}]
  <2>1. pdata \in [Block -> Value \cup {Junk}]
    BY <1>2 DEF Shape
  <2> QED BY <1>1, <2>1 DEF Forget
<1>5. lost' \in BOOLEAN
  BY ZenonT(30), <1>1
<1>6. \A b \in Block : (\E k \in Key : Refers(ptab[k], b)) \/ Refers(pmod.mapped, b) => pdata'[b] = pdata[b]
  BY ZenonT(30), <1>1 DEF Forget
<1>7. Shape'
  BY ZenonT(30), <1>1, <1>2, <1>3, <1>4, <1>5 DEF Shape
<1>8. Control'
  BY ZenonT(30), <1>1 DEF Control, Entering, Redoing
<1>9. Clean'
  BY ZenonT(30), <1>1 DEF Clean
<1>10. RefCounts'
  BY ZenonT(30), <1>1 DEF RefCounts
<1>11. Kept'
  <2> SUFFICES ASSUME NEW b \in Block, Live(b)' PROVE data'[b] # Junk /\ pdata'[b] # Junk
    BY ZenonT(30) DEF Kept
  <2>1. (\E k \in Key : Refers(ptab[k], b)) \/ Refers(pmod.mapped, b)
    BY ZenonT(30), <1>1 DEF Live
  <2>2. pdata[b] # Junk
    BY <1>2, <2>1 DEF Kept, Live
  <2> QED BY <1>1, <1>6, <2>1, <2>2
<1>12. History'
  BY <1>1, <1>2 DEF History
<1>13. ASSUME ~lost' PROVE Sound'
  <2>1. ~lost /\ (pctl.size = 0 \/ pmod = mod)
    BY ZenonT(30), <1>1, <1>13
  <2>2. Sound
    BY <2>1 DEF IInv
  <2>3. Apart'
    BY ZenonT(30), <1>1, <2>2 DEF Sound, Apart
  <2>4. Contents(ptab, pdata)' = Contents(ptab, pdata)
    <3>1. \A k \in Key : \A b \in Block : Refers(ptab[k], b) => pdata'[b] = pdata[b]
      BY <1>6
    <3>2. ptab' = ptab
      BY <1>1
    <3> QED BY <1>2, <3>1, <3>2, MemorySame
  <2>5. Recoverable'
    <3>1. CASE pctl.size = 0
      BY ZenonT(30), <1>1, <2>2, <2>4, <3>1 DEF Sound, Recoverable
    <3>2. CASE pctl.size # 0
      <4>1. PICK c : c = pctl
        BY ZenonT(30)
      <4>2. Pending(c) /\ mod' = mod /\ hist' = hist /\ ptab' = ptab
        BY <1>1, <2>1, <2>2, <3>2, <4>1 DEF Sound, Recoverable
      <4>3. \A b \in Block : Refers(mod.mapped, b) => pdata'[b] = pdata[b]
        BY ZenonT(30), <1>6, <2>1, <3>2
      <4>4. \A k \in Key : \A b \in Block : Refers(ptab[k], b) => pdata'[b] = pdata[b]
        BY <1>6
      <4>5. Pending(c)'
        BY <1>2, <4>2, <4>3, <4>4, PendingSame
      <4>6. Pending(pctl)'
        BY <1>1, <4>1, <4>5, PendingNamed
      <4> QED BY ZenonT(30), <1>1, <3>2, <4>6 DEF Recoverable
    <3> QED BY ZenonT(30), <3>1, <3>2
  <2> QED BY <1>1, <2>1, <2>3, <2>5 DEF Sound, Busy, Entering, Redoing
<1> QED BY <1>7, <1>8, <1>9, <1>10, <1>11, <1>12, <1>13 DEF IInv

\* Opening the pool counts the references and continues with the log.
LEMMA ReconstituteInv ==
  ASSUME IInv, Reconstitute
  PROVE  IInv'
<1>1. /\ pc = "recover" /\ UNCHANGED <<tab, ptab, data, pdata, mod, pmod, ctl, pctl, op, lost, hist>>
      /\ IF HalfAssigned
         THEN pc' = "failed" /\ ref' = ref
         ELSE /\ ref' = [b \in Block |-> References(b)]
              /\ pc' = IF ctl.size = 0 THEN "idle" ELSE "redo"
  BY DEF Reconstitute
<1>2. Shape /\ Control /\ Clean /\ Kept /\ History
  BY DEF IInv
<1>3. tab = ptab /\ data = pdata
  BY ZenonT(30), <1>1, <1>2, Still DEF Busy
<1>4. ctl = pctl /\ op.i = 0
  BY <1>1, <1>2 DEF Control, NoOp
<1>5. ref' \in [Block -> Nat]
  <2>1. \A b \in Block : References(b) \in Nat
    BY ZenonT(30), <1>2, NoRefs
  <2> QED BY <1>1, <1>2, <2>1 DEF Shape
<1>6. Shape'
  BY ZenonT(30), <1>1, <1>2, <1>5 DEF Shape, Redoing
<1>7. Control'
  <2>1. /\ pc' \in {"failed", "idle", "redo"} /\ (pc' = "idle" => ctl.size = 0) /\ (pc' = "redo" => ctl.size # 0)
        /\ pc' # "failed" => mod.mapped # Torn /\ \A k \in Key : tab[k] # Torn
    BY <1>1 DEF HalfAssigned
  <2>2. UNCHANGED <<tab, ptab, mod, pmod, ctl, pctl, op>>
    BY ZenonT(30), <1>1
  <2> QED BY ONLY <1>4, <2>1, <2>2 DEF Control, Entering, Redoing
<1>8. Clean'
  BY <1>1, <1>3 DEF Clean
<1>9. RefCounts'
  <2>1. \A b : References(b)' = References(b)
    BY <1>1 DEF References
  <2> QED BY <1>1, <2>1 DEF RefCounts
<1>10. Kept'
  <2>1. \A b : Live(b)' = Live(b)
    BY <1>1 DEF Live
  <2> QED BY <1>1, <1>2, <2>1 DEF Kept
<1>11. History'
  BY <1>1, <1>2 DEF History
<1>12. ASSUME ~lost' PROVE Sound'
  <2>1. Sound
    BY <1>1, <1>12 DEF IInv
  <2>2. /\ pc' \in {"failed", "idle", "redo"} /\ (pc' = "redo" => ctl.size # 0)
        /\ pc' = "failed" => HalfAssigned'
    BY ZenonT(30), <1>1 DEF HalfAssigned
  <2>3. /\ Contents(ptab, pdata)' = Contents(ptab, pdata) /\ Apart' = Apart /\ Logged' = Logged
        /\ \A k : Unused(k)' = Unused(k)
        /\ \A k, ops, l, v : Outcome(k, ops, l, v)' = Outcome(k, ops, l, v)
    BY ZenonT(30), <1>1 DEF Apart, Logged, Unused, Outcome, Stored
  <2>4. Recoverable'
    BY ZenonT(30), <1>1, <2>1, <2>3 DEF Sound, Recoverable, Pending
  <2>5. pc' = "redo" => Pending(ctl)'
    BY ZenonT(30), <1>1, <1>4, <2>1, <2>2, <2>3 DEF Sound, Recoverable, Pending
  <2> QED BY <1>1, <1>4, <2>1, <2>2, <2>3, <2>4, <2>5 DEF Sound, Busy, Entering, Redoing
<1> QED BY <1>6, <1>7, <1>8, <1>9, <1>10, <1>11, <1>12 DEF IInv
=============================================================================
