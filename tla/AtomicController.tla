-------------------------- MODULE AtomicController --------------------------
(***************************************************************************)
(* hstore's redo log (atomic_controller, persist_atomic) over the values   *)
(* of the table (persist_fixed_string): a put over an existing key, either *)
(* in place or by replacement, and atomic_update; with a power failure     *)
(* between any two stores.                                                 *)
(*                                                                         *)
(* As in HopHash every location exists as the processor sees it and as     *)
(* memory holds it (the p- variables).  persist_atomic spans two cache     *)
(* lines in a pool: mod_key and mod_mapped are on the first (variable mod),*)
(* mod_ctl and mod_size on the second (variable ctl).  Only the second is  *)
(* ever flushed.  Inserting a new key and erasing one are single steps     *)
(* here: HopHash shows that they are atomic and durable.                   *)
(***************************************************************************)
EXTENDS Counting, Sequences

CONSTANTS Key, NoKey,
          Block, NoBlock, \* allocations of the persistent heap
          Lengths,        \* lengths of a value; "small" ones are stored inline
          Val             \* contents of a part of a value

ASSUME NoKeyAssumption == NoKey \notin Key
ASSUME NoBlockAssumption == NoBlock \notin Block
ASSUME LengthsAssumption == "small" \in Lengths
ASSUME KeyAssumption == Countable(Key)

\* A value has two parts, which stores and write-backs may tell apart.
Part == {1, 2}

Value == [Part -> Val]

\* An unused allocation, and the contents of a rep that is out of line.
Junk == <<>>

\* rep: the value itself, or a pointer to it.
Rep == [len : Lengths, blk : Block \cup {NoBlock}, val : Value \cup {Junk}]

Small(v) == [len |-> "small", blk |-> NoBlock, val |-> v]

is_small(r) == r.len = "small"

Large(l, b) == [len |-> l, blk |-> b, val |-> Junk]

\* The slot of a key that is not in the table.
None == [len |-> "none", blk |-> NoBlock, val |-> Junk]

\* What a caller passes: both parts alike, so that a mixture shows.
Argument == {[p \in Part |-> v] : v \in Val}

\* The WRITEs of an atomic_update: the parts each one covers, in order.
Writes == {<<{1}>>, <<{2}, {1}>>}

VARIABLES tab, ptab,   \* the mapped reps in the buckets
          data, pdata, \* the contents of the heap's allocations
          ref,         \* fixed_string::_ref_count; 0 for a free allocation
          mod, pmod,   \* persist_atomic: mod_key, mod_mapped
          ctl, pctl,   \* persist_atomic: mod_ctl, mod_size
          pc, op,
          lost,        \* a crash has found mod_size set and mod not in memory
          hist         \* contents before and after the last call

vars == <<tab, ptab, data, pdata, ref, mod, pmod, ctl, pctl, pc, op, lost, hist>>

Idle == [size |-> 0, ops |-> <<>>]

NoOp == [key |-> NoKey, ops |-> <<>>, len |-> "small", val |-> Junk, i |-> 0]

\* What get() returns for each key.
Contents(t, d) ==
  [k \in Key |-> <<t[k].len, IF t[k].blk = NoBlock THEN t[k].val ELSE d[t[k].blk]>>]

Refers(r, b) == r.blk = b

\* References to b, as reconstitute counts them: from the table, then from
\* mod_mapped.
References(b) ==
  Cardinality({k \in Key : Refers(tab[k], b)}) + (IF Refers(mod.mapped, b) THEN 1 ELSE 0)

\* dec_ref by the assignment of or the destruction of r, inc_ref by copying r.
Release(cnt, r) == IF is_small(r) \/ r.blk = NoBlock THEN cnt ELSE [cnt EXCEPT ![r.blk] = @ - 1]

\* Mutant: the assignment shares the string without inc_ref.
RetainUncounted(cnt, r) == cnt

Retain(cnt, r) == IF is_small(r) \/ r.blk = NoBlock THEN cnt ELSE [cnt EXCEPT ![r.blk] = @ + 1]

\* A rep of which a store of half its bytes has left a pointer that is none.
Torn == [len |-> "torn", blk |-> NoBlock, val |-> Junk]

\* Contents that nothing refers to, in either view, are forgotten.
Forget(d, cnt, t, m) ==
  [b \in Block |->
     IF cnt[b] = 0 /\ ~Refers(m.mapped, b) /\ ~\E k \in Key : Refers(t[k], b) THEN Junk ELSE d[b]]

Init ==
  /\ tab = [k \in Key |-> None] /\ ptab = tab
  /\ data = [b \in Block |-> Junk] /\ pdata = data
  /\ ref = [b \in Block |-> 0]
  /\ \E v \in Argument : mod = [key |-> NoKey, mapped |-> Small(v)]
  /\ pmod = mod
  /\ ctl = Idle /\ pctl = ctl
  /\ pc = "idle" /\ op = NoOp
  /\ lost = FALSE
  /\ hist = [before |-> Contents(tab, data), after |-> Contents(tab, data)]

-----------------------------------------------------------------------------
\* hstore::put of a key that is not there (session::insert), and erase.

\* The allocation of r, its contents flushed.
Reserve(r, v, cnt) ==
  LET written(d) == IF is_small(r) THEN d ELSE [d EXCEPT ![r.blk] = v]
  IN /\ ref' = IF is_small(r) THEN cnt ELSE [cnt EXCEPT ![r.blk] = 1]
     /\ data' = Forget(written(data), ref', ptab, pmod)
     /\ pdata' = Forget(written(pdata), ref', ptab, pmod)

\* The reps that rep(first, last, al) can construct.
Reps(l, v) == IF l = "small" THEN {Small(v)} ELSE {Large(l, b) : b \in {c \in Block : ref[c] = 0}}

Insert(k, l, v) ==
  /\ pc = "idle"
  /\ tab[k] = None
  /\ \E r \in Reps(l, v) :
       /\ Reserve(r, v, ref)
       /\ tab' = [tab EXCEPT ![k] = r]
       /\ ptab' = [ptab EXCEPT ![k] = r]
  /\ hist' = [before |-> Contents(tab', data'), after |-> Contents(tab', data')]
  /\ UNCHANGED <<mod, pmod, ctl, pctl, pc, op, lost>>

Erase(k) ==
  /\ pc = "idle"
  /\ tab[k] # None
  /\ tab' = [tab EXCEPT ![k] = None]
  /\ ptab' = [ptab EXCEPT ![k] = None]
  /\ ref' = Release(ref, tab[k])
  /\ data' = Forget(data, ref', tab', pmod)
  /\ pdata' = Forget(pdata, ref', tab', pmod)
  /\ hist' = [before |-> Contents(tab', data'), after |-> Contents(tab', data')]
  /\ UNCHANGED <<mod, pmod, ctl, pctl, pc, op, lost>>

-----------------------------------------------------------------------------
\* put of a key that is there: update_by_issue_41 replaces the value if the
\* length differs, else updates it in place; and atomic_update.

Begin(k, ops, l, v, after) ==
  /\ pc = "idle"
  /\ pc' = "enter"
  /\ op' = [key |-> k, ops |-> ops, len |-> l, val |-> v, i |-> 0]
  /\ hist' = [before |-> Contents(tab, data), after |-> [Contents(tab, data) EXCEPT ![k] = after]]
  /\ UNCHANGED <<tab, ptab, data, pdata, ref, mod, pmod, ctl, pctl, lost>>

PutReplace(k, l, v) ==
  /\ tab[k] # None /\ tab[k].len # l
  /\ Begin(k, <<>>, l, v, <<l, v>>)

PutInPlace(k, v) ==
  /\ tab[k] # None
  /\ Begin(k, <<Part>>, tab[k].len, v, <<tab[k].len, v>>)

\* The data of all the WRITEs together has a length of its own.
AtomicUpdate(k, ops, l, v) ==
  LET old == Contents(tab, data)[k]
      written == UNION {ops[i] : i \in DOMAIN ops}
  IN Begin(k, ops, l, v,
           IF tab[k] = None THEN old
           ELSE <<old[1], [p \in Part |-> IF p \in written THEN v[p] ELSE old[2][p]]>>)

\* Mutant: mod_size is stored before mod_mapped.
EnterKeyAndSize ==
  /\ pc = "enter"
  /\ mod' = [mod EXCEPT !.key = op.key]
  /\ ctl' = [size |-> IF op.ops = <<>> THEN -1 ELSE Len(op.ops), ops |-> op.ops]
  /\ pc' = "enter_mapped"
  /\ UNCHANGED <<tab, ptab, data, pdata, ref, pmod, pctl, op, lost, hist>>

\* enter_replace, enter_update: the store of mod_key ...
EnterKey ==
  /\ pc = "enter"
  /\ mod' = [mod EXCEPT !.key = op.key]
  /\ pc' = "enter_mapped"
  /\ UNCHANGED <<tab, ptab, data, pdata, ref, pmod, ctl, pctl, op, lost, hist>>

\* ... then the data, allocated and flushed if it is large, moved into
\* mod_mapped, which drops what it referred to.  Here too a small rep goes over
\* a large one by two stores ...
EnterMapped ==
  /\ pc = "enter_mapped"
  /\ \E r \in Reps(op.len, op.val) :
       LET twice == ~is_small(mod.mapped) /\ is_small(r)
       IN /\ mod' = [mod EXCEPT !.mapped = IF twice THEN Torn ELSE r]
          /\ Reserve(r, op.val, Release(ref, mod.mapped))
          /\ pc' = IF twice THEN "enter_rest" ELSE "enter_size"
  /\ UNCHANGED <<tab, ptab, pmod, ctl, pctl, op, lost, hist>>

EnterRest ==
  /\ pc = "enter_rest"
  /\ mod' = [mod EXCEPT !.mapped = Small(op.val)]
  /\ pc' = "enter_size"
  /\ UNCHANGED <<tab, ptab, data, pdata, ref, pmod, ctl, pctl, op, lost, hist>>

\* ... unless there is no room (bad_alloc).
EnterNoRoom ==
  /\ pc = "enter_mapped"
  /\ Reps(op.len, op.val) = {}
  /\ pc' = "idle"
  /\ op' = NoOp
  /\ hist' = [hist EXCEPT !.after = hist.before]
  /\ UNCHANGED <<tab, ptab, data, pdata, ref, mod, pmod, ctl, pctl, lost>>

\* ... or none for mod_ctl, when mod_mapped has its new value already.
EnterNoControl ==
  /\ pc = "enter_size"
  /\ op.ops # <<>>
  /\ pc' = "idle"
  /\ op' = NoOp
  /\ hist' = [hist EXCEPT !.after = hist.before]
  /\ UNCHANGED <<tab, ptab, data, pdata, ref, mod, pmod, ctl, pctl, lost>>

\* Mutant: one WRITE too many.
EnterSizePastEnd ==
  /\ pc = "enter_size"
  /\ ctl' = [size |-> IF op.ops = <<>> THEN -1 ELSE Len(op.ops) + 1, ops |-> op.ops]
  /\ pc' = "redo"
  /\ UNCHANGED <<tab, ptab, data, pdata, ref, mod, pmod, pctl, op, lost, hist>>

\* ... and mod_ctl and mod_size, whose flush comes before the first store of
\* redo().  mod_ctl is on mod_size's line and is read only when that is set.
EnterSize ==
  /\ pc = "enter_size"
  /\ ctl' = [size |-> IF op.ops = <<>> THEN -1 ELSE Len(op.ops), ops |-> op.ops]
  /\ pc' = "redo"
  /\ UNCHANGED <<tab, ptab, data, pdata, ref, mod, pmod, pctl, op, lost, hist>>

-----------------------------------------------------------------------------
\* redo(), for a call and, after a crash, from the constructor.  Its first
\* store comes after the flush of mod_size.

\* _map->at(mod_key) does not throw.
Found == mod.key \in Key /\ tab[mod.key] # None

\* redo_replace: at() throws if there is no such key, and nothing catches that
\* on the way out of open_pool.
RedoNoSuchKey ==
  /\ pc = "redo"
  /\ ctl.size < 0
  /\ ~Found
  /\ pctl' = ctl
  /\ pc' = "failed"
  /\ UNCHANGED <<tab, ptab, data, pdata, ref, mod, pmod, ctl, op, lost, hist>>

\* redo_replace: rep::operator=.  A small rep is copied over a large one by
\* two stores, the first over the pointer, the second over the discriminant.
\* The other assignments take several stores as well; what they leave half done
\* can be read, and the redo, or the next call, overwrites it.
RedoReplace ==
  /\ pc = "redo"
  /\ ctl.size < 0
  /\ Found
  /\ pctl' = ctl
  /\ LET old == tab[mod.key]
         twice == ~is_small(old) /\ is_small(mod.mapped)
     IN /\ ref' = Retain(Release(ref, old), mod.mapped)
        /\ tab' = [tab EXCEPT ![mod.key] = IF twice THEN Torn ELSE mod.mapped]
        /\ pc' = IF twice THEN "assign" ELSE "replaced"
  /\ data' = Forget(data, ref', ptab, pmod)
  /\ pdata' = Forget(pdata, ref', ptab, pmod)
  /\ UNCHANGED <<ptab, mod, pmod, ctl, op, lost, hist>>

AssignRest ==
  /\ pc = "assign"
  /\ tab' = [tab EXCEPT ![mod.key] = mod.mapped]
  /\ pc' = "replaced"
  /\ UNCHANGED <<ptab, data, pdata, ref, mod, pmod, ctl, pctl, op, lost, hist>>

\* Mutant: the new rep is not flushed.
RedoReplaceUnflushed ==
  /\ pc = "replaced"
  /\ ctl' = Idle
  /\ pc' = "finish"
  /\ UNCHANGED <<tab, ptab, data, pdata, ref, mod, pmod, pctl, op, lost, hist>>

\* Mutant: mod_size is not reset.
RedoReplaceNoReset ==
  /\ pc = "replaced"
  /\ ptab' = [ptab EXCEPT ![mod.key] = tab[mod.key]]
  /\ data' = Forget(data, ref, ptab', pmod)
  /\ pdata' = Forget(pdata, ref, ptab', pmod)
  /\ pc' = "finish"
  /\ UNCHANGED <<tab, ref, mod, pmod, ctl, pctl, op, lost, hist>>

\* The new rep is flushed; redo_finish.
RedoReplaceFinish ==
  /\ pc = "replaced"
  /\ ptab' = [ptab EXCEPT ![mod.key] = tab[mod.key]]
  /\ data' = Forget(data, ref, ptab', pmod)
  /\ pdata' = Forget(pdata, ref, ptab', pmod)
  /\ ctl' = Idle
  /\ pc' = "finish"
  /\ UNCHANGED <<tab, ref, mod, pmod, pctl, op, lost, hist>>

\* redo_update: the flush of the range that the previous WRITE stored,
\* then the copy of the next one.
Source == IF is_small(mod.mapped) THEN mod.mapped.val ELSE data[mod.mapped.blk]

Overlay(v, ps, w) == [p \in Part |-> IF p \in ps THEN w[p] ELSE v[p]]

\* Mutant: the ranges are not flushed.
FlushNothing == UNCHANGED <<ptab, pdata>>

FlushWritten ==
  IF op.i = 0 THEN UNCHANGED <<ptab, pdata>>
  ELSE IF is_small(tab[mod.key])
       THEN ptab' = [ptab EXCEPT ![mod.key] = tab[mod.key]] /\ UNCHANGED pdata
       ELSE LET b == tab[mod.key].blk
            IN /\ pdata' = [pdata EXCEPT ![b] = Overlay(@, ctl.ops[op.i], data[b])]
               /\ UNCHANGED ptab

RedoUpdate ==
  /\ pc = "redo"
  /\ 0 < ctl.size /\ Found /\ op.i < ctl.size
  /\ pctl' = ctl
  /\ FlushWritten
  /\ LET ps == ctl.ops[op.i + 1]
         b == tab[mod.key].blk
     IN IF is_small(tab[mod.key])
        THEN tab' = [tab EXCEPT ![mod.key].val = Overlay(@, ps, Source)] /\ UNCHANGED data
        ELSE data' = [data EXCEPT ![b] = Overlay(@, ps, Source)] /\ UNCHANGED tab
  /\ op' = [op EXCEPT !.i = @ + 1]
  /\ UNCHANGED <<ref, mod, pmod, ctl, pc, lost, hist>>

\* The end of the list, or no such key; redo_finish.
RedoUpdateFinish ==
  /\ pc = "redo"
  /\ 0 < ctl.size /\ (Found => op.i = ctl.size)
  /\ pctl' = ctl
  /\ IF Found THEN FlushWritten ELSE UNCHANGED <<ptab, pdata>>
  /\ ctl' = Idle
  /\ pc' = "finish"
  /\ UNCHANGED <<tab, data, ref, mod, pmod, op, lost, hist>>

\* The flush of the reset mod_size; mod_ctl is freed; the call or open_pool
\* returns.
RedoDone ==
  /\ pc = "finish"
  /\ pctl' = ctl
  /\ pc' = "idle"
  /\ hist' = IF op.key = NoKey THEN hist ELSE [hist EXCEPT !.before = hist.after]
  /\ op' = NoOp
  /\ UNCHANGED <<tab, ptab, data, pdata, ref, mod, pmod, ctl, lost>>

-----------------------------------------------------------------------------
\* The cache writes back a line of its own accord.
Evict ==
  \/ pmod' = mod /\ UNCHANGED <<ptab, pdata, pctl>>
  \/ pctl' = ctl /\ UNCHANGED <<ptab, pdata, pmod>>
  \/ \E k \in Key : ptab' = [ptab EXCEPT ![k] = tab[k]] /\ UNCHANGED <<pdata, pmod, pctl>>
  \/ \E b \in Block, p \in Part :
       /\ data[b] # Junk
       /\ pdata' = [pdata EXCEPT ![b] = Overlay(@, {p}, data[b])]
       /\ UNCHANGED <<ptab, pmod, pctl>>

Writeback == Evict /\ UNCHANGED <<tab, data, ref, mod, ctl, pc, op, lost, hist>>

Crash ==
  /\ tab' = ptab
  /\ mod' = pmod
  /\ ctl' = pctl
  /\ ref' = [b \in Block |-> 0]
  /\ data' = Forget(pdata, ref', ptab, pmod)
  /\ pdata' = data'
  /\ lost' = (lost \/ (pctl.size # 0 /\ pmod # mod))
  /\ pc' = "recover"
  /\ op' = NoOp
  /\ UNCHANGED <<ptab, pmod, pctl, hist>>

\* A crash has cut an assignment in two, in the table or in mod_mapped.
HalfAssigned == mod.mapped = Torn \/ \E k \in Key : tab[k] = Torn

\* Opening the pool: the table's constructor and then that of the controller,
\* which does not look at mod_size before, count the references; a pointer that
\* is none cannot be followed.
Reconstitute ==
  /\ pc = "recover"
  /\ IF HalfAssigned
     THEN pc' = "failed" /\ UNCHANGED ref
     ELSE /\ ref' = [b \in Block |-> References(b)]
          /\ pc' = IF ctl.size = 0 THEN "idle" ELSE "redo"
  /\ UNCHANGED <<tab, ptab, data, pdata, mod, pmod, ctl, pctl, op, lost, hist>>

Call ==
  \/ \E k \in Key, l \in Lengths, v \in Argument : Insert(k, l, v) \/ PutReplace(k, l, v)
  \/ \E k \in Key : Erase(k)
  \/ \E k \in Key, v \in Argument : PutInPlace(k, v)
  \/ \E k \in Key, ops \in Writes, l \in Lengths, v \in Argument : AtomicUpdate(k, ops, l, v)

Step ==
  \/ EnterKey \/ EnterMapped \/ EnterRest \/ EnterNoRoom \/ EnterNoControl \/ EnterSize
  \/ RedoNoSuchKey \/ RedoReplace \/ AssignRest \/ RedoReplaceFinish
  \/ RedoUpdate \/ RedoUpdateFinish \/ RedoDone
  \/ Reconstitute

Next == Call \/ Step \/ Writeback \/ Crash

Spec == Init /\ [][Next]_vars

-----------------------------------------------------------------------------
Slot == Rep \cup {None, Torn}

TypeOK ==
  /\ tab \in [Key -> Slot] /\ ptab \in [Key -> Slot]
  /\ data \in [Block -> Value \cup {Junk}] /\ pdata \in [Block -> Value \cup {Junk}]
  /\ ref \in [Block -> Nat]
  /\ \A m \in {mod, pmod} : m.key \in Key \cup {NoKey} /\ m.mapped \in Rep \cup {Torn}
  /\ \A c \in {ctl, pctl} : c.size \in -1 .. 2 /\ c.ops \in Writes \cup {<<>>, <<Part>>}
  /\ pc \in {"idle", "enter", "enter_mapped", "enter_rest", "enter_size", "redo", "assign",
            "replaced", "finish", "recover", "failed"}
  /\ op.i \in 0 .. 2
  /\ lost \in BOOLEAN

\* fixed_string::_ref_count is the number of reps that point to the string, so
\* that an allocation is freed exactly when the last of them goes.
RefCounts ==
  pc \notin {"recover", "failed"} => \A b \in Block : ref[b] = References(b)

\* The memory of a value that a crash would bring back is never handed out
\* again, nor written by the update of another key.
BlocksApart ==
  ~lost => \A j, k \in Key : j # k =>
             \A b \in Block : ~(Refers(ptab[j], b) /\ (Refers(tab[k], b) \/ Refers(ptab[k], b)))

\* A call that has returned is durable: what memory holds is what the table
\* shows, and a restart has nothing to redo.
ReturnedIsDurable ==
  pc = "idle" => /\ Contents(ptab, pdata) = Contents(tab, data)
                 /\ pctl.size = 0

\* A put over an existing key and an atomic_update happen altogether or not at
\* all, provided that mod_key and mod_mapped have reached memory whenever
\* a crash finds mod_size set.
AllOrNothing ==
  pc = "idle" /\ ~lost => Contents(tab, data) \in {hist.before, hist.after}

\* The redo finds its key, so that the pool can be opened again, after any
\* crash but two kinds, which the code does not exclude: one that found
\* mod_size in memory and not the mod_key and mod_mapped it belongs to, and one
\* that cut the assignment of an inline value over an allocated one in two.
PoolOpens == pc = "failed" => lost \/ HalfAssigned

\* The claim of IKVStore::atomic_update, without the proviso.
AtomicTransaction ==
  pc = "idle" => Contents(tab, data) \in {hist.before, hist.after}

\* redo_replace relies on operator= "being restartable after a crash": the rep
\* that a crash has left is one from which the pool can be opened, when the
\* log that says what to assign is in memory.
AssignmentRestartable == pc = "recover" /\ ~lost => \A k \in Key : tab[k] # Torn

=============================================================================
