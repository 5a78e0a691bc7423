----------------------- MODULE AtomicControllerProofs -----------------------
(***************************************************************************)
(* The steps of redo() and the write-backs of values keep the invariant of *)
(* AtomicStepProofs too; the properties of AtomicController follow, for    *)
(* any keys, allocations, lengths and contents.                            *)
(***************************************************************************)
EXTENDS AtomicStepProofs

-----------------------------------------------------------------------------
\* Steps of redo_replace.

\* Counts that are numbers of references are natural numbers.
LEMMA CountsNat ==
  ASSUME NEW S, ref' \in [Block -> S], \A b \in Block : ref'[b] = References(b)'
  PROVE  ref' \in [Block -> Nat]
<1>1. ASSUME NEW b \in Block PROVE References(b)' \in Nat
  <2>1. References(b)' = RefsIn(tab', b) + Holds(mod'.mapped, b)
    BY DEF References, RefsIn, Holds
  <2>2. PICK u : u = tab'
    OBVIOUS
  <2>3. RefsIn(u, b) \in Nat
    BY RefsFinite
  <2>4. Holds(mod'.mapped, b) \in {0, 1}
    BY DEF Holds
  <2> QED BY <2>1, <2>2, <2>3, <2>4
<1> QED BY <1>1

\* What is referred to now is counted now.
LEMMA Counted ==
  ASSUME \A b \in Block : ref'[b] = References(b)', NEW b \in Block,
         Refers(mod'.mapped, b) \/ \E k \in Key : Refers(tab'[k], b)
  PROVE  ref'[b] # 0
<1>1. References(b)' = RefsIn(tab', b) + Holds(mod'.mapped, b)
  BY DEF References, RefsIn, Holds
<1>2. PICK u : u = tab'
  OBVIOUS
<1>3. RefsIn(u, b) \in Nat /\ (RefsIn(u, b) = 0 <=> \A k \in Key : ~Refers(u[k], b))
  BY RefsFinite
<1>4. Holds(mod'.mapped, b) = IF Refers(mod'.mapped, b) THEN 1 ELSE 0
  BY DEF Holds
<1> QED BY <1>1, <1>2, <1>3, <1>4

\* rep::operator= keeps the invariant: what it drops memory may still refer
\* to, and what it shares is the log's.
LEMMA RedoReplaceInv ==
  ASSUME IInv, RedoReplace
  PROVE  IInv'
<1> DEFINE k == mod.key
           old == tab[k]
           twice == ~is_small(old) /\ is_small(mod.mapped)
<1>1. /\ pc = "redo" /\ ctl.size < 0 /\ Found /\ pctl' = ctl
      /\ ref' = Retain(Release(ref, old), mod.mapped)
      /\ tab' = [tab EXCEPT ![k] = IF twice THEN Torn ELSE mod.mapped]
      /\ pc' = IF twice THEN "assign" ELSE "replaced"
      /\ data' = Forget(data, ref', ptab, pmod) /\ pdata' = Forget(pdata, ref', ptab, pmod)
      /\ UNCHANGED <<ptab, mod, pmod, ctl, op, lost, hist>>
  BY DEF RedoReplace
<1>2. Shape /\ Control /\ Clean /\ RefCounts /\ Kept /\ History
  BY DEF IInv
<1>3. k \in Key /\ old # None /\ old # Torn /\ old \in Proper /\ mod.mapped \in Proper
  BY <1>1, <1>2 DEF Found, Control, Shape, Slots
<1>4. tab = ptab /\ data = pdata
  <2>1. ~Busy
    BY <1>1, <1>2 DEF Busy, Control, Shape
  <2> QED BY <1>1, <1>2, <2>1, Still
<1>5. /\ tab \in [Key -> Slots] /\ tab'[k] = IF twice THEN Torn ELSE mod.mapped
      /\ \A j \in Key \ {k} : tab'[j] = tab[j]
  BY <1>1, <1>2, <1>3 DEF Shape
<1>6. ref' = [b \in Block |-> ref[b] - Holds(old, b) + Holds(mod.mapped, b)]
  <2>1. ref \in [Block -> Int] /\ old \in Slots /\ mod.mapped \in Slots
    BY <1>2, <1>3 DEF Shape, Slots
  <2>2. Release(ref, old) = [b \in Block |-> ref[b] - Holds(old, b)]
    BY <2>1, Recounted
  <2>3. \A b \in Block : Holds(old, b) \in Int /\ ref[b] \in Int
    BY <2>1 DEF Holds
  <2>4. PICK cnt \in [Block -> Int] : cnt = Release(ref, old) /\ \A b \in Block : cnt[b] = ref[b] - Holds(old, b)
    BY <2>2, <2>3
  <2>5. Retain(cnt, mod.mapped) = [b \in Block |-> cnt[b] + Holds(mod.mapped, b)]
    BY <2>1, Recounted
  <2> HIDE DEF old, twice, k
  <2> QED BY <1>1, <2>4, <2>5
<1>7. \A b \in Block : Holds(tab'[k], b) = Holds(mod.mapped, b)
  <2>1. CASE twice
    BY <1>3, <1>5, <2>1, Forms DEF Holds, Refers
  <2>2. CASE ~twice
    BY <1>5, <2>2
  <2> QED BY <2>1, <2>2
<1>8. \A b \in Block : ref'[b] = References(b)'
  <2> SUFFICES ASSUME NEW b \in Block PROVE ref'[b] = References(b)'
    OBVIOUS
  <2>1. References(b)' = RefsIn(tab', b) + Holds(mod.mapped, b)
    BY <1>1 DEF References, RefsIn, Holds
  <2>2. RefsIn(tab', b) = RefsIn(tab, b) - Holds(old, b) + Holds(mod.mapped, b)
    <3>1. PICK r : r = tab'[k]
      OBVIOUS
    <3>2. RefsIn(tab', b) = RefsIn(tab, b) - Holds(old, b) + Holds(r, b)
      BY <1>3, <1>5, <3>1, TabStore
    <3> QED BY <1>7, <3>1, <3>2
  <2>3. RefsIn(tab, b) \in Nat /\ Holds(mod.mapped, b) \in {0, 1} /\ Holds(old, b) \in {0, 1}
    BY RefsFinite DEF Holds
  <2>4. ref[b] = RefsIn(tab, b) + Holds(mod.mapped, b)
    BY <1>1, <1>2, Sum DEF RefCounts
  <2>5. ref'[b] = ref[b] - Holds(old, b) + Holds(mod.mapped, b)
    BY <1>6
  <2> HIDE DEF old
  <2> QED BY <2>1, <2>2, <2>3, <2>4, <2>5
<1>9. ref' \in [Block -> Nat]
  <2>1. \A b \in Block : ref[b] - Holds(old, b) + Holds(mod.mapped, b) \in Int
    <3>1. \A b \in Block : Holds(mod.mapped, b) \in Int /\ Holds(old, b) \in Int /\ ref[b] \in Int
      BY <1>2 DEF Holds, Shape
    <3> QED BY <3>1
  <2>2. ref' \in [Block -> Int]
    BY <1>6, <2>1
  <2> QED BY <1>8, <2>2, CountsNat
<1>10. data' \in [Block -> Value \cup {Junk}] /\ data' = pdata'
  <2>1. data \in [Block -> Value \cup {Junk}]
    BY <1>2 DEF Shape
  <2> QED BY <1>1, <1>4, <2>1 DEF Forget
<1>11. \A b \in Block : ref'[b] # 0 \/ (\E j \in Key : Refers(ptab[j], b)) \/ Refers(pmod.mapped, b)
                        => pdata'[b] = pdata[b]
  BY <1>1 DEF Forget
<1>12. Shape'
  BY ZenonT(30), <1>1, <1>2, <1>3, <1>9, <1>10 DEF Shape, Redoing, Slots
<1>13. Control'
  <2>1. \A j \in Key : tab'[j] = Torn => twice /\ j = k
    BY <1>1, <1>2, <1>3, <1>5, Forms DEF Control
  <2> QED BY ZenonT(30), <1>1, <1>2, <1>3, <1>5, <2>1 DEF Control, Entering, Redoing
<1>14. Clean'
  BY <1>1, <1>4, <1>5, <1>10 DEF Clean
<1>15. RefCounts'
  BY <1>8 DEF RefCounts
<1>16. Kept'
  <2> SUFFICES ASSUME NEW b \in Block, Live(b)' PROVE pdata'[b] # Junk
    BY <1>10 DEF Kept
  <2>1. Live(b)
    <3>1. Refers(tab'[k], b) => Refers(mod.mapped, b)
      BY <1>7 DEF Holds
    <3> QED BY <1>1, <1>3, <1>5, <3>1 DEF Live
  <2>2. pdata[b] # Junk
    BY <1>2, <2>1 DEF Kept
  <2>3. ref'[b] # 0 \/ (\E j \in Key : Refers(ptab[j], b)) \/ Refers(pmod.mapped, b)
    BY <1>1, <1>8, Counted DEF Live
  <2> QED BY <1>11, <2>2, <2>3
<1>17. History'
  BY <1>1, <1>2 DEF History
<1>18. ASSUME ~lost' PROVE Sound'
  <2>1. Sound /\ Pending(ctl)
    BY <1>1, <1>18 DEF IInv, Sound, Redoing
  <2>2. Apart'
    BY <1>1, <2>1 DEF Sound, Apart
  <2>3. PICK c : c = ctl
    OBVIOUS
  <2>4. Pending(c)'
    <3>1. Pending(c) /\ mod' = mod /\ hist' = hist /\ ptab' = ptab
      BY <1>1, <2>1, <2>3
    <3>2. \A j \in Key : \A b \in Block : Refers(ptab[j], b) => pdata'[b] = pdata[b]
      BY <1>11
    <3>3. \A b \in Block : Refers(mod.mapped, b) => pdata'[b] = pdata[b]
      BY <1>1, <1>8, <1>11, Counted
    <3> QED BY <1>2, <3>1, <3>2, <3>3, PendingSame
  <2>5. Pending(ctl)' /\ Pending(pctl)'
    BY <1>1, <2>3, <2>4, PendingNamed
  <2>6. Recoverable'
    BY <1>1, <2>5 DEF Recoverable
  <2> QED BY <1>1, <2>2, <2>5, <2>6 DEF Sound, Busy, Entering
<1> QED BY <1>12, <1>13, <1>14, <1>15, <1>16, <1>17, <1>18 DEF IInv

\* The second store of the assignment completes the rep.
LEMMA AssignRestInv ==
  ASSUME IInv, AssignRest
  PROVE  IInv'
<1> DEFINE k == mod.key
<1>1. /\ pc = "assign" /\ pc' = "replaced" /\ tab' = [tab EXCEPT ![k] = mod.mapped]
      /\ UNCHANGED <<ptab, data, pdata, ref, mod, pmod, ctl, pctl, op, lost, hist>>
  BY DEF AssignRest
<1>2. Shape /\ Control /\ Clean /\ RefCounts /\ Kept /\ History
  BY DEF IInv
<1>3. /\ k \in Key /\ tab[k] = Torn /\ is_small(mod.mapped) /\ mod.mapped \in Proper
      /\ ctl.size < 0 /\ pctl = ctl
  BY <1>1, <1>2 DEF Control, Shape
<1>4. tab'[k] = mod.mapped /\ \A j \in Key \ {k} : tab'[j] = tab[j]
  BY <1>1, <1>2, <1>3 DEF Shape
<1>5. \A j \in Key : \A b \in Block : Refers(tab'[j], b) <=> Refers(tab[j], b)
  <2>1. \A b \in Block : ~Refers(mod.mapped, b) /\ ~Refers(Torn, b)
    BY <1>3, Forms DEF Refers
  <2> QED BY <1>3, <1>4, <2>1
<1>6. Shape'
  BY <1>1, <1>2, <1>3 DEF Shape, Redoing, Slots
<1>7. Control'
  <2>1. \A j \in Key : tab'[j] # Torn
    BY <1>1, <1>2, <1>3, <1>4, Forms DEF Control
  <2> QED BY <1>1, <1>2, <1>3, <1>4, <2>1 DEF Control, Entering, Redoing
<1>8. Clean'
  BY <1>1, <1>2, <1>4 DEF Clean, Busy
<1>9. RefCounts'
  <2>1. ASSUME NEW b \in Block PROVE References(b)' = References(b)
    <3>1. {j \in Key : Refers(tab'[j], b)} = {j \in Key : Refers(tab[j], b)}
      BY <1>5
    <3> QED BY <1>1, <3>1 DEF References
  <2> QED BY <1>1, <1>2, <2>1 DEF RefCounts
<1>10. Kept'
  <2>1. \A b \in Block : Live(b)' => Live(b)
    BY <1>1, <1>5 DEF Live
  <2> QED BY <1>1, <1>2, <2>1 DEF Kept
<1>11. History'
  BY <1>1, <1>2 DEF History
<1>12. ASSUME ~lost' PROVE Sound'
  <2>1. Sound
    BY <1>1, <1>12 DEF IInv
  <2>2. /\ Contents(ptab, pdata)' = Contents(ptab, pdata) /\ Apart' = Apart /\ Logged' = Logged
        /\ \A j : Unused(j)' = Unused(j)
        /\ \A j, ops, l, v : Outcome(j, ops, l, v)' = Outcome(j, ops, l, v)
    BY ZenonT(30), <1>1 DEF Apart, Logged, Unused, Outcome, Stored
  <2>3. Recoverable'
    BY <1>1, <2>1, <2>2 DEF Sound, Recoverable, Pending
  <2>4. Pending(ctl)'
    BY <1>1, <2>1, <2>2 DEF Sound, Pending, Redoing
  <2> QED BY <1>1, <2>1, <2>2, <2>3, <2>4 DEF Sound, Busy, Entering
<1> QED BY <1>6, <1>7, <1>8, <1>9, <1>10, <1>11, <1>12 DEF IInv

\* Memory returns for every key what was promised.
LEMMA Fulfilled ==
  ASSUME History', NEW k \in Key, Contents(ptab, pdata)'[k] = hist'.after[k],
         \A j \in Key \ {k} : Contents(ptab, pdata)'[j] = hist'.after[j]
  PROVE  Contents(ptab, pdata)' = hist'.after
<1>1. \A j \in Key : Contents(ptab, pdata)'[j] = hist'.after[j]
  OBVIOUS
<1>2. Contents(ptab, pdata)' = [j \in Key |-> Contents(ptab, pdata)'[j]]
  BY DEF Contents
<1>3. hist'.after = [j \in Key |-> hist'.after[j]]
  BY DEF History
<1>4. PICK f, g : f = Contents(ptab, pdata)' /\ g = hist'.after
  OBVIOUS
<1> QED BY <1>1, <1>2, <1>3, <1>4

\* The flush of the new rep: memory has what was promised, whether or not the
\* log is still set there.
LEMMA RedoReplaceFinishInv ==
  ASSUME IInv, RedoReplaceFinish
  PROVE  IInv'
<1> DEFINE k == mod.key
<1>1. /\ pc = "replaced" /\ pc' = "finish" /\ ctl' = Idle /\ ptab' = [ptab EXCEPT ![k] = tab[k]]
      /\ data' = Forget(data, ref, ptab', pmod) /\ pdata' = Forget(pdata, ref, ptab', pmod)
      /\ UNCHANGED <<tab, ref, mod, pmod, pctl, op, lost, hist>>
  BY DEF RedoReplaceFinish
<1>2. Shape /\ Control /\ Clean /\ RefCounts /\ Kept /\ History
  BY DEF IInv
<1>3. /\ k \in Key /\ tab[k] = mod.mapped /\ mod.mapped \in Proper /\ ctl.size < 0 /\ pctl = ctl
      /\ ctl.ops \in OpLists /\ ctl.size = SizeOf(ctl.ops)
  BY <1>1, <1>2 DEF Control, Redoing, Shape
<1>4. ptab'[k] = mod.mapped /\ \A j \in Key \ {k} : ptab'[j] = ptab[j] /\ tab[j] = ptab[j]
  BY <1>1, <1>2, <1>3 DEF Shape, Clean, Busy
<1>5. tab' = ptab'
  <2>1. \A j \in Key : tab[j] = ptab'[j]
    BY <1>3, <1>4
  <2>2. tab \in [Key -> Slots] /\ ptab' \in [Key -> Slots]
    BY ZenonT(30), <1>1, <1>2 DEF Shape
  <2> QED BY <1>1, <2>1, <2>2
<1>6. data' = pdata' /\ data' \in [Block -> Value \cup {Junk}]
  <2>1. data \in [Block -> Value \cup {Junk}] /\ pdata \in [Block -> Value \cup {Junk}]
    BY <1>2 DEF Shape
  <2>2. \A b \in Block : data[b] = pdata[b]
    BY <1>1, <1>2 DEF Clean, Busy
  <2>3. data = pdata
    BY <2>1, <2>2
  <2> QED BY <1>1, <2>1, <2>3 DEF Forget
<1>7. \A b \in Block : ref[b] = References(b)
  BY <1>1, <1>2 DEF RefCounts
<1>8. \A b \in Block : \/ Refers(mod.mapped, b) \/ Refers(pmod.mapped, b)
                       \/ \E j \in Key : Refers(ptab'[j], b)
                       => pdata'[b] = pdata[b]
  <2> SUFFICES ASSUME NEW b \in Block,
                      Refers(mod.mapped, b) \/ Refers(pmod.mapped, b) \/ \E j \in Key : Refers(ptab'[j], b)
               PROVE  pdata'[b] = pdata[b]
    OBVIOUS
  <2>1. Refers(mod.mapped, b) => ref[b] # 0
    BY <1>2, <1>7, NoRefs
  <2> QED BY <1>1, <2>1 DEF Forget
<1>9. Shape'
  <2>1. ctl' \in [size : Int, ops : OpLists] /\ ctl'.size = 0
    BY <1>1, Lists DEF Idle
  <2> QED BY ZenonT(30), <1>1, <1>2, <1>3, <1>5, <1>6, <2>1 DEF Shape
<1>10. Control'
  <2>1. ctl'.size = 0
    BY <1>1 DEF Idle
  <2>2. mod.mapped # Torn /\ \A j \in Key : tab[j] # Torn
    BY <1>1, <1>2 DEF Control
  <2> QED BY <1>1, <2>1, <2>2 DEF Control, Entering, Redoing
<1>11. Clean'
  BY ZenonT(30), <1>5, <1>6 DEF Clean
<1>12. RefCounts'
  <2>1. \A b : References(b)' = References(b)
    BY <1>1 DEF References
  <2> QED BY ZenonT(30), <1>1, <1>7, <2>1 DEF RefCounts
<1>13. Kept'
  <2> SUFFICES ASSUME NEW b \in Block, Live(b)' PROVE pdata'[b] # Junk
    BY <1>6 DEF Kept
  <2>1. Refers(mod.mapped, b) \/ Refers(pmod.mapped, b) \/ \E j \in Key : Refers(ptab'[j], b)
    BY <1>1, <1>5 DEF Live
  <2>2. Live(b)
    BY <1>3, <1>4, <2>1 DEF Live
  <2> QED BY <1>2, <1>8, <2>1, <2>2 DEF Kept
<1>14. History'
  BY <1>1, <1>2 DEF History
<1>15. ASSUME ~lost' PROVE Sound'
  <2>1. Sound /\ Pending(ctl)
    BY <1>1, <1>15 DEF IInv, Sound, Redoing
  <2>2. Apart'
    <3>1. \A j \in Key \ {k} : Unused(j)
      BY <2>1 DEF Pending
    <3> QED BY <1>4, <2>1, <3>1 DEF Sound, Apart, Unused
  <2>3. PICK c : c = ctl
    OBVIOUS
  <2>4. c.ops = <<>>
    BY <1>3, <2>3, Sizes
  <2>5. mod.mapped # None
    BY ZenonT(30), <1>3, Forms
  <2>6. Pending(c)'
    <3>1. Pending(c) /\ mod' = mod /\ hist' = hist
      BY ZenonT(30), <1>1, <2>1, <2>3
    <3>2. \A j \in Key \ {k} : ptab'[j] = ptab[j]
      BY <1>4
    <3>3. \A j \in Key \ {k} : \A b \in Block : Refers(ptab[j], b) => pdata'[b] = pdata[b]
      BY <1>4, <1>8
    <3>4. \A b \in Block : Refers(mod.mapped, b) => pdata'[b] = pdata[b]
      BY <1>8
    <3> QED BY ZenonT(30), <1>2, <1>4, <2>4, <2>5, <3>1, <3>2, <3>3, <3>4, PendingKept
  <2>7. Pending(pctl)'
    BY <1>1, <1>3, <2>3, <2>6, PendingNamed
  <2>8. Recoverable'
    BY <1>1, <1>3, <2>7 DEF Recoverable
  <2>9. Contents(ptab, pdata)'[k] = hist'.after[k]
    <3>1. hist'.after[k] = <<mod.mapped.len, Logged'>>
      BY <1>1, <2>4, <2>6 DEF Pending, Outcome
    <3>2. Contents(ptab, pdata)'[k] = <<mod.mapped.len, Stored(ptab', pdata', k)>>
      <4>1. PICK t, d : t = ptab' /\ d = pdata'
        OBVIOUS
      <4>2. Contents(t, d)[k] = <<t[k].len, Stored(t, d, k)>>
        BY <1>3, ContentsAt
      <4> QED BY <1>4, <4>1, <4>2
    <3>3. Stored(ptab', pdata', k) = Logged'
      <4>1. Stored(ptab', pdata', k) = IF mod.mapped.blk = NoBlock THEN mod.mapped.val ELSE pdata'[mod.mapped.blk]
        BY <1>4 DEF Stored
      <4>2. Logged' = IF is_small(mod.mapped) THEN mod.mapped.val ELSE pdata'[mod.mapped.blk]
        BY <1>1 DEF Logged
      <4>3. is_small(mod.mapped) <=> mod.mapped.blk = NoBlock
        BY ZenonT(30), <1>3, Forms
      <4> QED BY <4>1, <4>2, <4>3
    <3> QED BY ZenonT(30), <3>1, <3>2, <3>3
  <2>10. \A j \in Key \ {k} : Contents(ptab, pdata)'[j] = hist'.after[j]
    BY ZenonT(30), <1>1, <2>6 DEF Pending
  <2>11. Contents(ptab, pdata)' = hist'.after
    BY <1>3, <1>14, <2>9, <2>10, Fulfilled
  <2> QED BY <1>1, <2>2, <2>8, <2>11 DEF Sound, Busy, Entering, Redoing
<1> QED BY <1>9, <1>10, <1>11, <1>12, <1>13, <1>14, <1>15 DEF IInv

-----------------------------------------------------------------------------
\* Steps of redo_update.

\* What redo_update is at: a value that is there, in both views the same but
\* for the parts that the WRITEs cover.
LEMMA Updating ==
  ASSUME IInv, pc = "redo", Found, ctl.size > 0, NEW k, k = mod.key
  PROVE  /\ k \in Key /\ tab[k] \in Proper /\ ptab[k] \in Proper
         /\ ctl.ops \in OpLists /\ ctl.ops # <<>> /\ ctl.size = Len(ctl.ops)
         /\ tab[k].blk = ptab[k].blk /\ tab[k].len = ptab[k].len
         /\ \A j \in Key \ {k} : tab[j] = ptab[j]
         /\ \A b \in Block : b # tab[k].blk => data[b] = pdata[b]
         /\ Stored(tab, data, k) \in Value /\ Stored(ptab, pdata, k) \in Value
         /\ op.i > 0 => /\ op.i \in 1 .. Len(ctl.ops)
                        /\ SameBut(Stored(tab, data, k), Stored(ptab, pdata, k), ctl.ops[op.i])
         /\ op.i = 0 => Stored(tab, data, k) = Stored(ptab, pdata, k)
<1>1. Shape /\ Control /\ Clean /\ Kept
  BY DEF IInv
<1>2. k \in Key /\ tab[k] # None /\ tab[k] # Torn /\ tab[k] \in Proper
  BY <1>1 DEF Found, Control, Shape, Slots
<1>3. ctl.ops \in OpLists /\ ctl.size = SizeOf(ctl.ops) /\ op.i \in 0 .. 2
  BY <1>1 DEF Shape
<1>4. ctl.ops # <<>> /\ ctl.size = Len(ctl.ops)
  BY <1>3, Sizes
<1>5. \/ tab[k] = ptab[k]
      \/ /\ op.i > 0 /\ is_small(tab[k]) /\ is_small(ptab[k])
         /\ SameBut(tab[k].val, ptab[k].val, ctl.ops[op.i])
  BY <1>1, <1>2 DEF Clean, Busy
<1>6. ptab[k] \in Proper
  <2>1. ptab[k] \in Slots
    BY <1>1, <1>2 DEF Shape
  <2> QED BY <1>2, <1>5, <2>1, Forms DEF Slots
<1>7. tab[k].blk = ptab[k].blk /\ tab[k].len = ptab[k].len
  BY ZenonT(30), <1>2, <1>5, <1>6, Forms DEF is_small
<1>8. \A j \in Key \ {k} : tab[j] = ptab[j]
  BY <1>1 DEF Clean
<1>9. \A b \in Block : b # tab[k].blk => data[b] = pdata[b]
  BY <1>1 DEF Clean
<1>10. op.i > 0 => op.i \in 1 .. Len(ctl.ops)
  BY <1>1, <1>3, <1>4 DEF Control
<1>11. CASE is_small(tab[k])
  <2>1. is_small(ptab[k])
    BY ZenonT(30), <1>7, <1>11 DEF is_small
  <2>2. Stored(tab, data, k) = tab[k].val /\ Stored(ptab, pdata, k) = ptab[k].val
    BY <1>2, <1>6, <1>11, <2>1, Forms DEF Stored
  <2>3. tab[k].val \in Value /\ ptab[k].val \in Value
    BY <1>2, <1>6, <1>11, <2>1, Forms
  <2>4. op.i > 0 => SameBut(tab[k].val, ptab[k].val, ctl.ops[op.i])
    BY <1>5 DEF SameBut
  <2>5. op.i = 0 => tab[k].val = ptab[k].val
    BY <1>5
  <2> QED BY <1>2, <1>3, <1>4, <1>6, <1>7, <1>8, <1>9, <1>10, <2>2, <2>3, <2>4, <2>5
<1>12. CASE ~is_small(tab[k])
  <2>1. PICK b \in Block : b = tab[k].blk
    BY <1>2, <1>12, Forms
  <2>2. tab[k] = ptab[k] /\ b # NoBlock
    BY <1>5, <1>12, NoBlockAssumption
  <2>3. Stored(tab, data, k) = data[b] /\ Stored(ptab, pdata, k) = pdata[b]
    BY <2>1, <2>2 DEF Stored
  <2>4. data[b] \in Value /\ pdata[b] \in Value
    <3>1. Live(b)
      BY <1>2, <2>1 DEF Live, Refers
    <3> QED BY <1>1, <3>1 DEF Kept, Shape
  <2>5. op.i > 0 => SameBut(data[b], pdata[b], ctl.ops[op.i])
    BY <1>1 DEF Clean, SameBut
  <2>6. op.i = 0 => data[b] = pdata[b]
    BY <1>1 DEF Clean, Busy
  <2> QED BY ZenonT(30), <1>2, <1>3, <1>4, <1>6, <1>7, <1>8, <1>9, <1>10, <2>3, <2>4, <2>5, <2>6
<1> QED BY ZenonT(30), <1>11, <1>12

\* The flush of what the last WRITE stored makes the views the same.
LEMMA Flushed ==
  ASSUME IInv, pc = "redo", Found, ctl.size > 0, FlushWritten
  PROVE  ptab' = tab /\ pdata' = data
<1>1. Shape /\ Clean
  BY DEF IInv
<1>2. PICK k : k = mod.key
  BY ZenonT(30)
<1>3. /\ k \in Key /\ tab[k] \in Proper /\ tab[k].blk = ptab[k].blk
      /\ \A j \in Key \ {k} : tab[j] = ptab[j]
      /\ \A b \in Block : b # tab[k].blk => data[b] = pdata[b]
      /\ Stored(tab, data, k) \in Value
      /\ op.i > 0 => SameBut(Stored(tab, data, k), Stored(ptab, pdata, k), ctl.ops[op.i])
  BY <1>2, Updating
<1>4. op.i \in 0 .. 2
  BY <1>1 DEF Shape
<1>5. CASE op.i = 0
  <2>1. tab = ptab /\ data = pdata
    BY <1>1, <1>5, Still DEF Busy
  <2> QED BY <1>5, <2>1 DEF FlushWritten
<1>6. CASE op.i # 0 /\ is_small(tab[k])
  <2>1. ptab' = [ptab EXCEPT ![k] = tab[k]] /\ pdata' = pdata
    BY <1>2, <1>6 DEF FlushWritten
  <2>2. tab \in [Key -> Slots] /\ ptab \in [Key -> Slots]
    BY <1>1 DEF Shape
  <2>3. ptab' = tab
    BY ZenonT(30), <1>3, <2>1, <2>2
  <2>4. \A b \in Block : data[b] = pdata[b]
    BY <1>3, <1>6, Forms
  <2>5. data = pdata
    BY <1>1, <2>4 DEF Shape
  <2> QED BY <2>1, <2>3, <2>5
<1>7. CASE op.i # 0 /\ ~is_small(tab[k])
  <2>1. PICK b \in Block : b = tab[k].blk
    BY ZenonT(30), <1>3, <1>7, Forms
  <2>2. ptab' = ptab /\ pdata' = [pdata EXCEPT ![b] = Overlay(pdata[b], ctl.ops[op.i], data[b])]
    BY <1>2, <1>7, <2>1 DEF FlushWritten
  <2>3. b # NoBlock
    BY NoBlockAssumption
  <2>4. Stored(tab, data, k) = data[b] /\ Stored(ptab, pdata, k) = pdata[b]
    BY ZenonT(30), <1>3, <2>1, <2>3 DEF Stored
  <2>5. data[b] \in Value /\ SameBut(data[b], pdata[b], ctl.ops[op.i])
    BY <1>3, <1>4, <1>7, <2>4
  <2>6. Overlay(pdata[b], ctl.ops[op.i], data[b]) = data[b]
    BY <2>5 DEF Overlay, SameBut, Value
  <2>7. pdata' = data
    <3>1. pdata \in [Block -> Value \cup {Junk}] /\ data \in [Block -> Value \cup {Junk}]
      BY <1>1 DEF Shape
    <3>2. \A a \in Block : pdata'[a] = data[a]
      BY <1>3, <2>1, <2>2, <2>6, <3>1
    <3>3. pdata' = [a \in Block |-> pdata'[a]]
      BY ZenonT(30), <2>2, <3>1
    <3> QED BY <3>1, <3>2, <3>3
  <2>8. tab = ptab
    <3>1. \A j \in Key : tab[j] = ptab[j]
      BY <1>1, <1>3, <1>2, <1>7 DEF Clean
    <3> QED BY <1>1, <3>1 DEF Shape
  <2> QED BY ZenonT(30), <2>2, <2>7, <2>8
<1> QED BY <1>5, <1>6, <1>7

\* What the WRITEs so far cover is part of what they all cover.
LEMMA WrittenParts ==
  ASSUME NEW ops \in OpLists
  PROVE  /\ \A i \in 1 .. Len(ops) : ops[i] \subseteq Written(ops)
         /\ \A p \in Written(ops) : \E i \in 1 .. Len(ops) : p \in ops[i]
<1>1. DOMAIN ops = 1 .. Len(ops)
  BY Lists
<1> QED BY <1>1 DEF Written

\* The log's data is a value, in both views the same while it is in use.
LEMMA SourceValue ==
  ASSUME IInv, pc = "redo"
  PROVE  /\ Source \in Value
         /\ (\A b \in Block : Refers(mod.mapped, b) => data[b] = pdata[b]) => Source = Logged
<1>1. mod.mapped \in Proper
  BY DEF IInv, Shape, Control
<1>2. CASE is_small(mod.mapped)
  BY <1>1, <1>2, Forms DEF Source, Logged
<1>3. CASE ~is_small(mod.mapped)
  <2>1. PICK b \in Block : b = mod.mapped.blk
    BY <1>1, <1>3, Forms
  <2>2. Live(b)
    BY <2>1 DEF Live, Refers
  <2>3. data[b] \in Value
    BY <2>2 DEF IInv, Kept, Shape
  <2> QED BY <1>3, <2>1, <2>3 DEF Source, Logged, Refers
<1> QED BY <1>2, <1>3

\* When what the WRITEs have stored so far is in memory, redo() of the log
\* would still do what was promised.
LEMMA UpdatePending ==
  ASSUME IInv, Sound, pc = "redo", ctl.size > 0, ptab' = tab, pdata' = data, mod' = mod, hist' = hist,
         NEW c, c = ctl
  PROVE  Pending(c)' /\ Apart'
<1>1. Shape /\ Clean /\ Control /\ Pending(c) /\ Apart
  BY DEF IInv, Sound, Redoing
<1>2. PICK k \in Key : k = mod.key
  BY <1>1 DEF Pending
<1>3. CASE Found
  <2>1. /\ tab[k] \in Proper /\ ptab[k] \in Proper
        /\ ctl.ops \in OpLists /\ ctl.ops # <<>>
        /\ tab[k].blk = ptab[k].blk /\ tab[k].len = ptab[k].len
        /\ \A j \in Key \ {k} : tab[j] = ptab[j]
        /\ \A b \in Block : b # tab[k].blk => data[b] = pdata[b]
        /\ op.i > 0 => /\ op.i \in 1 .. Len(ctl.ops)
                       /\ SameBut(Stored(tab, data, k), Stored(ptab, pdata, k), ctl.ops[op.i])
        /\ op.i = 0 => Stored(tab, data, k) = Stored(ptab, pdata, k)
    BY ZenonT(30), <1>2, <1>3, Updating
  <2>2. \A j \in Key : \A b \in Block : Refers(tab[j], b) <=> Refers(ptab[j], b)
    BY ZenonT(30), <2>1 DEF Refers
  <2>3. Apart'
    BY ZenonT(30), <1>1, <2>2 DEF Apart
  <2>4. \A j \in Key \ {k} : \A b \in Block : Refers(ptab[j], b) => pdata'[b] = pdata[b]
    BY ZenonT(60), <1>1, <2>1 DEF Apart, Refers
  <2>5. \A b \in Block : Refers(mod.mapped, b) => pdata'[b] = pdata[b]
    BY ZenonT(30), <1>1, <1>2, <2>1 DEF Pending, Unused, Refers
  <2>6. SameBut(Stored(tab, data, k), Stored(ptab, pdata, k), Written(c.ops))
    <3>1. CASE op.i = 0
      BY ZenonT(30), <2>1, <3>1 DEF SameBut
    <3>2. CASE op.i > 0
      <4>1. ctl.ops[op.i] \subseteq Written(c.ops)
        BY <2>1, <3>2, WrittenParts
      <4> QED BY ZenonT(30), <2>1, <3>2, <4>1 DEF SameBut
    <3>3. op.i \in 0 .. 2
      BY <1>1 DEF Shape
    <3> QED BY <3>1, <3>2, <3>3
  <2>7. Stored(ptab, pdata, mod.key)' = Stored(tab, data, k)
    BY <1>2 DEF Stored
  <2>8. SameBut(Stored(ptab, pdata, mod.key)', Stored(ptab, pdata, mod.key), Written(c.ops))
    BY ZenonT(30), <1>2, <2>6, <2>7
  <2>9. tab[k] # None /\ ptab[k] # None
    BY ZenonT(30), <2>1, Forms
  <2>10. Pending(c)'
    BY ZenonT(30), <1>1, <1>2, <2>1, <2>4, <2>5, <2>8, <2>9, PendingKept
  <2> QED BY ZenonT(30), <2>3, <2>10
<1>4. CASE ~Found
  <2>1. tab = ptab /\ data = pdata
    BY <1>1, <1>4, Still DEF Busy, Control
  <2>2. Apart'
    BY <1>1, <2>1 DEF Apart
  <2>3. Pending(c)'
    BY <1>1, <2>1, PendingSame
  <2> QED BY <2>2, <2>3
<1> QED BY <1>3, <1>4

\* A WRITE keeps the invariant: it stores the log's data in parts that the
\* log covers, after what the WRITE before it stored has been flushed.
LEMMA RedoUpdateInv ==
  ASSUME IInv, RedoUpdate
  PROVE  IInv'
<1>1. PICK k, i, ps : k = mod.key /\ i = op.i /\ ps = ctl.ops[op.i + 1]
  OBVIOUS
<1>2. /\ pc = "redo" /\ 0 < ctl.size /\ Found /\ i < ctl.size /\ pctl' = ctl /\ FlushWritten
      /\ IF is_small(tab[k])
         THEN tab' = [tab EXCEPT ![k].val = Overlay(@, ps, Source)] /\ data' = data
         ELSE data' = [data EXCEPT ![tab[k].blk] = Overlay(@, ps, Source)] /\ tab' = tab
      /\ op' = [op EXCEPT !.i = @ + 1]
      /\ UNCHANGED <<ref, mod, pmod, ctl, pc, lost, hist>>
  BY <1>1 DEF RedoUpdate
<1>3. Shape /\ Control /\ Clean /\ RefCounts /\ Kept /\ History
  BY DEF IInv
<1>4. /\ k \in Key /\ tab[k] \in Proper
      /\ ctl.ops \in OpLists /\ ctl.ops # <<>> /\ ctl.size = Len(ctl.ops)
      /\ Stored(tab, data, k) \in Value
  BY <1>1, <1>2, Updating
<1>5. ptab' = tab /\ pdata' = data
  BY <1>2, Flushed
<1>6. Source \in Value
  BY <1>2, SourceValue
<1>7. i \in 0 .. 2 /\ Len(ctl.ops) \in 0 .. 2 /\ i + 1 \in 1 .. Len(ctl.ops) /\ ps \subseteq Part
  <2>1. i \in 0 .. 2
    BY <1>1, <1>3 DEF Shape
  <2>2. Len(ctl.ops) \in 0 .. 2 /\ \A n \in 1 .. Len(ctl.ops) : ctl.ops[n] \subseteq Part
    BY ZenonT(30), <1>4, Lists
  <2>3. i + 1 \in 1 .. Len(ctl.ops)
    BY <1>2, <1>4, <2>1, <2>2
  <2> QED BY <1>1, <2>1, <2>2, <2>3
<1>8. op' = [op EXCEPT !.i = i + 1] /\ op'.i = i + 1
  BY <1>1, <1>2, <1>3 DEF Shape
<1>9. PICK w \in Value : w = Overlay(Stored(tab, data, k), ps, Source)
  BY ZenonT(30), <1>4, <1>6 DEF Overlay, Value
\* The store, to the rep or to the allocation.
<1>10. /\ tab' \in [Key -> Slots] /\ data' \in [Block -> Value \cup {Junk}]
       /\ tab'[k].blk = tab[k].blk /\ tab'[k] \in Proper
       /\ \A j \in Key \ {k} : tab'[j] = tab[j]
       /\ \A b \in Block : b # tab[k].blk => data'[b] = data[b]
       /\ \A b \in Block : data[b] # Junk => data'[b] # Junk
       /\ Stored(tab', data', k) = w
       /\ \/ /\ is_small(tab[k]) /\ is_small(tab'[k]) /\ data' = data
             /\ SameBut(tab'[k].val, tab[k].val, ps)
          \/ /\ ~is_small(tab[k]) /\ tab' = tab /\ SameBut(data'[tab[k].blk], data[tab[k].blk], ps)
  <2>1. CASE is_small(tab[k])
    <3>1. /\ tab[k].blk = NoBlock /\ tab[k] = Small(tab[k].val) /\ Stored(tab, data, k) = tab[k].val
      BY ZenonT(30), <1>4, <2>1, Forms DEF Stored
    <3>2. tab' = [tab EXCEPT ![k] = [tab[k] EXCEPT !.val = w]] /\ data' = data
      BY <1>2, <1>9, <2>1, <3>1
    <3>3. [tab[k] EXCEPT !.val = w] = Small(w)
      <4>1. PICK v : v = tab[k].val
        OBVIOUS
      <4>2. tab[k] = [len |-> "small", blk |-> NoBlock, val |-> v]
        BY <3>1, <4>1 DEF Small
      <4> QED BY <4>2 DEF Small
    <3>4. Small(w) \in Proper /\ is_small(Small(w)) /\ Small(w).val = w /\ Small(w).blk = NoBlock
      BY Built, Forms
    <3>5. tab' = [tab EXCEPT ![k] = Small(w)]
      BY ZenonT(30), <3>2, <3>3
    <3>6. tab \in [Key -> Slots] /\ data \in [Block -> Value \cup {Junk}]
      BY <1>3 DEF Shape
    <3>7. tab' \in [Key -> Slots] /\ tab'[k] = Small(w) /\ \A j \in Key \ {k} : tab'[j] = tab[j]
      BY <1>4, <3>4, <3>5, <3>6 DEF Slots
    <3>8. SameBut(w, tab[k].val, ps)
      BY <1>9, <3>1 DEF SameBut, Overlay
    <3>9. Stored(tab', data', k) = w
      BY <3>4, <3>7 DEF Stored
    <3> QED BY ZenonT(30), <2>1, <3>1, <3>2, <3>4, <3>6, <3>7, <3>8, <3>9
  <2>2. CASE ~is_small(tab[k])
    <3>1. PICK b \in Block : b = tab[k].blk
      BY <1>4, <2>2, Forms
    <3>2. b # NoBlock
      BY NoBlockAssumption
    <3>3. Stored(tab, data, k) = data[b]
      BY <3>1, <3>2 DEF Stored
    <3>4. data' = [data EXCEPT ![b] = w] /\ tab' = tab
      BY <1>2, <1>9, <2>2, <3>1, <3>3
    <3>5. tab \in [Key -> Slots] /\ data \in [Block -> Value \cup {Junk}]
      BY <1>3 DEF Shape
    <3>6. /\ data' \in [Block -> Value \cup {Junk}] /\ data'[b] = w
          /\ \A a \in Block : a # b => data'[a] = data[a]
      BY <3>4, <3>5
    <3>7. SameBut(w, data[b], ps)
      BY <1>9, <3>3 DEF SameBut, Overlay
    <3>8. Stored(tab', data', k) = w
      BY <3>1, <3>2, <3>4, <3>6 DEF Stored
    <3>9. \A a \in Block : data[a] # Junk => data'[a] # Junk
      <4>1. w # Junk
        BY Forms
      <4> QED BY <3>6, <4>1
    <3>10. tab'[k] = tab[k] /\ SameBut(data'[tab[k].blk], data[tab[k].blk], ps)
      BY <3>1, <3>4, <3>6, <3>7
    <3>11. \A a \in Block : a # tab[k].blk => data'[a] = data[a]
      BY <3>1, <3>6
    <3>12. tab' = tab /\ data' \in [Block -> Value \cup {Junk}]
      BY <3>4, <3>6
    <3>13. tab' \in [Key -> Slots] /\ tab'[k] \in Proper /\ \A j \in Key : tab'[j] = tab[j]
      BY <1>4, <3>5, <3>12
    <3> QED BY Zenon, <2>2, <3>8, <3>9, <3>10, <3>11, <3>12, <3>13
  <2> QED BY ZenonT(30), <2>1, <2>2
<1>11. Shape'
  <2>1. op' \in [key : Key \cup {NoKey}, ops : OpLists, len : Lengths, val : Value \cup {Junk}, i : 0 .. 2]
    <3>1. op \in [key : Key \cup {NoKey}, ops : OpLists, len : Lengths, val : Value \cup {Junk}, i : 0 .. 2]
      BY <1>3 DEF Shape
    <3>2. i + 1 \in 0 .. 2
      <4>1. PICK m \in 0 .. 2 : m = Len(ctl.ops)
        BY <1>7
      <4>2. i \in 0 .. 2 /\ i + 1 \in 1 .. m
        BY <1>7, <4>1
      <4> QED BY <4>2
    <3>3. op' = [key |-> op.key, ops |-> op.ops, len |-> op.len, val |-> op.val, i |-> i + 1]
      BY <1>8, <3>1
    <3>4. /\ op.key \in Key \cup {NoKey} /\ op.ops \in OpLists /\ op.len \in Lengths
          /\ op.val \in Value \cup {Junk}
      BY <3>1
    <3> QED BY <3>2, <3>3, <3>4
  <2> QED BY <1>2, <1>3, <1>5, <1>10, <2>1 DEF Shape
<1>12. Control'
  <2>1. tab'[k] # None /\ tab'[k] # Torn
    BY <1>10, Forms
  <2>2. mod.mapped # Torn /\ \A j \in Key : tab'[j] # Torn
    BY <1>2, <1>3, <1>10, <2>1 DEF Control
  <2>3. Found' /\ op'.i <= ctl.size /\ ctl.size # 0
    BY <1>1, <1>2, <1>4, <1>7, <1>8, <2>1 DEF Found
  <2> QED BY ZenonT(30), <1>2, <2>2, <2>3 DEF Control, Entering, Redoing
<1>13. Clean'
  <2>1. Busy' /\ ctl'.ops[op'.i] = ps /\ mod'.key = k
    BY <1>1, <1>2, <1>7, <1>8 DEF Busy
  <2>2. \A j \in Key : \/ tab'[j] = ptab'[j]
                       \/ /\ j = k /\ is_small(tab'[j]) /\ is_small(ptab'[j])
                          /\ SameBut(tab'[j].val, ptab'[j].val, ps)
    BY ZenonT(30), <1>5, <1>10
  <2>3. \A b \in Block : \/ data'[b] = pdata'[b]
                         \/ b = tab'[k].blk /\ SameBut(data'[b], pdata'[b], ps)
    BY ZenonT(30), <1>5, <1>10
  <2> QED BY ZenonT(30), <2>1, <2>2, <2>3 DEF Clean
<1>14. \A j \in Key : tab'[j].blk = tab[j].blk
  BY <1>10
<1>15. RefCounts'
  <2>1. ASSUME NEW b \in Block PROVE References(b)' = References(b)
    <3>1. {j \in Key : Refers(tab'[j], b)} = {j \in Key : Refers(tab[j], b)}
      BY ZenonT(30), <1>14 DEF Refers
    <3> QED BY <1>2, <3>1 DEF References
  <2> QED BY <1>2, <1>3, <2>1 DEF RefCounts
<1>16. Kept'
  <2>1. \A b \in Block : Live(b)' => Live(b)
    BY <1>2, <1>5, <1>14 DEF Live, Refers
  <2> QED BY <1>3, <1>5, <1>10, <2>1 DEF Kept
<1>17. History'
  BY <1>2, <1>3 DEF History
<1>18. ASSUME ~lost' PROVE Sound'
  <2>1. Sound
    BY <1>2, <1>18 DEF IInv
  <2>2. PICK c : c = ctl
    OBVIOUS
  <2>3. Pending(c)' /\ Apart'
    BY <1>2, <1>5, <2>1, <2>2, UpdatePending
  <2>4. Pending(ctl)' /\ Pending(pctl)'
    BY <1>2, <2>2, <2>3, PendingNamed
  <2>5. Recoverable'
    BY <1>2, <2>4 DEF Recoverable
  <2>6. Source' = Source
    <3>1. \A b \in Block : Refers(mod.mapped, b) => data'[b] = data[b]
      <4>1. Unused(k) /\ tab[k].blk = ptab[k].blk
        BY ZenonT(30), <1>1, <1>2, <1>4, <2>1, Updating DEF Sound, Pending, Redoing
      <4> QED BY ZenonT(30), <1>10, <4>1 DEF Unused, Refers
    <3>2. ~is_small(mod.mapped) => mod.mapped.blk \in Block
      BY <1>2, <1>3, Forms DEF Shape, Control
    <3> QED BY ZenonT(30), <1>2, <3>1, <3>2 DEF Source, Refers
  <2>7. Progress'
    <3> SUFFICES ASSUME NEW n \in 1 .. i + 1, NEW p \in ctl.ops[n]
                 PROVE  Stored(tab', data', k)[p] = Source[p]
      BY ZenonT(30), <1>1, <1>2, <1>8, <2>6 DEF Progress
    <3>1. n \in 1 .. Len(ctl.ops) /\ p \in Part
      BY <1>4, <1>7, Lists
    <3>2. Stored(tab', data', k)[p] = IF p \in ps THEN Source[p] ELSE Stored(tab, data, k)[p]
      BY ZenonT(30), <1>9, <1>10, <3>1 DEF Overlay
    <3>3. CASE n = i + 1
      BY ZenonT(30), <1>1, <3>2, <3>3
    <3>4. CASE n # i + 1
      <4>1. n \in 1 .. i /\ i > 0
        BY <1>7, <3>4
      <4>2. Stored(tab, data, k)[p] = Source[p]
        BY <1>1, <1>2, <2>1, <4>1 DEF Sound, Busy, Progress
      <4> QED BY <3>2, <4>2
    <3> QED BY <3>3, <3>4
  <2> QED BY <1>2, <2>3, <2>4, <2>5, <2>7 DEF Sound, Entering
<1> QED BY <1>11, <1>12, <1>13, <1>15, <1>16, <1>17, <1>18 DEF IInv

\* The end of the list: every WRITE is in memory, which returns what the call
\* promised. Of a key that is not there nothing is stored.
LEMMA RedoUpdateFinishInv ==
  ASSUME IInv, RedoUpdateFinish
  PROVE  IInv'
<1>1. /\ pc = "redo" /\ 0 < ctl.size /\ (Found => op.i = ctl.size) /\ pctl' = ctl
      /\ IF Found THEN FlushWritten ELSE UNCHANGED <<ptab, pdata>>
      /\ ctl' = Idle /\ pc' = "finish"
      /\ UNCHANGED <<tab, data, ref, mod, pmod, op, lost, hist>>
  BY DEF RedoUpdateFinish
<1>2. Shape /\ Control /\ Clean /\ RefCounts /\ Kept /\ History
  BY DEF IInv
<1>3. ptab' = tab /\ pdata' = data
  <2>1. CASE Found
    BY <1>1, <2>1, Flushed
  <2>2. CASE ~Found
    BY <1>1, <1>2, <2>2, Still DEF Busy, Control
  <2> QED BY <2>1, <2>2
<1>4. Shape'
  <2>1. ctl' \in [size : Int, ops : OpLists] /\ ctl'.size = 0
    BY <1>1, Lists DEF Idle
  <2> QED BY <1>1, <1>2, <1>3, <2>1 DEF Shape
<1>5. Control'
  <2>1. ctl'.size = 0
    BY ZenonT(30), <1>1 DEF Idle
  <2>2. mod.mapped # Torn /\ \A j \in Key : tab[j] # Torn
    BY ZenonT(30), <1>1, <1>2 DEF Control
  <2> QED BY <1>1, <2>1, <2>2 DEF Control, Entering, Redoing
<1>6. Clean'
  BY <1>1, <1>3 DEF Clean
<1>7. RefCounts'
  <2>1. \A b : References(b)' = References(b)
    BY <1>1 DEF References
  <2> QED BY <1>1, <1>2, <2>1 DEF RefCounts
<1>8. Kept'
  <2>1. \A b \in Block : Live(b)' => Live(b)
    BY <1>1, <1>3 DEF Live
  <2> QED BY <1>1, <1>2, <1>3, <2>1 DEF Kept
<1>9. History'
  BY <1>1, <1>2 DEF History
<1>10. ASSUME ~lost' PROVE Sound'
  <2>1. Sound
    BY <1>1, <1>10 DEF IInv
  <2>2. PICK c : c = ctl
    OBVIOUS
  <2>3. Pending(c)' /\ Apart'
    BY <1>1, <1>3, <2>1, <2>2, UpdatePending
  <2>4. Pending(pctl)'
    BY ZenonT(30), <1>1, <2>2, <2>3, PendingNamed
  <2>5. Recoverable'
    BY <1>1, <2>4 DEF Recoverable
  <2>6. PICK k \in Key : k = mod.key
    BY <1>1, <2>3 DEF Pending
  <2>7. c.ops \in OpLists /\ c.ops # <<>> /\ c.size = Len(c.ops)
    <3>1. ctl.ops \in OpLists /\ ctl.size = SizeOf(ctl.ops)
      BY <1>1, <1>2 DEF Shape
    <3> QED BY <1>1, <2>2, <3>1, Sizes
  <2>8. hist'.after[k] = IF tab[k] = None THEN <<None.len, Junk>>
                         ELSE <<tab[k].len, Overlay(Stored(tab, data, k), Written(c.ops), Source)>>
    <3>1. Logged' = Source
      BY ZenonT(30), <1>1, <1>3 DEF Logged, Source
    <3>2. hist'.after[k] = Outcome(k, c.ops, mod.mapped.len, Logged)'
      BY <1>1, <2>3, <2>6 DEF Pending
    <3> QED BY ZenonT(30), <1>3, <2>7, <3>1, <3>2 DEF Outcome, Stored
  <2>9. Contents(ptab, pdata)'[k] = <<tab[k].len, Stored(tab, data, k)>>
    <3>1. Contents(ptab, pdata)' = Contents(tab, data)
      BY ZenonT(30), <1>3 DEF Contents
    <3> QED BY <3>1, ContentsAt
  <2>10. ASSUME ~Found PROVE Contents(ptab, pdata)'[k] = hist'.after[k]
    <3>1. tab[k] = None
      BY ZenonT(30), <2>6, <2>10 DEF Found
    <3>2. Stored(tab, data, k) = Junk
      BY ZenonT(30), <3>1, Forms DEF Stored
    <3> QED BY <2>8, <2>9, <3>1, <3>2
  <2>11. ASSUME Found PROVE Contents(ptab, pdata)'[k] = hist'.after[k]
    <3>1. Stored(tab, data, k) \in Value /\ tab[k] # None
      BY ZenonT(30), <1>1, <2>6, <2>11, Updating DEF Found
    <3>2. ASSUME NEW p \in Written(c.ops) PROVE Stored(tab, data, k)[p] = Source[p]
      <4>1. PICK i \in 1 .. Len(c.ops) : p \in c.ops[i]
        BY <2>7, <3>2, WrittenParts
      <4>2. PICK m \in 0 .. 2 : m = op.i
        BY <1>2 DEF Shape
      <4>3. m = Len(c.ops)
        BY ZenonT(30), <1>1, <2>2, <2>7, <2>11, <4>2
      <4>4. m > 0
        BY <1>1, <2>2, <2>7, <4>3
      <4>5. Progress
        BY ZenonT(30), <1>1, <2>1, <4>2, <4>4 DEF Sound, Busy
      <4> QED BY ZenonT(30), <2>2, <2>6, <4>1, <4>2, <4>3, <4>5 DEF Progress
    <3>3. Overlay(Stored(tab, data, k), Written(c.ops), Source) = Stored(tab, data, k)
      BY <3>1, <3>2 DEF Overlay, Value
    <3> QED BY ZenonT(30), <2>8, <2>9, <3>1, <3>3
  <2>12. Contents(ptab, pdata)'[k] = hist'.after[k]
    BY ZenonT(30), <2>10, <2>11
  <2>13. \A j \in Key \ {k} : Contents(ptab, pdata)'[j] = hist'.after[j]
    BY <1>1, <2>3, <2>6 DEF Pending
  <2>14. Contents(ptab, pdata)' = hist'.after
    BY <1>9, <2>12, <2>13, Fulfilled
  <2> QED BY <1>1, <2>3, <2>5, <2>14 DEF Sound, Busy, Entering, Redoing
<1> QED BY <1>4, <1>5, <1>6, <1>7, <1>8, <1>9, <1>10 DEF IInv

-----------------------------------------------------------------------------
\* A step that changes nothing keeps the invariant.
LEMMA Stutter ==
  ASSUME IInv, UNCHANGED vars
  PROVE  IInv'
<1>1. Shape' /\ History'
  BY ZenonT(60) DEF IInv, Shape, History, vars
<1>2. Control'
  BY ZenonT(30) DEF IInv, Control, Found, vars
<1>3. Clean'
  BY ZenonT(30) DEF IInv, Clean, Busy, vars
<1>4. RefCounts' /\ Kept'
  <2>1. \A b : References(b)' = References(b)
    BY ZenonT(30) DEF References, vars
  <2>2. \A b : Live(b)' => Live(b)
    BY DEF Live, vars
  <2> QED BY ZenonT(30), <2>1, <2>2 DEF IInv, RefCounts, Kept, vars
<1>5. ASSUME ~lost' PROVE Sound'
  <2>1. Sound
    BY ZenonT(30), <1>5 DEF IInv, vars
  <2>2. /\ Contents(ptab, pdata)' = Contents(ptab, pdata) /\ Apart' = Apart /\ Logged' = Logged
        /\ \A k : Unused(k)' = Unused(k)
        /\ \A k, ops, l, v : Outcome(k, ops, l, v)' = Outcome(k, ops, l, v)
        /\ HalfAssigned' = HalfAssigned
    BY ZenonT(30) DEF Apart, Logged, Unused, Outcome, Stored, HalfAssigned, vars
  <2>3. Recoverable'
    BY ZenonT(30), <2>1, <2>2 DEF Sound, Recoverable, Pending, vars
  <2>4. pc \in Entering => Entered'
    BY ZenonT(30), <2>1, <2>2 DEF Sound, Entered, vars
  <2>5. pc \in Redoing => Pending(ctl)'
    BY ZenonT(30), <2>1, <2>2 DEF Sound, Pending, vars
  <2>6. Busy' => Progress'
    BY ZenonT(30), <2>1 DEF Sound, Busy, Progress, Stored, Source, vars
  <2> QED BY <2>1, <2>2, <2>3, <2>4, <2>5, <2>6 DEF Sound, vars
<1> QED BY ZenonT(30), <1>1, <1>2, <1>3, <1>4, <1>5 DEF IInv

\* What redo() has stored in a slot reaches memory, at any point.
LEMMA EvictSlotInv ==
  ASSUME IInv, NEW k \in Key, ptab' = [ptab EXCEPT ![k] = tab[k]],
         UNCHANGED <<tab, data, pdata, ref, mod, pmod, ctl, pctl, pc, op, lost, hist>>
  PROVE  IInv'
<1>1. Shape /\ Control /\ Clean /\ RefCounts /\ Kept /\ History
  BY DEF IInv
<1>2. ptab \in [Key -> Slots] /\ tab[k] \in Slots /\ ptab[k] \in Slots
  BY <1>1 DEF Shape
<1>3. ptab' \in [Key -> Slots] /\ ptab'[k] = tab[k] /\ \A j \in Key \ {k} : ptab'[j] = ptab[j]
  BY <1>2
<1>4. CASE tab[k] = ptab[k]
  <2>1. ptab' = ptab
    BY <1>2, <1>4
  <2> QED BY <2>1, Stutter DEF vars
<1>5. CASE tab[k] # ptab[k]
  <2>1. /\ k = mod.key
        /\ \/ pc \in {"assign", "replaced"}
           \/ Busy /\ is_small(tab[k]) /\ is_small(ptab[k])
    BY ZenonT(30), <1>1, <1>5 DEF Clean
  <2>2. pc \in Redoing /\ pctl = ctl /\ ctl.size # 0
    BY ZenonT(30), <1>1, <2>1 DEF Control, Redoing, Busy
  <2>3. Shape'
    BY ZenonT(30), <1>1, <1>3 DEF Shape
  <2>4. Control'
    BY ZenonT(30), <1>1, <2>2 DEF Control, Found, Redoing
  <2>5. Clean'
    <3>1. \A j \in Key :
            \/ tab[j] = ptab'[j]
            \/ j = mod.key /\ pc \in {"assign", "replaced"}
            \/ /\ j = mod.key /\ Busy /\ is_small(tab[j]) /\ is_small(ptab'[j])
               /\ SameBut(tab[j].val, ptab'[j].val, ctl.ops[op.i])
      BY <1>1, <1>3 DEF Clean
    <3> QED BY ZenonT(30), <1>1, <3>1 DEF Clean, Busy
  <2>6. RefCounts' /\ Kept' /\ History'
    <3>1. \A b : References(b)' = References(b)
      BY ZenonT(30) DEF References
    <3>2. \A b : Live(b)' => Live(b)
      BY <1>3 DEF Live
    <3> QED BY ZenonT(30), <1>1, <3>1, <3>2 DEF RefCounts, Kept, History
  <2>7. ASSUME ~lost' PROVE Sound'
    <3>1. Sound
      BY <2>7 DEF IInv
    <3>2. PICK c : c = ctl
      OBVIOUS
    <3>3. Pending(c) /\ Apart
      BY <2>2, <3>1, <3>2 DEF Sound
    <3>4. ASSUME pc \in {"assign", "replaced"} PROVE Pending(c)' /\ Apart'
      <4>1. tab[k] \in {Torn, mod.mapped} /\ ctl.size < 0 /\ mod.mapped \in Proper
        BY ZenonT(30), <1>1, <2>1, <3>4 DEF Control, Shape
      <4>2. ptab'[k] # None
        BY <1>3, <4>1, Forms
      <4>3. c.ops = <<>>
        <5>1. ctl.ops \in OpLists /\ ctl.size = SizeOf(ctl.ops)
          BY <1>1, <4>1 DEF Shape
        <5> QED BY ZenonT(30), <3>2, <4>1, <5>1, Sizes
      <4>4. Pending(c)'
        BY ZenonT(30), <1>1, <1>3, <2>1, <3>3, <4>2, <4>3, PendingKept
      <4>5. \A b \in Block : Refers(ptab'[k], b) => Refers(mod.mapped, b)
        BY ZenonT(30), <1>3, <4>1, Forms DEF Refers
      <4>6. \A j \in Key \ {k} : Unused(j)
        BY ZenonT(30), <2>1, <3>3 DEF Pending
      <4>7. Apart'
        BY <1>3, <3>3, <4>5, <4>6 DEF Apart, Unused
      <4> QED BY ZenonT(30), <4>4, <4>7
    <3>5. ASSUME Busy, is_small(tab[k]), is_small(ptab[k]) PROVE Pending(c)' /\ Apart'
      <4>1. pc = "redo" /\ Found /\ ctl.size > 0 /\ op.i > 0
        <5>1. op.i \in 0 .. 2 /\ ctl.size \in Int
          BY ZenonT(30), <1>1 DEF Shape
        <5>2. pc = "redo" /\ Found /\ op.i > 0 /\ op.i <= ctl.size
          BY ZenonT(30), <1>1, <3>5 DEF Busy, Control
        <5> QED BY <5>1, <5>2
      <4>2. /\ tab[k] \in Proper /\ ptab[k] \in Proper
            /\ ctl.ops \in OpLists /\ ctl.ops # <<>>
            /\ tab[k].blk = ptab[k].blk /\ tab[k].len = ptab[k].len
            /\ op.i \in 1 .. Len(ctl.ops)
            /\ SameBut(Stored(tab, data, k), Stored(ptab, pdata, k), ctl.ops[op.i])
        BY ZenonT(30), <2>1, <4>1, Updating
      <4>3. tab[k] # None /\ ptab[k] # None /\ tab[k].blk = NoBlock
        BY ZenonT(30), <3>5, <4>2, Forms
      <4>4. Stored(ptab', pdata', k) = Stored(tab, data, k)
        BY ZenonT(30), <1>3, <4>3 DEF Stored
      <4>5. SameBut(Stored(ptab', pdata', k), Stored(ptab, pdata, k), Written(c.ops))
        <5>1. ctl.ops[op.i] \subseteq Written(c.ops)
          BY ZenonT(30), <3>2, <4>2, WrittenParts
        <5> QED BY <4>2, <4>4, <5>1 DEF SameBut
      <4>6. SameBut(Stored(ptab, pdata, mod.key)', Stored(ptab, pdata, mod.key), Written(c.ops))
        BY ZenonT(30), <2>1, <4>5
      <4>7. Pending(c)'
        BY ZenonT(30), <1>1, <1>3, <2>1, <3>2, <3>3, <4>2, <4>3, <4>6, PendingKept
      <4>8. \A j \in Key : ptab'[j].blk = ptab[j].blk
        BY <1>3, <4>2
      <4>9. \A j \in Key : \A b \in Block : Refers(ptab'[j], b) <=> Refers(ptab[j], b)
        BY <4>8 DEF Refers
      <4>10. Apart'
        BY <3>3, <4>9 DEF Apart
      <4> QED BY <4>7, <4>10
    <3>6. Pending(c)' /\ Apart'
      BY <2>1, <3>4, <3>5
    <3>7. Pending(ctl)' /\ Pending(pctl)'
      BY <2>2, <3>2, <3>6, PendingNamed
    <3>8. Recoverable'
      BY ZenonT(30), <2>2, <3>7 DEF Recoverable
    <3>9. Busy' => Progress'
      BY <3>1 DEF Sound, Busy, Progress, Stored, Source
    <3> QED BY <2>2, <3>6, <3>7, <3>8, <3>9 DEF Sound, Redoing, Entering
  <2> QED BY ZenonT(30), <2>3, <2>4, <2>5, <2>6, <2>7 DEF IInv
<1> QED BY <1>4, <1>5

\* What redo_update has stored in an allocation reaches memory part by part.
LEMMA EvictPartInv ==
  ASSUME IInv, NEW b \in Block, NEW p \in Part, data[b] # Junk,
         pdata' = [pdata EXCEPT ![b] = Overlay(pdata[b], {p}, data[b])],
         UNCHANGED <<tab, ptab, data, ref, mod, pmod, ctl, pctl, pc, op, lost, hist>>
  PROVE  IInv'
<1>1. Shape /\ Control /\ Clean /\ RefCounts /\ Kept /\ History
  BY DEF IInv
<1>2. pdata \in [Block -> Value \cup {Junk}] /\ data[b] \in Value
  BY <1>1 DEF Shape
<1>3. CASE data[b] = pdata[b]
  <2>1. Overlay(pdata[b], {p}, data[b]) = pdata[b]
    BY <1>2, <1>3 DEF Overlay, Value
  <2>2. pdata' = pdata
    BY <1>2, <2>1
  <2> QED BY <2>2, Stutter DEF vars
<1>4. CASE data[b] # pdata[b]
  <2>1. Busy /\ b = tab[mod.key].blk /\ SameBut(data[b], pdata[b], ctl.ops[op.i])
    BY <1>1, <1>4 DEF Clean
  <2>2. pc = "redo" /\ Found /\ ctl.size > 0 /\ op.i > 0 /\ pctl = ctl
    <3>1. op.i \in 0 .. 2 /\ ctl.size \in Int
      BY ZenonT(30), <1>1 DEF Shape
    <3>2. pc = "redo" /\ Found /\ op.i > 0 /\ op.i <= ctl.size /\ pctl = ctl
      BY ZenonT(30), <1>1, <2>1 DEF Busy, Control
    <3> QED BY <3>1, <3>2
  <2>3. PICK k : k = mod.key
    BY ZenonT(30)
  <2>4. /\ k \in Key /\ tab[k] \in Proper /\ ptab[k] \in Proper
        /\ ctl.ops \in OpLists /\ ctl.ops # <<>> /\ op.i \in 1 .. Len(ctl.ops)
        /\ b = tab[k].blk /\ b = ptab[k].blk
    BY ZenonT(30), <2>1, <2>2, <2>3, Updating
  <2>5. PICK w : w = Overlay(pdata[b], {p}, data[b])
    OBVIOUS
  <2>6. pdata[b] \in Value
    <3>1. Live(b)
      BY ZenonT(30), <2>4 DEF Live, Refers
    <3> QED BY ZenonT(30), <1>1, <1>2, <3>1 DEF Kept
  <2>7. w \in Value /\ SameBut(data[b], w, ctl.ops[op.i]) /\ SameBut(w, pdata[b], ctl.ops[op.i])
    BY ZenonT(30), <1>2, <2>1, <2>5, <2>6 DEF Overlay, SameBut, Value
  <2>8. /\ pdata' \in [Block -> Value \cup {Junk}] /\ pdata'[b] = w
        /\ \A a \in Block : a # b => pdata'[a] = pdata[a]
    BY ZenonT(30), <1>2, <2>5, <2>7
  <2>9. Shape'
    BY ZenonT(30), <1>1, <2>8 DEF Shape
  <2>10. Control'
    BY ZenonT(30), <1>1, <2>2 DEF Control, Found
  <2>11. Clean'
    <3>1. \A a \in Block : \/ data[a] = pdata'[a]
                           \/ Busy /\ a = tab[mod.key].blk /\ SameBut(data[a], pdata'[a], ctl.ops[op.i])
      BY ZenonT(30), <1>1, <2>1, <2>7, <2>8 DEF Clean
    <3> QED BY ZenonT(30), <1>1, <3>1 DEF Clean, Busy
  <2>12. RefCounts' /\ History'
    <3>1. \A a : References(a)' = References(a)
      BY DEF References
    <3> QED BY <1>1, <3>1 DEF RefCounts, History
  <2>13. Kept'
    <3>1. w # Junk
      BY ZenonT(30), <2>7, Forms
    <3>2. \A a : Live(a)' => Live(a)
      BY ZenonT(30) DEF Live
    <3> QED BY ZenonT(30), <1>1, <2>8, <3>1, <3>2 DEF Kept
  <2>14. ASSUME ~lost' PROVE Sound'
    <3>1. Sound
      BY <2>14 DEF IInv
    <3>2. PICK c : c = ctl
      OBVIOUS
    <3>3. Pending(c) /\ Apart
      BY ZenonT(30), <2>2, <3>1, <3>2 DEF Sound, Redoing
    <3>4. \A j \in Key \ {k} : \A a \in Block : Refers(ptab[j], a) => pdata'[a] = pdata[a]
      BY <2>4, <2>8, <3>3 DEF Apart, Refers
    <3>5. \A a \in Block : Refers(mod.mapped, a) => pdata'[a] = pdata[a]
      BY ZenonT(30), <2>3, <2>4, <2>8, <3>2, <3>3 DEF Pending, Unused, Refers
    <3>6. SameBut(Stored(ptab, pdata', k), Stored(ptab, pdata, k), Written(c.ops))
      <4>1. b # NoBlock
        BY ZenonT(30), NoBlockAssumption
      <4>2. Stored(ptab, pdata', k) = w /\ Stored(ptab, pdata, k) = pdata[b]
        BY ZenonT(30), <2>4, <2>8, <4>1 DEF Stored
      <4>3. ctl.ops[op.i] \subseteq Written(c.ops)
        BY <2>4, <3>2, WrittenParts
      <4> QED BY ZenonT(30), <2>7, <4>2, <4>3 DEF SameBut
    <3>7. SameBut(Stored(ptab, pdata, mod.key)', Stored(ptab, pdata, mod.key), Written(c.ops))
      BY ZenonT(30), <2>3, <3>6
    <3>8. c.ops # <<>>
      BY ZenonT(30), <2>4, <3>2
    <3>9. Pending(c)'
      BY ZenonT(30), <1>1, <2>3, <3>3, <3>4, <3>5, <3>7, <3>8, PendingKept
    <3>10. Pending(ctl)' /\ Pending(pctl)'
      BY <2>2, <3>2, <3>9, PendingNamed
    <3>11. Recoverable' /\ Apart'
      <4>1. Recoverable'
        BY <2>2, <3>10 DEF Recoverable
      <4>2. Apart'
        BY ZenonT(30), <2>2, <3>3 DEF Apart
      <4> QED BY ZenonT(30), <4>1, <4>2
    <3>12. Busy' => Progress'
      BY <3>1 DEF Sound, Busy, Progress, Stored, Source
    <3> QED BY <2>2, <3>10, <3>11, <3>12 DEF Sound, Redoing, Entering
  <2> QED BY ZenonT(30), <2>9, <2>10, <2>11, <2>12, <2>13, <2>14 DEF IInv
<1> QED BY <1>3, <1>4

\* The cache writes back lines when it likes.
LEMMA WritebackInv ==
  ASSUME IInv, Writeback
  PROVE  IInv'
<1>1. UNCHANGED <<tab, data, ref, mod, ctl, pc, op, lost, hist>> /\ Evict
  BY DEF Writeback
<1>2. CASE pmod' = mod /\ UNCHANGED <<ptab, pdata, pctl>>
  BY <1>1, <1>2, EvictModInv
<1>3. CASE pctl' = ctl /\ UNCHANGED <<ptab, pdata, pmod>>
  BY <1>1, <1>3, EvictCtlInv
<1>4. ASSUME NEW k \in Key, ptab' = [ptab EXCEPT ![k] = tab[k]], UNCHANGED <<pdata, pmod, pctl>>
      PROVE  IInv'
  BY ZenonT(30), <1>1, <1>4, EvictSlotInv
<1>5. ASSUME NEW b \in Block, NEW p \in Part, data[b] # Junk,
             pdata' = [pdata EXCEPT ![b] = Overlay(pdata[b], {p}, data[b])],
             UNCHANGED <<ptab, pmod, pctl>>
      PROVE  IInv'
  BY ZenonT(30), <1>1, <1>5, EvictPartInv
<1> QED BY ZenonT(30), <1>1, <1>2, <1>3, <1>4, <1>5 DEF Evict

-----------------------------------------------------------------------------
\* A new pool: no key is there, and no log is set.
LEMMA InitInv ==
  ASSUME Init
  PROVE  IInv
<1>1. PICK v \in Value : mod = [key |-> NoKey, mapped |-> Small(v)]
  <2>1. Argument \subseteq Value
    BY DEF Argument, Value
  <2> QED BY <2>1 DEF Init
<1>2. Small(v) \in Proper /\ mod.mapped = Small(v) /\ Small(v).blk = NoBlock /\ pmod = mod
  <2>1. Small(v).blk = NoBlock
    BY DEF Small
  <2>2. Small(v) \in Proper
    BY Built
  <2>3. mod.mapped = Small(v)
    BY <1>1
  <2>4. pmod = mod
    BY DEF Init
  <2> QED BY <2>1, <2>2, <2>3, <2>4
<1>3. /\ tab = ptab /\ data = pdata /\ ctl = pctl /\ ctl = Idle /\ ctl.size = 0
      /\ \A k \in Key : tab[k] = None
  <2>1. Idle.size = 0
    BY DEF Idle
  <2>2. tab = ptab /\ data = pdata /\ ctl = pctl /\ ctl = Idle
    BY ZenonT(30) DEF Init
  <2>3. \A k \in Key : tab[k] = None
    BY ZenonT(30) DEF Init
  <2> QED BY <2>1, <2>2, <2>3
<1>4. Shape
  <2>1. ctl \in [size : Int, ops : OpLists] /\ pctl \in [size : Int, ops : OpLists]
    BY <1>3, Lists DEF Idle
  <2>2. op \in [key : Key \cup {NoKey}, ops : OpLists, len : Lengths, val : Value \cup {Junk}, i : 0 .. 2]
    BY Lists, LengthsAssumption DEF Init, NoOp
  <2>3. mod \in [key : Key \cup {NoKey}, mapped : Proper \cup {Torn}]
    BY <1>1, <1>2
  <2>4. tab \in [Key -> Slots] /\ data \in [Block -> Value \cup {Junk}] /\ ref \in [Block -> Nat]
    BY ZenonT(30) DEF Init, Slots
  <2> QED BY ZenonT(30), <1>2, <1>3, <2>1, <2>2, <2>3, <2>4 DEF Shape, Init
<1>5. Control
  <2>1. mod.mapped # Torn /\ \A k \in Key : tab[k] # Torn
    BY <1>2, <1>3, Forms
  <2> QED BY ZenonT(30), <1>3, <2>1 DEF Control, Init, Entering, Redoing
<1>6. Clean
  BY ZenonT(30), <1>3, Calm
<1>7. \A b \in Block : /\ ~Refers(mod.mapped, b) /\ ~Refers(pmod.mapped, b)
                       /\ \A k \in Key : ~Refers(tab[k], b) /\ ~Refers(ptab[k], b)
  BY <1>2, <1>3, Forms DEF Refers
<1>8. RefCounts
  <2>1. \A b \in Block : References(b) = 0
    BY <1>4, <1>7, NoRefs
  <2>2. \A b \in Block : ref[b] = 0
    BY DEF Init
  <2> QED BY <2>1, <2>2 DEF RefCounts
<1>9. Kept
  BY <1>7 DEF Kept, Live
<1>10. History
  <2>1. hist.before = Contents(tab, data) /\ hist.after = Contents(tab, data)
    BY DEF Init
  <2>2. Contents(tab, data) = [k \in Key |-> Contents(tab, data)[k]]
    BY DEF Contents
  <2> QED BY <2>1, <2>2 DEF History, Init
<1>11. Sound
  <2>1. Apart
    BY ZenonT(30), <1>7 DEF Apart
  <2>2. Recoverable
    BY <1>3 DEF Recoverable, Init
  <2> QED BY ZenonT(30), <2>1, <2>2 DEF Sound, Init, Busy, Entering, Redoing
<1> QED BY <1>4, <1>5, <1>6, <1>8, <1>9, <1>10, <1>11 DEF IInv

\* Every step keeps the invariant.
LEMMA NextInv ==
  ASSUME IInv, [Next]_vars
  PROVE  IInv'
<1>1. CASE Call
  BY <1>1, CallInv
<1>2. CASE EnterKey \/ EnterMapped \/ EnterRest \/ EnterNoRoom \/ EnterNoControl \/ EnterSize
  BY <1>2, EnterKeyInv, EnterMappedInv, EnterRestInv, EnterNoRoomInv, EnterSizeInv
<1>3. CASE RedoNoSuchKey \/ RedoReplace \/ AssignRest \/ RedoReplaceFinish
  BY <1>3, RedoNoSuchKeyInv, RedoReplaceInv, AssignRestInv, RedoReplaceFinishInv
<1>4. CASE RedoUpdate \/ RedoUpdateFinish \/ RedoDone
  BY <1>4, RedoUpdateInv, RedoUpdateFinishInv, RedoDoneInv
<1>5. CASE Reconstitute
  BY <1>5, ReconstituteInv
<1>6. CASE Writeback
  BY <1>6, WritebackInv
<1>7. CASE Crash
  BY <1>7, CrashInv
<1>8. CASE UNCHANGED vars
  BY <1>8, Stutter
<1> QED BY <1>1, <1>2, <1>3, <1>4, <1>5, <1>6, <1>7, <1>8 DEF Next, Step

\* The redo log's invariant holds of every behaviour: of calls, write-backs
\* and crashes in any order, and of redo() after a crash within redo().
THEOREM Invariance == Spec => []IInv
<1>1. Init => IInv
  BY InitInv
<1>2. IInv /\ [Next]_vars => IInv'
  BY NextInv
<1> QED BY <1>1, <1>2, PTL DEF Spec

\* Both views of the table, of the heap and of persist_atomic have their types.
THEOREM TypeCorrect == Spec => []TypeOK
<1>1. IInv => TypeOK
  <2> SUFFICES ASSUME IInv PROVE TypeOK
    OBVIOUS
  <2>1. Shape
    BY DEF IInv
  <2>2. Proper \subseteq Rep
    <3>1. \A v \in Value : Small(v) \in Rep
      BY LengthsAssumption DEF Small, Rep
    <3>2. \A l \in Lengths \ {"small"}, b \in Block : Large(l, b) \in Rep
      BY DEF Large, Rep
    <3> QED BY <3>1, <3>2 DEF Proper
  <2>3. tab \in [Key -> Slot] /\ ptab \in [Key -> Slot]
    BY <2>1, <2>2 DEF Shape, Slots, Slot
  <2>4. \A m \in {mod, pmod} : m.key \in Key \cup {NoKey} /\ m.mapped \in Rep \cup {Torn}
    BY ZenonT(30), <2>1, <2>2 DEF Shape
  <2>5. \A c \in {ctl, pctl} : c.size \in -1 .. 2 /\ c.ops \in Writes \cup {<<>>, <<Part>>}
    <3>1. \A c \in {ctl, pctl} : c.ops \in OpLists /\ c.size \in {0, SizeOf(c.ops)}
      BY <2>1 DEF Shape
    <3>2. ASSUME NEW c \in {ctl, pctl} PROVE c.size \in -1 .. 2
      <4>1. c.size = 0 \/ c.size \in {-1, 1, 2}
        BY <3>1, Sizes
      <4> QED BY <4>1
    <3> QED BY <3>1, <3>2 DEF OpLists
  <2>6. op.i \in 0 .. 2
    BY <2>1 DEF Shape
  <2> QED BY <2>1, <2>3, <2>4, <2>5, <2>6 DEF TypeOK, Shape, Entering, Redoing
<1> QED BY <1>1, Invariance, PTL

\* _ref_count of a fixed_string counts the reps that point to it.
THEOREM CountsRight == Spec => []RefCounts
<1>1. IInv => RefCounts
  BY ZenonT(30) DEF IInv
<1> QED BY <1>1, Invariance, PTL

\* No allocation that memory still refers to is the value of a second key.
THEOREM MemoryApart == Spec => []BlocksApart
<1>1. IInv => BlocksApart
  <2> SUFFICES ASSUME IInv, ~lost, NEW j \in Key, NEW k \in Key, j # k, NEW b \in Block, Refers(ptab[j], b)
               PROVE  ~Refers(tab[k], b) /\ ~Refers(ptab[k], b)
    BY DEF BlocksApart
  <2>1. Shape /\ Control /\ Clean /\ Sound /\ Apart
    BY DEF IInv, Sound
  <2>2. ~Refers(ptab[k], b)
    BY ZenonT(30), <2>1 DEF Apart
  <2>3. CASE tab[k] = ptab[k]
    BY <2>2, <2>3
  <2>4. CASE k = mod.key /\ pc \in {"assign", "replaced"}
    <3>1. tab[k] \in {Torn, mod.mapped}
      BY ZenonT(30), <2>1, <2>4 DEF Control
    <3>2. Unused(j)
      BY ZenonT(30), <2>1, <2>4 DEF Sound, Redoing, Pending
    <3>3. ~Refers(Torn, b)
      BY ZenonT(30), Forms DEF Refers
    <3> QED BY ZenonT(30), <2>2, <3>1, <3>2, <3>3 DEF Unused
  <2>5. CASE Busy /\ is_small(tab[k])
    <3>1. tab[k] \in Slots
      BY ZenonT(30), <2>1 DEF Shape
    <3>2. tab[k].blk = NoBlock
      BY ZenonT(30), <2>5, <3>1, Forms DEF Slots
    <3> QED BY <2>2, <3>2, NoBlockAssumption DEF Refers
  <2> QED BY ZenonT(30), <2>1, <2>3, <2>4, <2>5 DEF Clean
<1> QED BY <1>1, Invariance, PTL

\* When a call has returned, memory holds what the table shows and no log.
THEOREM ReturnsDurable == Spec => []ReturnedIsDurable
<1>1. IInv => ReturnedIsDurable
  <2> SUFFICES ASSUME IInv, pc = "idle"
               PROVE  Contents(ptab, pdata) = Contents(tab, data) /\ pctl.size = 0
    BY DEF ReturnedIsDurable
  <2>1. Shape /\ Control /\ Clean
    BY DEF IInv
  <2>2. tab = ptab /\ data = pdata
    BY <2>1, Still DEF Busy
  <2> QED BY <2>1, <2>2 DEF Control
<1> QED BY <1>1, Invariance, PTL

\* An atomic_update or a put over an existing key that a crash has cut short
\* has happened altogether or not at all once the pool is open again.
THEOREM Atomic == Spec => []AllOrNothing
<1>1. IInv => AllOrNothing
  <2> SUFFICES ASSUME IInv, pc = "idle", ~lost
               PROVE  Contents(tab, data) \in {hist.before, hist.after}
    BY DEF AllOrNothing
  <2>1. Shape /\ Control /\ Clean /\ Sound
    BY DEF IInv
  <2>2. tab = ptab /\ data = pdata
    BY ZenonT(30), <2>1, Still DEF Busy
  <2>3. pctl.size = 0
    BY <2>1 DEF Control
  <2> QED BY <2>1, <2>2, <2>3 DEF Sound, Recoverable
<1> QED BY <1>1, Invariance, PTL

\* open_pool succeeds after any crash but one that found mod_size in memory
\* without its mod_key and mod_mapped, or that cut rep::operator= in two.
THEOREM Reopens == Spec => []PoolOpens
<1>1. IInv => PoolOpens
  BY DEF IInv, Sound, PoolOpens
<1> QED BY <1>1, Invariance, PTL

=============================================================================
