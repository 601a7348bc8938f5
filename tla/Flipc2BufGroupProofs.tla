------------------------ MODULE Flipc2BufGroupProofs ------------------------
(***************************************************************************)
(* Proofs about Flipc2BufGroup, for every number of clients, slots and     *)
(* versions.  What the invariants of the pool need beside themselves is    *)
(* CopyOK, what a client's copies are worth: a version that is not older   *)
(* than free_head's means that nothing was swapped since it was loaded, so *)
(* the next index read after it is still the one of the first free slot.   *)
(***************************************************************************)
EXTENDS Flipc2BufGroup, SequenceTheorems, TLAPS

\* The version n swaps later, without the modulus.
Later(v, n) == IF v + n < VERSIONS THEN v + n ELSE v + n - VERSIONS

CopyOK(t) ==
  /\ pc[t] = "idle" => loaded[t] = {}
  /\ pc[t] = "cas" => "ver" \in loaded[t]
  /\ "ver" \notin loaded[t] => age[t] = 0
  /\ "ver" \in loaded[t] => free_ver = Later(ver[t], age[t])
  /\ pc[t] = "cas" /\ op[t] = "alloc" =>
       /\ idx[t] \in Slots
       /\ age[t] = 0 /\ idx[t] = free_idx => next_idx[t] = next[idx[t]]
  /\ pc[t] = "cas" /\ op[t] = "free" => next[slot[t]] = idx[t]

\* The inductive invariant.
IInv ==
  /\ TypeOK
  /\ ListIntact
  /\ OneOwner
  /\ NoLeak
  /\ \A t \in Clients : CopyOK(t)

-----------------------------------------------------------------------------
\* The next version, without the modulus.
LEMMA NextVersion ==
  ASSUME NEW v \in Version
  PROVE  /\ (v + 1) % VERSIONS \in Version
         /\ (v + 1) % VERSIONS = Later(v, 1)
<1>1. CASE v + 1 < VERSIONS
  BY <1>1, PoolAssumption, Z3 DEF Version, Later
<1>2. CASE v + 1 = VERSIONS
  BY <1>2, PoolAssumption, Z3 DEF Version, Later
<1> QED
  BY <1>1, <1>2, PoolAssumption DEF Version

\* The version that a swap makes of one that is n swaps old.
LEMMA LaterOnce ==
  ASSUME NEW v \in Version, NEW n \in 0 .. VERSIONS - 1
  PROVE  /\ Later(v, n) \in Version
         /\ Later(Later(v, n), 1) = Later(v, n + 1)
         /\ Later(v, n) = v => n = 0
  BY PoolAssumption DEF Version, Later

LEMMA InitInv == Init => IInv
<1> SUFFICES ASSUME Init PROVE IInv
  OBVIOUS
<1> USE PoolAssumption DEF Init
<1>1. /\ stack \in Seq(Slots) /\ Len(stack) = SLOT_COUNT
      /\ \A i \in 1 .. SLOT_COUNT : stack[i] = i - 1
  <2>1. \A i \in 1 .. SLOT_COUNT : i - 1 \in Slots
    BY DEF Slots
  <2>2. stack \in [1 .. SLOT_COUNT -> Slots]
    BY <2>1
  <2> QED
    BY <2>2
<1>2. TypeOK
  BY <1>1 DEF TypeOK, Index, Slots, Version, SLOT_NONE
<1>3. ListIntact
  BY <1>1 DEF ListIntact, Link, Slots, SLOT_NONE
<1>4. OneOwner
  BY <1>1 DEF OneOwner, Freeing
<1>5. NoLeak
  <2> SUFFICES ASSUME NEW s \in Slots
               PROVE  \E i \in 1 .. Len(stack) : stack[i] = s
    BY DEF NoLeak
  <2>1. s + 1 \in 1 .. Len(stack) /\ stack[s + 1] = s
    BY <1>1 DEF Slots
  <2> QED
    BY <2>1
<1>6. \A t \in Clients : CopyOK(t)
  BY DEF CopyOK
<1> QED
  BY <1>2, <1>3, <1>4, <1>5, <1>6 DEF IInv

-----------------------------------------------------------------------------
(* Steps that only move a client. *)

\* What a step leaves alone when pool and the slots on their way back are as
\* before.
LEMMA PoolUnchanged ==
  ASSUME ListIntact, OneOwner, NoLeak, UNCHANGED pool,
         \A t \in Clients : /\ Freeing(t)' = Freeing(t)
                            /\ Freeing(t) => slot'[t] = slot[t]
  PROVE  ListIntact' /\ OneOwner' /\ NoLeak'
<1>1. ListIntact'
  BY DEF ListIntact, Link, pool
<1>2. OneOwner'
  BY DEF OneOwner, pool
<1>3. NoLeak'
  BY DEF NoLeak, pool
<1> QED
  BY <1>1, <1>2, <1>3

LEMMA AllocInv ==
  ASSUME IInv, NEW t \in Clients, Alloc(t)
  PROVE  IInv'
<1> USE DEF IInv, Alloc, Goto
<1>1. TypeOK'
  BY DEF TypeOK, pool, copies
<1>2. ListIntact' /\ OneOwner' /\ NoLeak'
  <2>1. \A u \in Clients : Freeing(u)' = Freeing(u) /\ slot'[u] = slot[u]
    BY DEF Freeing, TypeOK
  <2> QED
    BY <2>1, PoolUnchanged
<1>3. \A u \in Clients : CopyOK(u)'
  BY DEF CopyOK, TypeOK, pool, copies
<1> QED
  BY <1>1, <1>2, <1>3

LEMMA LoadIndexInv ==
  ASSUME IInv, NEW t \in Clients, LoadIndex(t)
  PROVE  IInv'
<1> USE DEF IInv, LoadIndex
<1>1. TypeOK'
  BY DEF TypeOK, pool, call
<1>2. ListIntact' /\ OneOwner' /\ NoLeak'
  <2>1. \A u \in Clients : Freeing(u)' = Freeing(u) /\ slot'[u] = slot[u]
    BY DEF Freeing, call
  <2> QED
    BY <2>1, PoolUnchanged
<1>3. \A u \in Clients : CopyOK(u)'
  BY DEF CopyOK, TypeOK, pool, call
<1> QED
  BY <1>1, <1>2, <1>3

LEMMA LoadVersionInv ==
  ASSUME IInv, NEW t \in Clients, LoadVersion(t)
  PROVE  IInv'
<1> USE DEF IInv, LoadVersion
<1>1. TypeOK'
  BY DEF TypeOK, pool, call
<1>2. ListIntact' /\ OneOwner' /\ NoLeak'
  <2>1. \A u \in Clients : Freeing(u)' = Freeing(u) /\ slot'[u] = slot[u]
    BY DEF Freeing, call
  <2> QED
    BY <2>1, PoolUnchanged
<1>3. \A u \in Clients : CopyOK(u)'
  <2>1. free_ver = Later(free_ver, 0)
    BY PoolAssumption DEF Later, TypeOK, Version
  <2> QED
    BY <2>1 DEF CopyOK, TypeOK, pool, call
<1> QED
  BY <1>1, <1>2, <1>3

LEMMA AllocEmptyInv ==
  ASSUME IInv, NEW t \in Clients, AllocEmpty(t)
  PROVE  IInv'
<1> USE DEF IInv, AllocEmpty, Loaded, Forget, Goto
<1>1. TypeOK'
  BY PoolAssumption DEF TypeOK, pool, call, Index, Version
<1>2. ListIntact' /\ OneOwner' /\ NoLeak'
  <2>1. \A u \in Clients : Freeing(u)' = Freeing(u) /\ slot'[u] = slot[u]
    BY DEF Freeing, call, TypeOK
  <2> QED
    BY <2>1, PoolUnchanged
<1>3. \A u \in Clients : CopyOK(u)'
  BY DEF CopyOK, TypeOK, pool, call
<1> QED
  BY <1>1, <1>2, <1>3

LEMMA ReadNextInv ==
  ASSUME IInv, NEW t \in Clients, ReadNext(t)
  PROVE  IInv'
<1> USE DEF IInv, ReadNext, Loaded, Goto
<1>1. TypeOK'
  BY DEF TypeOK, pool, call, Index
<1>2. ListIntact' /\ OneOwner' /\ NoLeak'
  <2>1. \A u \in Clients : Freeing(u)' = Freeing(u) /\ slot'[u] = slot[u]
    BY DEF Freeing, call, TypeOK
  <2> QED
    BY <2>1, PoolUnchanged
<1>3. \A u \in Clients : CopyOK(u)'
  BY DEF CopyOK, TypeOK, pool, call, Index
<1> QED
  BY <1>1, <1>2, <1>3

LEMMA RetryInv ==
  ASSUME IInv, NEW t \in Clients, Retry(t)
  PROVE  IInv'
<1> USE DEF IInv, Retry, Forget, Goto
<1>1. TypeOK'
  BY PoolAssumption DEF TypeOK, pool, call, Index, Version
<1>2. ListIntact' /\ OneOwner' /\ NoLeak'
  <2>1. \A u \in Clients : Freeing(u)' = Freeing(u) /\ slot'[u] = slot[u]
    BY DEF Freeing, call, TypeOK
  <2> QED
    BY <2>1, PoolUnchanged
<1>3. \A u \in Clients : CopyOK(u)'
  BY DEF CopyOK, TypeOK, pool, call
<1> QED
  BY <1>1, <1>2, <1>3

-----------------------------------------------------------------------------
(* Steps that change the pool. *)

LEMMA FreeInv ==
  ASSUME IInv, NEW t \in Clients, NEW s \in Slots, Free(t, s)
  PROVE  IInv'
<1> USE DEF IInv, Free, Goto
<1>1. TypeOK'
  BY DEF TypeOK, copies, Index
<1>2. ListIntact'
  BY DEF ListIntact, Link
<1>3. /\ ~Freeing(t) /\ Freeing(t)' /\ slot'[t] = s
      /\ \A u \in Clients \ {t} : Freeing(u)' = Freeing(u) /\ slot'[u] = slot[u]
  BY DEF Freeing, TypeOK
<1>4. OneOwner'
  BY <1>3 DEF OneOwner
<1>5. NoLeak'
  <2> SUFFICES ASSUME NEW r \in Slots
               PROVE  \/ r \in held'
                      \/ \E i \in 1 .. Len(stack) : stack[i] = r
                      \/ \E u \in Clients : Freeing(u)' /\ slot'[u] = r
    BY DEF NoLeak
  <2>1. CASE r = s
    BY <1>3, <2>1
  <2>2. CASE r # s
    BY <1>3, <2>2 DEF NoLeak
  <2> QED
    BY <2>1, <2>2
<1>6. \A u \in Clients : CopyOK(u)'
  BY DEF CopyOK, TypeOK, copies
<1> QED
  BY <1>1, <1>2, <1>4, <1>5, <1>6

\* A slot on its way back is on nobody's list, so its next[] is its owner's.
LEMMA WriteNextInv ==
  ASSUME IInv, NEW t \in Clients, WriteNext(t)
  PROVE  IInv'
<1> USE DEF IInv, WriteNext, Loaded, Goto
<1>1. Freeing(t) /\ slot[t] \in Slots
  BY DEF Freeing, OneOwner
<1>2. TypeOK'
  BY <1>1 DEF TypeOK, call, copies
<1>3. \A u \in Clients : Freeing(u)' = Freeing(u) /\ slot'[u] = slot[u]
  BY DEF Freeing, call, TypeOK
<1>4. OneOwner' /\ NoLeak'
  BY <1>3 DEF OneOwner, NoLeak
<1>5. \A r \in Slots : r # slot[t] => next'[r] = next[r]
  BY DEF TypeOK
<1>6. ListIntact'
  <2> SUFFICES ASSUME NEW i \in 1 .. Len(stack)
               PROVE  next'[stack[i]] = Link(i + 1)
    BY DEF ListIntact, Link
  <2>1. stack[i] \in Slots /\ stack[i] # slot[t]
    BY <1>1 DEF OneOwner, TypeOK
  <2> QED
    BY <1>5, <2>1 DEF ListIntact
<1>7. ASSUME NEW u \in Clients
      PROVE  CopyOK(u)'
  <2>1. /\ next'[slot[t]] = idx[t]
        /\ Freeing(u) /\ u # t => next'[slot[u]] = next[slot[u]]
    BY <1>1, <1>5 DEF OneOwner, TypeOK
  <2>2. free_idx \in Slots => next'[free_idx] = next[free_idx]
    <3> SUFFICES ASSUME free_idx \in Slots
                 PROVE  free_idx # slot[t]
      BY <1>5
    <3>1. 1 \in 1 .. Len(stack) /\ free_idx = stack[1]
      BY DEF ListIntact, Link, Slots, SLOT_NONE, TypeOK
    <3> QED
      BY <1>1, <3>1 DEF OneOwner
  <2>3. /\ pc'[u] = IF u = t THEN "cas" ELSE pc[u]
        /\ UNCHANGED <<op, slot, copies, free_idx, free_ver>>
    BY DEF TypeOK, call
  <2>4. CASE u = t
    BY <2>1, <2>3, <2>4 DEF CopyOK, copies
  <2>5. CASE u # t
    BY <2>1, <2>2, <2>3, <2>5 DEF CopyOK, copies, Freeing
  <2> QED
    BY <2>4, <2>5
<1> QED
  BY <1>2, <1>4, <1>6, <1>7

\* Every other client sees that its copy of the version got one swap older.
LEMMA SwapCopies ==
  ASSUME IInv, NEW t \in Clients, NEW i, Swap(t, i),
         \A u \in Clients \ {t} : slot'[u] = slot[u]
  PROVE  \A u \in Clients : CopyOK(u)'
<1> USE DEF IInv, Swap, Forget, Goto
<1>1. CopyOK(t)'
  BY DEF CopyOK, TypeOK
<1>2. ASSUME NEW u \in Clients \ {t}
      PROVE  CopyOK(u)'
  <2>1. /\ pc'[u] = pc[u] /\ op'[u] = op[u] /\ slot'[u] = slot[u]
        /\ idx'[u] = idx[u] /\ ver'[u] = ver[u] /\ loaded'[u] = loaded[u]
        /\ next' = next
    BY DEF TypeOK
  <2>2. CASE "ver" \in loaded[u]
    <3>1. age'[u] = age[u] + 1 /\ age[u] \in 0 .. VERSIONS - 1
      BY <2>2 DEF TypeOK
    <3>2. free_ver' = Later(free_ver, 1)
      BY NextVersion DEF TypeOK
    <3>3. free_ver = Later(ver[u], age[u]) /\ ver[u] \in Version
      BY <2>2 DEF CopyOK, TypeOK
    <3>4. free_ver' = Later(ver[u], age[u] + 1)
      BY <3>1, <3>2, <3>3, LaterOnce
    <3>5. age'[u] # 0
      BY <3>1
    <3> QED
      BY <2>1, <2>2, <3>1, <3>4, <3>5 DEF CopyOK
  <2>3. CASE "ver" \notin loaded[u]
    BY <2>1, <2>3 DEF CopyOK, TypeOK
  <2> QED
    BY <2>2, <2>3
<1> QED
  BY <1>1, <1>2

LEMMA SwapTypes ==
  ASSUME IInv, NEW t \in Clients, NEW i \in Index, Swap(t, i)
  PROVE  /\ free_idx' \in Index /\ free_ver' \in Version
         /\ next' \in [Slots -> Index]
         /\ pc' \in [Clients -> {"idle", "load", "cas"}]
         /\ op' \in [Clients -> {"alloc", "free"}]
         /\ idx' \in [Clients -> Index]
         /\ ver' \in [Clients -> Version]
         /\ next_idx' \in [Clients -> Index]
         /\ loaded' \in [Clients -> SUBSET {"idx", "ver"}]
         /\ age' \in [Clients -> 0 .. VERSIONS - 1]
<1> USE DEF IInv, Swap, Forget, Goto, TypeOK
<1>1. free_ver' \in Version
  BY NextVersion
<1>2. SLOT_NONE \in Index /\ 0 \in Version
  BY PoolAssumption DEF Index, Version
<1>3. age' \in [Clients -> 0 .. VERSIONS - 1]
  BY PoolAssumption DEF NotOvertaken
<1> QED
  BY <1>1, <1>2, <1>3

\* The client's copies describe the free list as it is: idx is its first slot
\* and next_idx the second.
LEMMA AllocSwapInv ==
  ASSUME IInv, NEW t \in Clients, AllocSwap(t)
  PROVE  IInv'
<1> USE DEF IInv, AllocSwap
<1>1. /\ pc[t] = "cas" /\ op[t] = "alloc" /\ Swap(t, next_idx[t])
      /\ next_idx[t] \in Index /\ stack \in Seq(Slots)
  BY DEF TypeOK
<1>2. age[t] = 0
  <2>1. /\ free_ver = Later(ver[t], age[t]) /\ free_ver = ver[t]
        /\ ver[t] \in Version /\ age[t] \in 0 .. VERSIONS - 1
    BY DEF CopyOK, TypeOK, Swap, HeadUnchanged
  <2>2. Later(ver[t], age[t]) = ver[t]
    BY <2>1
  <2> HIDE DEF IInv, AllocSwap
  <2> QED
    BY <2>1, <2>2, LaterOnce
<1>3. idx[t] = free_idx /\ idx[t] \in Slots /\ next_idx[t] = next[free_idx]
  BY <1>2 DEF CopyOK, Swap, HeadUnchanged
<1>4. Len(stack) \in Nat /\ Len(stack) >= 1 /\ free_idx = stack[1] /\ stack # <<>>
  BY <1>1, <1>3 DEF ListIntact, Link, Slots, SLOT_NONE
<1>5. next_idx[t] = Link(2)
  BY <1>3, <1>4 DEF ListIntact
<1>6. /\ stack' \in Seq(Slots) /\ Len(stack') = Len(stack) - 1
      /\ \A i \in 1 .. Len(stack') : stack'[i] = stack[i + 1]
  BY <1>1, <1>4, HeadTailProperties
<1>7. TypeOK'
  BY <1>1, <1>3, <1>6, SwapTypes DEF TypeOK
<1>8. free_idx' = next_idx[t] /\ next' = next /\ slot' = slot
      /\ held' = held \cup {stack[1]}
  BY <1>3, <1>4 DEF Swap
<1>9. \A i \in Nat : i >= 1 => Link(i)' = Link(i + 1)
  BY <1>4, <1>6 DEF Link
<1>10. ListIntact'
  <2>1. free_idx' = Link(1)'
    BY <1>5, <1>8, <1>9
  <2>2. ASSUME NEW i \in 1 .. Len(stack')
        PROVE  next'[stack'[i]] = Link(i + 1)'
    <3>1. i + 1 \in 1 .. Len(stack) /\ stack'[i] = stack[i + 1]
      BY <1>4, <1>6
    <3>2. next[stack[i + 1]] = Link(i + 1 + 1)
      BY <3>1 DEF ListIntact
    <3>3. Link(i + 1)' = Link(i + 1 + 1)
      BY <1>9
    <3> QED
      BY <1>8, <3>1, <3>2, <3>3
  <2> QED
    BY <2>1, <2>2 DEF ListIntact
<1>11. \A u \in Clients : Freeing(u)' = Freeing(u)
  BY <1>1 DEF Freeing, Swap, Goto, TypeOK
<1>12. OneOwner'
  <2>1. \A i, j \in 1 .. Len(stack') : stack'[i] = stack'[j] => i = j
    <3> SUFFICES ASSUME NEW i \in 1 .. Len(stack'), NEW j \in 1 .. Len(stack'),
                        stack'[i] = stack'[j]
                 PROVE  i = j
      OBVIOUS
    <3>1. /\ i + 1 \in 1 .. Len(stack) /\ j + 1 \in 1 .. Len(stack)
          /\ stack[i + 1] = stack[j + 1]
      BY <1>4, <1>6
    <3>2. i + 1 = j + 1
      BY <3>1 DEF OneOwner
    <3> QED
      BY <3>2
  <2>2. \A i \in 1 .. Len(stack') : stack'[i] \notin held'
    <3> SUFFICES ASSUME NEW i \in 1 .. Len(stack')
                 PROVE  stack'[i] \notin held'
      OBVIOUS
    <3>1. /\ i + 1 \in 1 .. Len(stack) /\ 1 \in 1 .. Len(stack)
          /\ i + 1 # 1 /\ stack'[i] = stack[i + 1]
      BY <1>4, <1>6
    <3>2. stack[i + 1] # stack[1] /\ stack[i + 1] \notin held
      BY <3>1 DEF OneOwner
    <3> QED
      BY <1>8, <3>1, <3>2
  <2>3. ASSUME NEW u \in Clients, Freeing(u)
        PROVE  /\ slot[u] \in Slots \ held'
               /\ \A i \in 1 .. Len(stack') : stack'[i] # slot[u]
    <3>1. /\ slot[u] \in Slots \ held
          /\ \A i \in 1 .. Len(stack) : stack[i] # slot[u]
      BY <2>3 DEF OneOwner
    <3>2. 1 \in 1 .. Len(stack) /\ \A i \in 1 .. Len(stack') : i + 1 \in 1 .. Len(stack)
      BY <1>4, <1>6
    <3> QED
      BY <1>6, <1>8, <3>1, <3>2
  <2> QED
    BY <1>8, <1>11, <2>1, <2>2, <2>3 DEF OneOwner
<1>13. NoLeak'
  <2> SUFFICES ASSUME NEW s \in Slots, s \notin held',
                      ~ \E u \in Clients : Freeing(u)' /\ slot'[u] = s
               PROVE  \E i \in 1 .. Len(stack') : stack'[i] = s
    BY DEF NoLeak
  <2>1. s \notin held /\ s # stack[1] /\ ~ \E u \in Clients : Freeing(u) /\ slot[u] = s
    BY <1>8, <1>11
  <2>2. PICK j \in 1 .. Len(stack) : stack[j] = s
    BY <2>1 DEF NoLeak
  <2>3. j - 1 \in 1 .. Len(stack') /\ stack'[j - 1] = stack[(j - 1) + 1]
    BY <1>4, <1>6, <2>1, <2>2
  <2> QED
    BY <2>2, <2>3
<1>14. \A u \in Clients : CopyOK(u)'
  BY <1>1, <1>8, SwapCopies
<1> QED
  BY <1>7, <1>10, <1>12, <1>13, <1>14

\* The slot's next[] already points to the first free slot.
LEMMA FreeSwapInv ==
  ASSUME IInv, NEW t \in Clients, FreeSwap(t)
  PROVE  IInv'
<1> USE DEF IInv, FreeSwap
<1> DEFINE s == slot[t]
<1>1. /\ pc[t] = "cas" /\ op[t] = "free" /\ Swap(t, s) /\ Freeing(t)
      /\ s \in Slots /\ s \in Index /\ stack \in Seq(Slots)
      /\ Len(stack) \in Nat
  BY DEF TypeOK, Freeing, OneOwner, Index
<1>2. next[s] = Link(1)
  BY <1>1 DEF CopyOK, Swap, HeadUnchanged, ListIntact
<1>3. /\ stack' \in Seq(Slots) /\ Len(stack') = Len(stack) + 1
      /\ stack'[1] = s
      /\ \A i \in 2 .. Len(stack') : stack'[i] = stack[i - 1]
  <2>1. <<s>> \in Seq(Slots) /\ Len(<<s>>) = 1 /\ <<s>>[1] = s
    BY <1>1
  <2> QED
    BY <1>1, <2>1, ConcatProperties
<1>4. /\ free_idx' = s /\ next' = next /\ held' = held
      /\ \A u \in Clients \ {t} : slot'[u] = slot[u]
      /\ slot' \in [Clients -> Index]
  BY <1>1 DEF Swap, TypeOK, Index
<1>5. TypeOK'
  BY <1>1, <1>3, <1>4, SwapTypes DEF TypeOK
<1>6. \A i \in Nat \ {0} : Link(i + 1)' = Link(i)
  BY <1>1, <1>3 DEF Link
<1>7. ListIntact'
  <2>1. free_idx' = Link(1)'
    BY <1>1, <1>3, <1>4 DEF Link
  <2>2. ASSUME NEW i \in 1 .. Len(stack')
        PROVE  next'[stack'[i]] = Link(i + 1)'
    <3>1. CASE i = 1
      BY <1>2, <1>3, <1>4, <1>6, <3>1
    <3>2. CASE i # 1
      <4>1. i \in 2 .. Len(stack') /\ i - 1 \in 1 .. Len(stack)
        BY <1>1, <1>3, <3>2
      <4>2. next[stack[i - 1]] = Link((i - 1) + 1)
        BY <4>1 DEF ListIntact
      <4>3. Link(i + 1)' = Link(i)
        BY <4>1, <1>6
      <4> QED
        BY <1>3, <1>4, <4>1, <4>2, <4>3
    <3> QED
      BY <3>1, <3>2
  <2> QED
    BY <2>1, <2>2 DEF ListIntact
<1>8. /\ ~Freeing(t)'
      /\ \A u \in Clients \ {t} : Freeing(u)' = Freeing(u)
  BY <1>1 DEF Freeing, Swap, Goto, TypeOK
<1>9. /\ s \notin held /\ \A i \in 1 .. Len(stack) : stack[i] # s
      /\ \A u \in Clients : Freeing(u) /\ slot[u] = s => u = t
  BY <1>1 DEF OneOwner
<1>10. \A i \in 1 .. Len(stack') :
         \/ i = 1 /\ stack'[i] = s
         \/ i # 1 /\ i - 1 \in 1 .. Len(stack) /\ stack'[i] = stack[i - 1]
  BY <1>1, <1>3
<1>11. OneOwner'
  <2>1. ASSUME NEW i \in 1 .. Len(stack'), NEW j \in 1 .. Len(stack'),
               stack'[i] = stack'[j]
        PROVE  i = j
    <3>1. CASE i = 1 \/ j = 1
      BY <1>9, <1>10, <2>1, <3>1
    <3>2. CASE i # 1 /\ j # 1
      <4>1. /\ i - 1 \in 1 .. Len(stack) /\ j - 1 \in 1 .. Len(stack)
            /\ stack[i - 1] = stack[j - 1]
        BY <1>10, <2>1, <3>2
      <4>2. i - 1 = j - 1
        BY <4>1 DEF OneOwner
      <4> QED
        BY <4>2
    <3> QED
      BY <3>1, <3>2
  <2>2. \A i \in 1 .. Len(stack') : stack'[i] \notin held'
    BY <1>4, <1>9, <1>10 DEF OneOwner
  <2>3. ASSUME NEW u \in Clients, Freeing(u)'
        PROVE  /\ slot'[u] \in Slots \ held'
               /\ \A i \in 1 .. Len(stack') : stack'[i] # slot'[u]
               /\ \A w \in Clients : Freeing(w)' /\ slot'[w] = slot'[u] => w = u
    <3>1. u # t /\ Freeing(u) /\ slot'[u] = slot[u] /\ slot[u] # s
      BY <1>4, <1>8, <1>9, <2>3
    <3>2. /\ slot[u] \in Slots \ held
          /\ \A i \in 1 .. Len(stack) : stack[i] # slot[u]
          /\ \A w \in Clients : Freeing(w) /\ slot[w] = slot[u] => w = u
      BY <3>1 DEF OneOwner
    <3> QED
      BY <1>4, <1>8, <1>10, <3>1, <3>2
  <2> QED
    BY <2>1, <2>2, <2>3 DEF OneOwner
<1>12. NoLeak'
  <2> SUFFICES ASSUME NEW r \in Slots, r \notin held,
                      ~ \E u \in Clients : Freeing(u)' /\ slot'[u] = r
               PROVE  \E i \in 1 .. Len(stack') : stack'[i] = r
    BY <1>4 DEF NoLeak
  <2>1. CASE r = s
    BY <1>1, <1>3, <2>1
  <2>2. CASE r # s
    <3>1. ~ \E u \in Clients : Freeing(u) /\ slot[u] = r
      BY <1>4, <1>8, <2>2
    <3>2. PICK j \in 1 .. Len(stack) : stack[j] = r
      BY <3>1 DEF NoLeak
    <3>3. j + 1 \in 2 .. Len(stack') /\ stack'[j + 1] = stack[(j + 1) - 1]
      BY <1>1, <1>3
    <3> QED
      BY <3>2, <3>3
  <2> QED
    BY <2>1, <2>2
<1>13. \A u \in Clients : CopyOK(u)'
  BY <1>1, <1>4, SwapCopies
<1> QED
  BY <1>5, <1>7, <1>11, <1>12, <1>13

-----------------------------------------------------------------------------
LEMMA StutterInv == IInv /\ UNCHANGED vars => IInv'
<1> SUFFICES ASSUME IInv, UNCHANGED vars PROVE IInv'
  OBVIOUS
<1> USE DEF IInv, vars, pool, call, copies
<1>1. TypeOK'
  BY DEF TypeOK
<1>2. ListIntact' /\ OneOwner' /\ NoLeak'
  <2>1. \A u \in Clients : Freeing(u)' = Freeing(u) /\ slot'[u] = slot[u]
    BY DEF Freeing
  <2> QED
    BY <2>1, PoolUnchanged
<1>3. \A u \in Clients : CopyOK(u)'
  BY DEF CopyOK
<1> QED
  BY <1>1, <1>2, <1>3

LEMMA NextInv == IInv /\ [Next]_vars => IInv'
<1> SUFFICES ASSUME IInv, [Next]_vars PROVE IInv'
  OBVIOUS
<1>1. CASE UNCHANGED vars
  BY <1>1, StutterInv
<1>2. ASSUME NEW t \in Clients,
             Alloc(t) \/ (\E s \in Slots : Free(t, s)) \/ Step(t)
      PROVE  IInv'
  <2>1. CASE Alloc(t)
    BY <2>1, AllocInv
  <2>2. CASE \E s \in Slots : Free(t, s)
    BY <2>2, FreeInv
  <2>3. CASE LoadIndex(t)
    BY <2>3, LoadIndexInv
  <2>4. CASE LoadVersion(t)
    BY <2>4, LoadVersionInv
  <2>5. CASE AllocEmpty(t)
    BY <2>5, AllocEmptyInv
  <2>6. CASE ReadNext(t)
    BY <2>6, ReadNextInv
  <2>7. CASE WriteNext(t)
    BY <2>7, WriteNextInv
  <2>8. CASE AllocSwap(t)
    BY <2>8, AllocSwapInv
  <2>9. CASE FreeSwap(t)
    BY <2>9, FreeSwapInv
  <2>10. CASE Retry(t)
    BY <2>10, RetryInv
  <2> QED
    BY <1>2, <2>1, <2>2, <2>3, <2>4, <2>5, <2>6, <2>7, <2>8, <2>9, <2>10
       DEF Step
<1> QED
  BY <1>1, <1>2 DEF Next

\* flipc2_bufgroup_alloc never gives a slot to two owners, flipc2_bufgroup_free
\* loses none and the chain of next[] from free_head stays intact, whatever the
\* number of clients and slots, although a client reads free_head in two halves
\* and its swap may come late.
THEOREM PoolCorrect == Spec => []PoolSafe
<1>1. IInv => PoolSafe
  BY DEF IInv, PoolSafe
<1> QED
  BY <1>1, InitInv, NextInv, PTL DEF Spec

\* The fields of the pool and of its clients keep their types.
THEOREM PoolTypes == Spec => []TypeOK
<1>1. IInv => TypeOK
  BY DEF IInv
<1> QED
  BY <1>1, InitInv, NextInv, PTL DEF Spec
=============================================================================
