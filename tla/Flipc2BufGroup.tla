--------------------------- MODULE Flipc2BufGroup ---------------------------
(***************************************************************************)
(* The buffer group of FLIPC v2 (flipc2.h, flipc2_bufgroup.c): a pool of   *)
(* slots in memory shared by several tasks, whose free list is a lock-free *)
(* stack.  free_head is a 64-bit word, the index of the first free slot    *)
(* and a version that every successful compare-and-swap increments.        *)
(*                                                                         *)
(* A slot may be freed by another client than the one that allocated it:   *)
(* its offset travels in a descriptor.  The plain read of free_head is two *)
(* 32-bit loads on i686, in an order the compiler chooses, so an action is *)
(* one 32-bit load, one store or one cmpxchg8b.  Stores need no buffer     *)
(* here: the locked cmpxchg8b that publishes a slot drains it.             *)
(***************************************************************************)
EXTENDS Integers, Sequences

CONSTANTS
  Clients,      \* threads of the tasks that share the pool
  SLOT_COUNT,
  VERSIONS      \* how many values the version counter has (2^32)

ASSUME PoolAssumption ==
  /\ SLOT_COUNT \in Nat \ {0}
  /\ VERSIONS \in Nat \ {0, 1}

Slots     == 0 .. SLOT_COUNT - 1
SLOT_NONE == -1
Index     == Slots \cup {SLOT_NONE}
Version   == 0 .. VERSIONS - 1

VARIABLES
  free_idx, free_ver,   \* the two halves of free_head
  next,                 \* the next[] array
  held,                 \* slots that are out of the pool and in use
  pc, op,               \* each client: where it is, "alloc" or "free"
  slot,                 \* the slot a free gives back
  idx, ver, next_idx,   \* its copies of free_head and of next[idx]
  loaded,               \* halves of free_head it has loaded
  \* History: the list the successful swaps have built, and how many of them
  \* happened since a client loaded the version.
  stack, age

pool   == <<free_idx, free_ver, next, held, stack>>
call   == <<op, slot>>
copies == <<idx, ver, next_idx, loaded, age>>
vars   == <<pool, pc, call, copies>>

\* flipc2_bufgroup_create: the chain 0, 1, ..., SLOT_COUNT - 1.
Init ==
  /\ free_idx = 0 /\ free_ver = 0
  /\ next = [s \in Slots |-> IF s + 1 \in Slots THEN s + 1 ELSE SLOT_NONE]
  /\ held = {}
  /\ pc = [t \in Clients |-> "idle"]
  /\ op = [t \in Clients |-> "alloc"]
  /\ slot = [t \in Clients |-> SLOT_NONE]
  /\ idx = [t \in Clients |-> SLOT_NONE]
  /\ ver = [t \in Clients |-> 0]
  /\ next_idx = [t \in Clients |-> SLOT_NONE]
  /\ loaded = [t \in Clients |-> {}]
  /\ stack = [i \in 1 .. SLOT_COUNT |-> i - 1]
  /\ age = [t \in Clients |-> 0]

Goto(t, l) == pc' = [pc EXCEPT ![t] = l]

-----------------------------------------------------------------------------
Alloc(t) ==
  /\ pc[t] = "idle"
  /\ op' = [op EXCEPT ![t] = "alloc"]
  /\ Goto(t, "load")
  /\ UNCHANGED <<pool, slot, copies>>

Free(t, s) ==
  /\ pc[t] = "idle"
  /\ s \in held
  /\ held' = held \ {s}
  /\ op' = [op EXCEPT ![t] = "free"]
  /\ slot' = [slot EXCEPT ![t] = s]
  /\ Goto(t, "load")
  /\ UNCHANGED <<free_idx, free_ver, next, stack, copies>>

\* old_tagged = hdr->free_head: the low half ...
LoadIndex(t) ==
  /\ pc[t] = "load" /\ "idx" \notin loaded[t]
  /\ idx' = [idx EXCEPT ![t] = free_idx]
  /\ loaded' = [loaded EXCEPT ![t] = @ \cup {"idx"}]
  /\ UNCHANGED <<pool, pc, call, ver, next_idx, age>>

\* ... and the high half.
LoadVersion(t) ==
  /\ pc[t] = "load" /\ "ver" \notin loaded[t]
  /\ ver' = [ver EXCEPT ![t] = free_ver]
  /\ loaded' = [loaded EXCEPT ![t] = @ \cup {"ver"}]
  /\ UNCHANGED <<pool, pc, call, idx, next_idx, age>>

\* The copies go out of scope at the end of a round.
Forget(t) ==
  /\ idx' = [idx EXCEPT ![t] = SLOT_NONE]
  /\ ver' = [ver EXCEPT ![t] = 0]
  /\ next_idx' = [next_idx EXCEPT ![t] = SLOT_NONE]
  /\ loaded' = [loaded EXCEPT ![t] = {}]

Loaded(t) == pc[t] = "load" /\ loaded[t] = {"idx", "ver"}

\* SLOT_NONE: the pool is empty, alloc returns -1.
AllocEmpty(t) ==
  /\ Loaded(t) /\ op[t] = "alloc" /\ idx[t] = SLOT_NONE
  /\ Forget(t)
  /\ age' = [age EXCEPT ![t] = 0]
  /\ Goto(t, "idle")
  /\ UNCHANGED <<pool, call>>

\* next_idx = bg->next[idx].
ReadNext(t) ==
  /\ Loaded(t) /\ op[t] = "alloc" /\ idx[t] # SLOT_NONE
  /\ next_idx' = [next_idx EXCEPT ![t] = next[idx[t]]]
  /\ Goto(t, "cas")
  /\ UNCHANGED <<pool, call, idx, ver, loaded, age>>

\* bg->next[slot] = old_idx.
WriteNext(t) ==
  /\ Loaded(t) /\ op[t] = "free"
  /\ next' = [next EXCEPT ![slot[t]] = idx[t]]
  /\ Goto(t, "cas")
  /\ UNCHANGED <<free_idx, free_ver, held, stack, call, copies>>

\* Faulty variant: a swap of the index alone, without the version.
Bug_HeadIndexOnly(t) == free_idx = idx[t]

\* cmpxchg8b compares both halves.
HeadUnchanged(t) == free_idx = idx[t] /\ free_ver = ver[t]

\* Bound: no client is overtaken by VERSIONS operations between its load of
\* the version and its swap.
NotOvertaken(t) ==
  \A u \in Clients \ {t} : "ver" \in loaded[u] => age[u] < VERSIONS - 1

\* A successful swap installs the index i with a new version.
Swap(t, i) ==
  /\ HeadUnchanged(t)
  /\ NotOvertaken(t)
  /\ free_idx' = i
  /\ free_ver' = (free_ver + 1) % VERSIONS
  /\ Forget(t)
  /\ age' = [u \in Clients |-> IF u # t /\ "ver" \in loaded[u]
                               THEN age[u] + 1 ELSE 0]
  /\ Goto(t, "idle")
  /\ UNCHANGED <<next, op>>

AllocSwap(t) ==
  /\ pc[t] = "cas" /\ op[t] = "alloc"
  /\ Swap(t, next_idx[t])
  /\ held' = held \cup {idx[t]}
  /\ stack' = Tail(stack)
  /\ UNCHANGED slot

FreeSwap(t) ==
  /\ pc[t] = "cas" /\ op[t] = "free"
  /\ Swap(t, slot[t])
  /\ stack' = <<slot[t]>> \o stack
  /\ slot' = [slot EXCEPT ![t] = SLOT_NONE]
  /\ UNCHANGED held

\* Faulty variant: free_head is not loaded again.
Bug_RetryNoReload(t) ==
  /\ pc[t] = "cas"
  /\ ~HeadUnchanged(t)
  /\ UNCHANGED vars

\* The swap failed: start over.
Retry(t) ==
  /\ pc[t] = "cas"
  /\ ~HeadUnchanged(t)
  /\ Forget(t)
  /\ age' = [age EXCEPT ![t] = 0]
  /\ Goto(t, "load")
  /\ UNCHANGED <<pool, call>>

-----------------------------------------------------------------------------
Step(t) ==
  \/ LoadIndex(t) \/ LoadVersion(t) \/ AllocEmpty(t) \/ ReadNext(t)
  \/ WriteNext(t) \/ AllocSwap(t) \/ FreeSwap(t) \/ Retry(t)

Next ==
  \E t \in Clients : Alloc(t) \/ (\E s \in Slots : Free(t, s)) \/ Step(t)

Spec == Init /\ [][Next]_vars

\* A client that has started a call goes on with it.
FairSpec == Spec /\ \A t \in Clients : WF_vars(Step(t))

-----------------------------------------------------------------------------
(* Properties. *)

\* Every field keeps its type; the version stays within its half of the word.
TypeOK ==
  /\ free_idx \in Index /\ free_ver \in Version
  /\ next \in [Slots -> Index]
  /\ held \in SUBSET Slots
  /\ pc \in [Clients -> {"idle", "load", "cas"}]
  /\ op \in [Clients -> {"alloc", "free"}]
  /\ slot \in [Clients -> Index]
  /\ idx \in [Clients -> Index]
  /\ ver \in [Clients -> Version]
  /\ next_idx \in [Clients -> Index]
  /\ loaded \in [Clients -> SUBSET {"idx", "ver"}]
  /\ stack \in Seq(Slots)
  /\ age \in [Clients -> 0 .. VERSIONS - 1]

\* The slot that follows position i of the free list.
Link(i) == IF i <= Len(stack) THEN stack[i] ELSE SLOT_NONE

\* The chain from free_head through next[] is the list of the slots given back
\* and not handed out since: no swap splices in a stale next index (ABA) or a
\* torn free_head.
ListIntact ==
  /\ free_idx = Link(1)
  /\ \A i \in 1 .. Len(stack) : next[stack[i]] = Link(i + 1)

\* The slots that flipc2_bufgroup_free is about to put back.
Freeing(t) == pc[t] # "idle" /\ op[t] = "free"

\* No slot has two owners: it is once on the free list, or in use, or on its
\* way back in one call of flipc2_bufgroup_free.
OneOwner ==
  /\ \A i, j \in 1 .. Len(stack) : stack[i] = stack[j] => i = j
  /\ \A i \in 1 .. Len(stack) : stack[i] \notin held
  /\ \A t \in Clients : Freeing(t) =>
       /\ slot[t] \in Slots \ held
       /\ \A i \in 1 .. Len(stack) : stack[i] # slot[t]
       /\ \A u \in Clients : Freeing(u) /\ slot[u] = slot[t] => u = t

\* No slot is lost.
NoLeak ==
  \A s \in Slots :
    \/ s \in held
    \/ \E i \in 1 .. Len(stack) : stack[i] = s
    \/ \E t \in Clients : Freeing(t) /\ slot[t] = s

\* The slots are shared out exactly, whatever swaps race: the free list is
\* intact, no slot has two owners and none is lost.
PoolSafe == ListIntact /\ OneOwner /\ NoLeak

\* The pool is lock-free: as long as some client is in a call, calls complete.
LockFree ==
  \/ <>[](\A t \in Clients : pc[t] = "idle")
  \/ []<><<\E t \in Clients : pc[t] # "idle" /\ pc'[t] = "idle">>_vars
=============================================================================
