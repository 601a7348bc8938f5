------------------------------ MODULE IpcSpace ------------------------------
(***************************************************************************)
(* The capability table of a task (ipc/ipc_entry.c, ipc_right.c,           *)
(* ipc_object.c) and the RPC hot path of mach_msg_overwrite_trap that      *)
(* resolves names in it without the space lock (ipc/mach_msg.c).           *)
(*                                                                         *)
(* Workers change the space under is_write_lock: they destroy a name, move *)
(* its last right into a message, find that its port has died, copy a      *)
(* right out under a new or a chosen name, and grow the table.  Senders    *)
(* resolve a reply name and a destination name through their port cache,   *)
(* the lock-free lookup or the read lock.  A lock-free sender reads memory *)
(* between any two stores of a worker, so each store that it can observe   *)
(* is a step of its own.                                                   *)
(*                                                                         *)
(* Storage is type-stable: tables are pooled by size, tree entries and     *)
(* ports come from zones that never shrink.  Block k is the memory of a    *)
(* table of SIZES[k] entries; while this space does not use it, it holds   *)
(* whatever entries another space put there.  The same goes for a tree     *)
(* entry: the zone serves all spaces.                                      *)
(***************************************************************************)
EXTENDS Naturals, Sequences, FiniteSets, SequencesExt

CONSTANTS
  Senders,         \* threads in the RPC hot path
  Workers,         \* threads of the task that change the space
  Ports,           \* port objects
  ReplyPort,       \* the task's reply port ...
  DestPort,        \* ... and the port that it sends to
  Ites,            \* tree entries of the type-stable zone
  SIZES,           \* its_size of the tables a space goes through
  GENS,            \* number of generations before IE_BITS_GEN wraps
  MAX_TRIES,       \* tries of a lock-free lookup before it gives up
  MAX_GENERATION,  \* bound: removals of rights
  Mortals,         \* bound: ports that may be destroyed by their receiver
  MAX_REBIRTH,     \* bound: how often a port object is allocated again
  ChosenNames,     \* names that the task asks for
  Dests,           \* names the senders send to
  DEAD,            \* what a dead name denotes
  NULL

ASSUME SizesAssumption ==
  /\ SIZES \in Seq(Nat \ {0, 1, 2})
  /\ Len(SIZES) > 0
  /\ \A j, k \in 1 .. Len(SIZES) : j < k => SIZES[j] < SIZES[k]
ASSUME GensAssumption == GENS \in Nat \ {0, 1}
ASSUME TriesAssumption == MAX_TRIES \in Nat \ {0}
ASSUME PortsAssumption ==
  /\ {ReplyPort, DestPort} \cup Mortals \subseteq Ports
  /\ ReplyPort # DestPort

Indices == 1 .. SIZES[Len(SIZES)] - 1   \* index 0 heads the free list
Gens    == 0 .. GENS - 1
Names   == Indices \X Gens
Index(n) == n[1]
Gen(n)   == n[2]
\* Every space begins with the smallest table: such a name is never in a tree.
Dense(n) == Index(n) < SIZES[1]
Blocks  == 1 .. Len(SIZES)
Locs    == (Blocks \X Indices) \cup Ites
Types   == {"none", "send", "receive", "dead"}
\* ite_name is <<idx, gen>>; a table slot is its own index.
Entries == [idx : Indices, gen : Gens, type : Types, obj : Ports \cup {NULL}]
\* A port object and how often it has been allocated: which port it is.
PortIds == Ports \X (0 .. MAX_REBIRTH)

ASSUME NamesAssumption == Dests \cup ChosenNames \subseteq Names
\* The sets are disjoint where the program has different types, and NULL and
\* DEAD differ from whatever they stand in for.
ASSUME KindsAssumption ==
  /\ Workers \cap Senders = {} /\ Ites \cap (Blocks \X Indices) = {}
  /\ NULL \notin Workers \cup Senders \cup Ports \cup Locs \cup Names \cup PortIds
  /\ DEAD \notin PortIds \cup {NULL}
ASSUME BoundsAssumption == MAX_GENERATION \in Nat /\ MAX_REBIRTH \in Nat

VARIABLES
  mem,     \* [Locs -> Entries]
  space,   \* struct ipc_space, its radix overflow is_tree and its free list
  lock,    \* is_lock_data: the writer and the readers
  port,    \* of each port object: ip_active, who holds ip_lock, incarnation
  S,       \* the senders' locals
  cache,   \* ith_port_cache of each sender: both names or NULL
  W,       \* the workers' locals
  rights,  \* what a name denotes: a PortId, DEAD or NULL (history)
  look     \* per sender, if the name was in use during its lookup (history)

vars == <<mem, space, lock, port, S, cache, W, rights, look>>

-----------------------------------------------------------------------------
(* Reading the space. *)

Type(l) == mem[l].type
Id(p)   == <<p, port[p].inc>>

\* The location that `index' would be found at, given a table and its size.
Slot(i, tab, size) == IF i < size THEN <<tab, i>> ELSE space.is_tree[i]

\* ipc_entry_lookup and the dereference of the lock-free one: a table slot
\* must carry the generation and a type, a tree entry the whole name.
Matches(n, l) ==
  /\ l # NULL
  /\ mem[l].gen = Gen(n)
  /\ IF l \in Ites THEN mem[l].idx = Index(n) ELSE Type(l) # "none"

ipc_entry_lookup(n) ==
  LET l == Slot(Index(n), space.is_table, space.is_table_size)
  IN  IF Matches(n, l) THEN l ELSE NULL

-----------------------------------------------------------------------------
(* A task with a receive right for its replies and one send right, both in *)
(* the first table.                                                        *)

ReplyName == <<1, 0>>
DestName  == <<2, 0>>

IdleSender ==
  [pc |-> "idle", which |-> "reply", dest |-> NULL, gen0 |-> 0, seq0 |-> 0,
   s |-> 0, size |-> 0, tab |-> 1, ent |-> NULL, tries |-> 0,
   rp |-> NULL, dp |-> NULL, settled |-> FALSE]

IdleWorker == [pc |-> "idle", op |-> "none", name |-> NULL, loc |-> NULL,
               port |-> NULL, tab |-> 0]

InitEntry(i) ==
  [idx |-> i, gen |-> IF i <= 2 THEN 0 ELSE GENS - 1,
   type |-> CASE i = 1 -> "receive" [] i = 2 -> "send" [] OTHER -> "none",
   obj  |-> CASE i = 1 -> ReplyPort [] i = 2 -> DestPort [] OTHER -> NULL]

\* An entry of a pooled block or of the zone: a right of some other space.
Pooled(i, p) == [idx |-> i, gen |-> 0, type |-> "send", obj |-> p]
Aliens == Ports \ {ReplyPort, DestPort}

Init ==
  /\ \E p \in Aliens :
       mem = [l \in Locs |->
               IF l \in Ites THEN Pooled(SIZES[Len(SIZES)] - 1, p)
               ELSE IF l[1] = 1 THEN InitEntry(l[2]) ELSE Pooled(l[2], p)]
  /\ space = [is_table |-> 1, is_table_size |-> SIZES[1], is_seq |-> 0,
              is_generation |-> 0, is_growing |-> FALSE,
              is_tree |-> [i \in Indices |-> NULL],
              free |-> [k \in 1 .. SIZES[1] - 3 |-> k + 2]]
  /\ lock = [writer |-> NULL, readers |-> {}]
  /\ port = [p \in Ports |-> [active |-> TRUE, owner |-> NULL, inc |-> 0]]
  /\ S = [t \in Senders |-> IdleSender]
  /\ cache = [t \in Senders |-> NULL]
  /\ W = [w \in Workers |-> IdleWorker]
  /\ rights = [n \in Names |-> CASE n = ReplyName -> <<ReplyPort, 0>>
                                 [] n = DestName  -> <<DestPort, 0>>
                                 [] OTHER -> NULL]
  /\ look = [t \in Senders |-> {}]

-----------------------------------------------------------------------------
(* Workers: changes of the space under its write lock. *)

At(w, pc)   == W[w].pc = pc
Goto(w, pc) == W' = [W EXCEPT ![w].pc = pc]
Finish(w)   == W' = [W EXCEPT ![w] = IdleWorker]
Begin(w, pc, op, n, l, p) ==
  /\ W[w].pc = "idle"
  /\ W' = [W EXCEPT ![w] = [pc |-> pc, op |-> op, name |-> n, loc |-> l,
                            port |-> p, tab |-> 0]]

WriteLock(w) ==
  /\ lock.writer = NULL /\ lock.readers = {}
  /\ lock' = [lock EXCEPT !.writer = w]
WriteUnlock == lock' = [lock EXCEPT !.writer = NULL]

Lock(p, who) ==
  /\ port[p].owner = NULL
  /\ port' = [port EXCEPT ![p].owner = who]
Free(p) == port[p].owner = NULL

\* The name that a sender looks up.
Target(r) == IF r.which = "reply" THEN ReplyName ELSE r.dest

\* History: whether the name was in use at the moments of its lookup.
Observe ==
  look' = [t \in Senders |->
    IF S'[t].pc \in {"l_seq", "l_size", "l_table", "l_entry", "l_check", "got"}
    THEN (IF S[t].pc \in {"snap_seq", "obj"} THEN {} ELSE look[t])
           \cup {rights'[Target(S'[t])] # NULL}
    ELSE {}]

NoSender == UNCHANGED <<S, cache>> /\ Observe
NoWorker == UNCHANGED <<mem, space, W, rights>> /\ Observe

\* ipc_entry_dealloc: the slot goes to the head of the free list, a tree
\* entry leaves the radix for the zone with its contents as they are.
Dealloc(l, sp) ==
  IF l \in Ites
  THEN /\ space' = [sp EXCEPT !.is_tree[mem[l].idx] = NULL]
       /\ UNCHANGED mem
  ELSE /\ space' = [sp EXCEPT !.free = <<mem[l].idx>> \o @]
       /\ mem' = [mem EXCEPT ![l].type = "none"]

\* A name is looked up under the write lock to be destroyed
\* (ipc_right_destroy, which bumps the generation at its head), to have its
\* last right moved (ipc_object_copyin with MOVE_SEND or MOVE_RECEIVE) or to
\* be looked at (ipc_right_info, which calls ipc_right_check).
RemoveLookup(w, n, op) ==
  /\ WriteLock(w)
  /\ op # "check" => space.is_generation < MAX_GENERATION
  /\ LET l == ipc_entry_lookup(n)
     IN  /\ l # NULL
         /\ op # "destroy" => Type(l) # "dead"
         /\ op = "check" => Type(l) = "send"
         /\ Begin(w, IF Type(l) = "dead" THEN "free" ELSE "lock", op, n, l,
                  mem[l].obj)
  /\ space' = [space EXCEPT !.is_generation = IF op = "destroy" THEN @ + 1 ELSE @]
  /\ UNCHANGED <<mem, port, rights>>
  /\ NoSender

\* ip_lock and ip_active.  The reference on a dead port is released here,
\* while the entry still points to it.
RemoveLock(w) ==
  LET p == W[w].port
  IN  /\ At(w, "lock")
      /\ Free(p)
      /\ IF port[p].active
         THEN /\ port' = IF W[w].op = "check" THEN port
                         ELSE [port EXCEPT ![p].owner = w]
              /\ IF W[w].op = "check" THEN WriteUnlock /\ Finish(w)
                 ELSE UNCHANGED lock /\ Goto(w, "obj")
         ELSE /\ W' = [W EXCEPT ![w].port = NULL,
                                ![w].pc = IF W[w].op = "destroy" THEN "obj"
                                          ELSE "dead"]
              /\ UNCHANGED <<lock, port>>
      /\ UNCHANGED <<mem, space, rights>>
      /\ NoSender

\* ipc_right_check converts the entry to a dead name, ie_bits first.
CheckDead(w) ==
  /\ At(w, "dead")
  /\ mem' = [mem EXCEPT ![W[w].loc].type = "dead"]
  /\ rights' = [rights EXCEPT ![W[w].name] = DEAD]
  /\ Goto(w, "obj")
  /\ UNCHANGED <<space, lock, port>>
  /\ NoSender

RemoveObject(w) ==
  /\ At(w, "obj")
  /\ mem' = [mem EXCEPT ![W[w].loc].obj = NULL]
  /\ \/ W[w].op = "destroy" /\ Goto(w, "free") /\ UNCHANGED lock
     \/ W[w].op = "move"    /\ Goto(w, "bits") /\ UNCHANGED lock
     \/ W[w].op = "check"   /\ Finish(w)       /\ WriteUnlock
  /\ UNCHANGED <<space, port, rights>>
  /\ NoSender

DestroyFree(w) ==
  /\ At(w, "free")
  /\ Dealloc(W[w].loc, space)
  /\ rights' = [rights EXCEPT ![W[w].name] = NULL]
  /\ WriteUnlock
  /\ IF W[w].port = NULL THEN Finish(w) ELSE Goto(w, "port")
  /\ UNCHANGED port
  /\ NoSender

\* Destroying a receive right destroys the port (ipc_port_destroy).
DestroyPort(w) ==
  /\ At(w, "port")
  /\ port' = [port EXCEPT ![W[w].port].owner = NULL,
                          ![W[w].port].active = @ /\ W[w].port # ReplyPort]
  /\ Finish(w)
  /\ UNCHANGED <<mem, space, lock, rights>>
  /\ NoSender

MoveBits(w) ==
  LET p == W[w].port
  IN  /\ At(w, "bits")
      /\ mem' = [mem EXCEPT ![W[w].loc].type = "none"]
      /\ rights' = [rights EXCEPT ![W[w].name] = NULL]
      /\ port' = IF p = NULL THEN port ELSE [port EXCEPT ![p].owner = NULL]
      /\ Goto(w, "bump")
      /\ UNCHANGED <<space, lock>>
      /\ NoSender

\* ipc_object_copyin bumps the generation after the entry has been cleared.
MoveBump(w) ==
  /\ At(w, "bump")
  /\ Dealloc(W[w].loc, [space EXCEPT !.is_generation = @ + 1])
  /\ WriteUnlock
  /\ Finish(w)
  /\ UNCHANGED <<port, rights>>
  /\ NoSender

-----------------------------------------------------------------------------
(* Copying a send right out into the space. *)

\* ipc_right_reverse: the space has a name for the live port already.
Named(p) ==
  /\ port[p].active
  /\ \E n \in Names : LET l == ipc_entry_lookup(n)
                      IN  l # NULL /\ mem[l].obj = p

\* A tree entry in the zone, for this space or another (IteReused) to take.
FreeIte(e) == \A i \in Indices : space.is_tree[i] # e

\* ipc_entry_get: the head of the free list under its next generation.
CopyoutGet(w, p) ==
  /\ WriteLock(w)
  /\ ~Named(p)
  /\ space.free # <<>>
  /\ LET i == Head(space.free)
         l == <<space.is_table, i>>
         g == (mem[l].gen + 1) % GENS
     IN  /\ mem' = [mem EXCEPT ![l].gen = g]
         /\ Begin(w, "c_obj", "copyout", <<i, g>>, l, p)
  /\ space' = [space EXCEPT !.free = Tail(@)]
  /\ UNCHANGED <<port, rights>>
  /\ NoSender

\* ipc_entry_alloc_name: a free slot is taken out of the free list, an index
\* past the table gets a tree entry.
CopyoutName(w, p, n) ==
  /\ WriteLock(w)
  /\ ~Named(p)
  /\ \/ /\ Index(n) < space.is_table_size
        /\ LET l == <<space.is_table, Index(n)>>
           IN  /\ Type(l) = "none"
               /\ mem' = [mem EXCEPT ![l].gen = Gen(n)]
               /\ \E k \in DOMAIN space.free :
                    /\ space.free[k] = Index(n)
                    /\ space' = [space EXCEPT !.free = RemoveAt(@, k)]
               /\ Begin(w, "c_obj", "copyout", n, l, p)
     \/ /\ Index(n) >= space.is_table_size
        /\ space.is_tree[Index(n)] = NULL
        /\ \E e \in Ites :
             /\ FreeIte(e)
             /\ mem' = [mem EXCEPT ![e] = [idx |-> Index(n), gen |-> Gen(n),
                                           type |-> "none", obj |-> NULL]]
             /\ space' = [space EXCEPT !.is_tree[Index(n)] = e]
             /\ Begin(w, "c_obj", "copyout", n, e, p)
  /\ UNCHANGED <<port, rights>>
  /\ NoSender

\* io_lock, io_active, ie_object; the port is unlocked before ie_bits is set.
\* A dead port gives KERN_INVALID_CAPABILITY and the name back.
CopyoutObject(w) ==
  LET p == W[w].port
  IN  /\ At(w, "c_obj")
      /\ Free(p)
      /\ IF port[p].active
         THEN /\ mem' = [mem EXCEPT ![W[w].loc].obj = p]
              /\ Goto(w, "c_bits")
              /\ UNCHANGED <<space, lock>>
         ELSE /\ Dealloc(W[w].loc, space)
              /\ WriteUnlock
              /\ Finish(w)
      /\ UNCHANGED <<port, rights>>
      /\ NoSender

CopyoutBits(w) ==
  /\ At(w, "c_bits")
  /\ mem' = [mem EXCEPT ![W[w].loc].type = "send"]
  /\ rights' = [rights EXCEPT ![W[w].name] = Id(W[w].port)]
  /\ WriteUnlock
  /\ Finish(w)
  /\ UNCHANGED <<space, port>>
  /\ NoSender

-----------------------------------------------------------------------------
(* ipc_entry_grow_table, called when ipc_entry_get finds the list empty. *)

\* The largest table gives KERN_NO_SPACE; a second grower waits for the first.
GrowStart(w) ==
  /\ lock.writer = NULL /\ lock.readers = {}
  /\ space.free = <<>>
  /\ ~space.is_growing
  /\ space.is_table < Len(SIZES)
  /\ space' = [space EXCEPT !.is_growing = TRUE]
  /\ Begin(w, "g_alloc", "grow", NULL, NULL, NULL)
  /\ UNCHANGED <<mem, lock, port, rights>>
  /\ NoSender

\* it_entries_alloc outside the lock, then the seqlock is opened.
GrowOpen(w) ==
  /\ At(w, "g_alloc")
  /\ WriteLock(w)
  /\ space' = [space EXCEPT !.is_growing = FALSE, !.is_seq = @ + 1]
  /\ Goto(w, "g_table")
  /\ UNCHANGED <<mem, port, rights>>
  /\ NoSender

\* Without memory the table stays (KERN_RESOURCE_SHORTAGE).
GrowFails(w) ==
  /\ At(w, "g_alloc")
  /\ lock.writer = NULL /\ lock.readers = {}
  /\ space' = [space EXCEPT !.is_growing = FALSE]
  /\ Finish(w)
  /\ UNCHANGED <<mem, lock, port, rights>>
  /\ NoSender

\* Faulty variant: the new size is published before the new table.
Bug_GrowPublish(w) ==
  /\ \/ /\ At(w, "g_table")
        /\ space' = [space EXCEPT !.is_table_size = SIZES[space.is_table + 1]]
        /\ Goto(w, "g_size")
     \/ /\ At(w, "g_size")
        /\ space' = [space EXCEPT !.is_table = @ + 1]
        /\ Goto(w, "g_copy")
  /\ UNCHANGED <<mem, lock, port, rights>>
  /\ NoSender

\* is_table is published before is_table_size.
GrowPublish(w) ==
  /\ \/ /\ At(w, "g_table")
        /\ space' = [space EXCEPT !.is_table = @ + 1]
        /\ Goto(w, "g_size")
     \/ /\ At(w, "g_size")
        /\ space' = [space EXCEPT !.is_table_size = SIZES[space.is_table]]
        /\ Goto(w, "g_copy")
  /\ UNCHANGED <<mem, lock, port, rights>>
  /\ NoSender

\* memcpy of the old part, memset of the new one.
GrowCopy(w) ==
  LET tab == space.is_table
  IN  /\ At(w, "g_copy")
      /\ mem' = [l \in Locs |->
                   IF l \notin {tab} \X Indices THEN mem[l]
                   ELSE IF l[2] < SIZES[tab - 1] THEN mem[<<tab - 1, l[2]>>]
                   ELSE [idx |-> l[2], gen |-> GENS - 1, type |-> "none",
                         obj |-> NULL]]
      /\ Goto(w, "g_move")
      /\ UNCHANGED <<space, lock, port, rights>>
      /\ NoSender

\* The elements of a set of indices from the lowest to the highest.
Ascending(set) ==
  [k \in 1 .. Cardinality(set) |->
     CHOOSE i \in set : Cardinality({j \in set : j < i}) = k - 1]

\* The new indices that no tree entry took, in the order of the free list.
NewPart(tab) == SIZES[tab - 1] .. SIZES[tab] - 1
\* Faulty variant: slots that took a tree entry are put on the list as well.
Bug_Fresh(tab, moved) == Ascending(NewPart(tab))
Fresh(tab, moved) == Ascending(NewPart(tab) \ moved)

\* Tree entries that now fit move into the table, the other new slots join
\* the free list, the seqlock closes.
GrowMove(w) ==
  LET tab   == space.is_table
      moved == {i \in NewPart(tab) : space.is_tree[i] # NULL}
  IN  /\ At(w, "g_move")
      /\ mem' = [l \in Locs |-> IF l \in {tab} \X moved
                                THEN mem[space.is_tree[l[2]]] ELSE mem[l]]
      /\ space' = [space EXCEPT !.is_tree = [i \in Indices |->
                                               IF i \in moved THEN NULL ELSE @[i]],
                                !.free = Fresh(tab, moved) \o @,
                                !.is_seq = @ + 1]
      /\ WriteUnlock
      /\ W' = [W EXCEPT ![w].pc = "g_free", ![w].tab = tab - 1]
      /\ UNCHANGED <<port, rights>>
      /\ NoSender

\* it_entries_free pools the old table, where another space may take it and
\* fill it with rights of its own.
GrowFree(w) ==
  /\ At(w, "g_free")
  /\ \E p \in Aliens :
       mem' = [l \in Locs |-> IF l \in {W[w].tab} \X Indices
                              THEN Pooled(l[2], p) ELSE mem[l]]
  /\ Finish(w)
  /\ UNCHANGED <<space, lock, port, rights>>
  /\ NoSender

-----------------------------------------------------------------------------
(* The other tasks: a port's receiver destroys it, another space takes a    *)
(* tree entry for a name of its own, and a port object that nothing refers  *)
(* to is allocated again for another port.                                  *)

PortDies(p) ==
  /\ p \in Mortals
  /\ port[p].active /\ Free(p)
  /\ rights[ReplyName] # Id(p)
  /\ port' = [port EXCEPT ![p].active = FALSE]
  /\ UNCHANGED <<lock, S, cache>>
  /\ NoWorker

\* ite_alloc in another space: the entry that a lock-free reader of this one
\* may still hold now carries a right of that space.
IteReused(e) ==
  /\ FreeIte(e)
  /\ \E i \in Indices \ 1 .. SIZES[1] - 1, p \in Aliens :
       mem' = [mem EXCEPT ![e] = Pooled(i, p)]
  /\ UNCHANGED <<space, lock, port, W, rights>>
  /\ NoSender

PortReused(p) ==
  /\ ~port[p].active /\ Free(p)
  /\ port[p].inc < MAX_REBIRTH
  /\ \A w \in Workers : W[w].port # p
  /\ \A n \in Names : rights[n] = Id(p)
       => \E w \in Workers : W[w].name = n /\ W[w].port = NULL
  /\ port' = [port EXCEPT ![p].active = TRUE, ![p].inc = @ + 1]
  /\ UNCHANGED <<lock, S, cache>>
  /\ NoWorker

-----------------------------------------------------------------------------
(* Senders: mach_msg_overwrite_trap, sending a request with COPY_SEND to a  *)
(* destination and a MAKE_SEND_ONCE reply.                                  *)

Pc(t)      == S[t].pc
Wanted(r)  == IF r.which = "reply" THEN "receive" ELSE "send"
Sets(t, r) == S' = [S EXCEPT ![t] = r]
Locked(d)  == [IdleSender EXCEPT !.pc = "r_lock", !.dest = d]

\* No removal is between its bump of is_generation and its clearing of the
\* entry, in either order: the generation and the table agree.
Settled ==
  \A w \in Workers :
    ~ \/ W[w].op = "destroy" /\ W[w].pc # "port"
      \/ W[w].op = "move"    /\ W[w].pc = "bump"

\* The per-thread cache: both names under the generation just read.
ProbeCache(t, d) ==
  /\ Pc(t) = "idle"
  /\ IF cache[t] # NULL /\ cache[t].gen = space.is_generation /\ cache[t].dest = d
     THEN Sets(t, [IdleSender EXCEPT !.pc = "c_lock", !.dest = d,
                                     !.rp = cache[t].rp, !.dp = cache[t].dp])
     ELSE Sets(t, [IdleSender EXCEPT !.pc = "snap_gen", !.dest = d])
  /\ UNCHANGED <<cache, lock, port>>
  /\ NoWorker

\* ip_lock of the destination, on each of the three ways to it.
LockDest(t) ==
  LET next == [c_lock |-> "c_try", lock |-> "try", r_port |-> "r_try"]
  IN  /\ Pc(t) \in DOMAIN next
      /\ Lock(S[t].dp, t)
      /\ Sets(t, [S[t] EXCEPT !.pc = next[S[t].pc]])
      /\ UNCHANGED <<cache, lock>>
      /\ NoWorker

\* ip_active of the destination and ip_lock_try of the reply port.
BothLocked(r) == port[r.dp].active /\ Free(r.rp)
LockReply(t, r, ok) ==
  port' = IF ok THEN [port EXCEPT ![r.rp].owner = t]
          ELSE [port EXCEPT ![r.dp].owner = NULL]

\* A failure empties the cache and goes to the slow copyin.
CacheTry(t) ==
  LET r == S[t]
  IN  /\ Pc(t) = "c_try"
      /\ LockReply(t, r, BothLocked(r))
      /\ Sets(t, IF BothLocked(r) THEN [r EXCEPT !.pc = "send"] ELSE IdleSender)
      /\ cache' = [cache EXCEPT ![t] = IF BothLocked(r) THEN @ ELSE NULL]
      /\ UNCHANGED lock
      /\ NoWorker

-----------------------------------------------------------------------------
(* urmach_msg_lockfree_resolve and ipc_entry_lookup_lockfree. *)

Snapshot(t) ==
  /\ \/ /\ Pc(t) = "snap_gen"
        /\ Sets(t, [S[t] EXCEPT !.pc = "snap_seq", !.gen0 = space.is_generation,
                                !.settled = Settled])
     \/ /\ Pc(t) = "snap_seq"
        /\ Sets(t, [S[t] EXCEPT !.pc = "l_seq", !.seq0 = space.is_seq])
  /\ UNCHANGED <<cache, lock, port>>
  /\ NoWorker

\* Faulty variant: one try too many.
Bug_GivesUp(r) == r.tries > MAX_TRIES
GivesUp(r) == r.tries = MAX_TRIES

\* One try: an odd is_seq is tried again, too many tries give IE_NULL.
LookupSeq(t) ==
  LET r == S[t]
  IN  /\ Pc(t) = "l_seq"
      /\ Sets(t, IF GivesUp(r) THEN [r EXCEPT !.pc = "got", !.ent = NULL]
                 ELSE IF space.is_seq % 2 = 1 THEN [r EXCEPT !.tries = @ + 1]
                 ELSE [r EXCEPT !.pc = "l_size", !.s = space.is_seq,
                                !.tries = @ + 1, !.ent = NULL])
      /\ UNCHANGED <<cache, lock, port>>
      /\ NoWorker

\* is_table_size is read before is_table.
LookupTable(t) ==
  /\ \/ /\ Pc(t) = "l_size"
        /\ Sets(t, [S[t] EXCEPT !.pc = "l_table", !.size = space.is_table_size])
     \/ /\ Pc(t) = "l_table"
        /\ Sets(t, [S[t] EXCEPT !.pc = "l_entry", !.tab = space.is_table])
  /\ UNCHANGED <<cache, lock, port>>
  /\ NoWorker

LookupEntry(t) ==
  LET n == Target(S[t])
      l == Slot(Index(n), S[t].tab, S[t].size)
  IN  /\ Pc(t) = "l_entry"
      /\ Sets(t, [S[t] EXCEPT !.pc = "l_check",
                              !.ent = IF Matches(n, l) THEN l ELSE NULL,
                              !.size = 0, !.tab = 1])
      /\ UNCHANGED <<cache, lock, port>>
      /\ NoWorker

\* is_seq is read again after the walk.
SameTable(r) == space.is_seq = r.s

LookupCheck(t) ==
  /\ Pc(t) = "l_check"
  /\ Sets(t, [S[t] EXCEPT !.pc = IF SameTable(S[t]) THEN "got" ELSE "l_seq",
                          !.s = 0])
  /\ UNCHANGED <<cache, lock, port>>
  /\ NoWorker

\* The type of the entry is read again; a miss goes to the locked lookup.
ResolveType(t) ==
  LET r == S[t]
  IN  /\ Pc(t) = "got"
      /\ Sets(t, IF r.ent # NULL /\ Type(r.ent) = Wanted(r)
                 THEN [r EXCEPT !.pc = "obj", !.tries = 0]
                 ELSE Locked(r.dest))
      /\ UNCHANGED <<cache, lock, port>>
      /\ NoWorker

\* ie_object is read; after the destination's both must be there.
ResolveObject(t) ==
  LET r == S[t]
      o == mem[r.ent].obj
  IN  /\ Pc(t) = "obj"
      /\ Sets(t, IF r.which = "reply"
                 THEN [r EXCEPT !.pc = "l_seq", !.which = "dest", !.rp = o,
                                !.ent = NULL]
                 ELSE IF r.rp = NULL \/ o = NULL THEN Locked(r.dest)
                 ELSE [r EXCEPT !.pc = "lock", !.dp = o, !.ent = NULL])
      /\ UNCHANGED <<cache, lock, port>>
      /\ NoWorker

ResolveTry(t) ==
  LET r == S[t]
  IN  /\ Pc(t) = "try"
      /\ LockReply(t, r, BothLocked(r))
      /\ Sets(t, IF BothLocked(r) THEN [r EXCEPT !.pc = "verify"]
                 ELSE Locked(r.dest))
      /\ UNCHANGED <<cache, lock>>
      /\ NoWorker

\* Faulty variant: only a growth of the table fails the verification.
Bug_SnapshotHolds(r) == space.is_seq = r.seq0
SnapshotHolds(r) == space.is_generation = r.gen0 /\ space.is_seq = r.seq0
\* Faulty variant: the reply port stays locked.
Bug_Unlocked(r) == [port EXCEPT ![r.dp].owner = NULL]
Unlocked(r) == [port EXCEPT ![r.rp].owner = NULL, ![r.dp].owner = NULL]

\* Both ports locked: the snapshot must still hold.
ResolveVerify(t) ==
  LET r == S[t]
  IN  /\ Pc(t) = "verify"
      /\ port' = IF SnapshotHolds(r) THEN port ELSE Unlocked(r)
      /\ Sets(t, IF SnapshotHolds(r)
                 THEN [r EXCEPT !.pc = "fill", !.settled = @ /\ Settled]
                 ELSE Locked(r.dest))
      /\ UNCHANGED <<cache, lock>>
      /\ NoWorker

-----------------------------------------------------------------------------
(* The locked lookup, the cache and the copyin. *)

ReadLock(t) ==
  /\ Pc(t) = "r_lock"
  /\ lock.writer = NULL
  /\ lock' = [lock EXCEPT !.readers = @ \cup {t}]
  /\ Sets(t, [S[t] EXCEPT !.pc = "r_find"])
  /\ UNCHANGED <<cache, port>>
  /\ NoWorker

\* Both names are looked up under the read lock; a missing one or one of the
\* wrong type leaves the hot path.
ReadFind(t) ==
  LET re == ipc_entry_lookup(ReplyName)
      de == ipc_entry_lookup(S[t].dest)
      ok == /\ re # NULL /\ Type(re) = "receive"
            /\ de # NULL /\ Type(de) = "send"
  IN  /\ Pc(t) = "r_find"
      /\ IF ok THEN /\ Sets(t, [S[t] EXCEPT !.pc = "r_port", !.rp = mem[re].obj,
                                            !.dp = mem[de].obj])
                    /\ UNCHANGED lock
               ELSE /\ Sets(t, IdleSender)
                    /\ lock' = [lock EXCEPT !.readers = @ \ {t}]
      /\ UNCHANGED <<cache, port>>
      /\ NoWorker

\* Either way the read lock is dropped.
ReadTry(t) ==
  LET r == S[t]
  IN  /\ Pc(t) = "r_try"
      /\ LockReply(t, r, BothLocked(r))
      /\ Sets(t, IF BothLocked(r) THEN [r EXCEPT !.pc = "fill", !.settled = TRUE]
                 ELSE IdleSender)
      /\ lock' = [lock EXCEPT !.readers = @ \ {t}]
      /\ UNCHANGED cache
      /\ NoWorker

\* The cache takes the generation of this moment, whichever lookup it was.
FillCache(t) ==
  LET r == S[t]
  IN  /\ Pc(t) = "fill"
      /\ cache' = [cache EXCEPT ![t] =
                     [dest |-> r.dest, rp |-> r.rp, dp |-> r.dp,
                      gen |-> space.is_generation,
                      settled |-> r.settled /\ Settled]]
      /\ Sets(t, [IdleSender EXCEPT !.pc = "send", !.dest = r.dest, !.rp = r.rp,
                                    !.dp = r.dp])
      /\ UNCHANGED <<lock, port>>
      /\ NoWorker

\* fast_copyin_cached: references are taken and both ports unlocked.
Send(t) ==
  /\ Pc(t) = "send"
  /\ port' = Unlocked(S[t])
  /\ Sets(t, IdleSender)
  /\ UNCHANGED <<cache, lock>>
  /\ NoWorker

-----------------------------------------------------------------------------
WorkerStep(w) ==
  \/ RemoveLock(w) \/ CheckDead(w) \/ RemoveObject(w)
  \/ DestroyFree(w) \/ DestroyPort(w) \/ MoveBits(w) \/ MoveBump(w)
  \/ CopyoutObject(w) \/ CopyoutBits(w)
  \/ GrowOpen(w) \/ GrowFails(w) \/ GrowPublish(w)
  \/ GrowCopy(w) \/ GrowMove(w) \/ GrowFree(w)

WorkerStart(w) ==
  \/ \E n \in Names, op \in {"destroy", "move", "check"} : RemoveLookup(w, n, op)
  \/ \E p \in Ports \ {ReplyPort} :
       CopyoutGet(w, p) \/ \E n \in ChosenNames : CopyoutName(w, p, n)
  \/ GrowStart(w)

SenderStep(t) ==
  \/ LockDest(t) \/ CacheTry(t) \/ Snapshot(t)
  \/ LookupSeq(t) \/ LookupTable(t) \/ LookupEntry(t) \/ LookupCheck(t)
  \/ ResolveType(t) \/ ResolveObject(t) \/ ResolveTry(t) \/ ResolveVerify(t)
  \/ ReadLock(t) \/ ReadFind(t) \/ ReadTry(t)
  \/ FillCache(t) \/ Send(t)

Next ==
  \/ \E w \in Workers : WorkerStep(w) \/ WorkerStart(w)
  \/ \E t \in Senders : SenderStep(t) \/ \E d \in Dests : ProbeCache(t, d)
  \/ \E p \in Ports : PortDies(p)
  \/ \E e \in Ites : IteReused(e)

Spec == Init /\ [][Next]_vars

\* The same with port objects that are allocated again.
ReuseSpec == Init /\ [][Next \/ \E p \in Ports : PortReused(p)]_vars

-----------------------------------------------------------------------------
(* Properties. *)

\* The types of the space, the ports and the threads' locals.
TypeOK ==
  /\ mem \in [Locs -> Entries]
  /\ space.is_tree \in [Indices -> Ites \cup {NULL}]
  /\ space.is_table \in Blocks
  /\ \E k \in Blocks : space.is_table_size = SIZES[k]
  /\ space.is_seq \in Nat /\ space.is_generation \in Nat
  /\ space.is_growing \in BOOLEAN /\ space.free \in Seq(Indices)
  /\ lock \in [writer : Workers \cup {NULL}, readers : SUBSET Senders]
  /\ port \in [Ports -> [active : BOOLEAN, inc : 0 .. MAX_REBIRTH,
                         owner : Workers \cup Senders \cup {NULL}]]
  /\ \A t \in Senders :
       /\ S[t].which \in {"reply", "dest"} /\ S[t].dest \in Names \cup {NULL}
       /\ S[t].rp \in Ports \cup {NULL} /\ S[t].dp \in Ports \cup {NULL}
       /\ S[t].ent \in Locs \cup {NULL} /\ S[t].tries \in 0 .. MAX_TRIES
  /\ \A w \in Workers :
       /\ W[w].loc \in Locs \cup {NULL} /\ W[w].port \in Ports \cup {NULL}
  /\ rights \in [Names -> PortIds \cup {DEAD, NULL}]

\* A lock-free lookup that takes an index for one of the table reads inside
\* the block it holds: it never pairs an old table with the size of a new one
\* (ipc_entry_lookup_lockfree reads the size first, ipc_entry_grow_table
\* publishes it last).
InBounds ==
  \A t \in Senders :
    S[t].pc = "l_entry" /\ Index(Target(S[t])) < S[t].size
      => Index(Target(S[t])) < SIZES[S[t].tab]

\* Between two changes of the space every name is found exactly when it is in
\* use, with what it denotes, and the free list holds each unused slot of the
\* table once: growing the table loses no sparse name, and no slot is both
\* free and in use.
MapIntact ==
  lock.writer = NULL =>
    /\ \A n \in Names :
         LET l == ipc_entry_lookup(n)
         IN  rights[n] = IF l = NULL THEN NULL
                         ELSE IF Type(l) = "dead" THEN DEAD
                         ELSE Id(mem[l].obj)
    /\ {space.free[k] : k \in DOMAIN space.free}
         = {i \in Indices : i < space.is_table_size
                              /\ Type(<<space.is_table, i>>) = "none"}
    /\ \A j, k \in DOMAIN space.free : space.free[j] = space.free[k] => j = k

\* A lock-free lookup answers for a moment while it ran: it finds a table slot
\* only if the name was in use then, and says IE_NULL only if there was a
\* moment when it was not or the tries ran out.  Nothing is said of a tree
\* entry that it finds: the entry may be one that a copyout is filling or has
\* given back.
LookupLinearizable ==
  \A t \in Senders : S[t].pc = "got" =>
    /\ S[t].ent \in Locs \ Ites => TRUE \in look[t]
    /\ S[t].ent = NULL => FALSE \in look[t] \/ S[t].tries = MAX_TRIES

\* A lookup without the space lock reads inside the table and, unless it finds
\* a tree entry, answers for a moment while it ran, against any growth and any
\* removal.
LookupSound == InBounds /\ LookupLinearizable

\* The lock-free resolver returns the ports that its names denote at that
\* moment, against any growth and any removal, on two conditions that the code
\* does not enforce: no removal was between its bump of is_generation and its
\* clearing of the entry when the snapshot was taken or checked, and the
\* destination is not a sparse name.  Without either of them it may return the
\* port of another name (NeverMisdelivers).
ResolveSound ==
  \A t \in Senders : S[t].pc = "fill" /\ S[t].settled /\ Dense(S[t].dest) =>
    /\ rights[S[t].dest] = Id(S[t].dp)
    /\ rights[ReplyName] = Id(S[t].rp)

\* What the hot path takes from its cache: both names under the generation of
\* the space, to a destination that is active.
Cached(t) ==
  /\ cache[t] # NULL
  /\ cache[t].gen = space.is_generation
  /\ port[cache[t].dp].active

\* The hot path may "trust space->is_generation as the sole guard that a
\* cached name->port mapping is still live" (ipc_right.c:1008): with no removal
\* half done and the space unlocked, a cached destination is what its name
\* denotes.
CachedNameLive ==
  \A t \in Senders :
    Cached(t) /\ cache[t].settled /\ Settled /\ lock.writer = NULL =>
      rights[cache[t].dest] = Id(cache[t].dp)

\* A path that gives up keeps no lock: what a sender holds are the two ports of
\* the copyin it is in, and the space only while it looks names up in it.
NoLockLeft ==
  \A t \in Senders :
    /\ \A p \in Ports : port[p].owner = t =>
         /\ p \in {S[t].rp, S[t].dp}
         /\ S[t].pc \in {"c_try", "try", "r_try", "verify", "fill", "send"}
    /\ t \in lock.readers => S[t].pc \in {"r_find", "r_port", "r_try"}

=============================================================================
