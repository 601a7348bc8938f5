--------------------------- MODULE IpcSpaceProofs ---------------------------
(***************************************************************************)
(* Theorems about IpcSpace, for any number of senders, workers, ports,     *)
(* names, tables and growths.                                              *)
(*                                                                         *)
(* The invariant has three layers.  Locks says who holds which lock at     *)
(* each point of the code.  Map says what the space holds: which block is  *)
(* the table, also in the middle of a growth (Home, Limit), what each      *)
(* entry denotes, also in the middle of a change (EntryOK, WorkOK), and    *)
(* what is on the free list.  The third layer says what a sender without   *)
(* locks knows: of the table while is_seq stands (LookOK), of the ports it *)
(* found while is_generation stands too (ResolveOK).                       *)
(***************************************************************************)
EXTENDS IpcSpace, FiniteSetTheorems, SequenceTheorems, TLAPS

-----------------------------------------------------------------------------
(* Types. *)

SenderPcs == {"idle", "c_lock", "c_try", "snap_gen", "snap_seq", "l_seq",
              "l_size", "l_table", "l_entry", "l_check", "got", "obj", "lock",
              "try", "verify", "r_lock", "r_find", "r_port", "r_try", "fill",
              "send"}
NamePcs   == {"lock", "dead", "obj", "free", "bits", "bump", "c_obj", "c_bits"}
TablePcs  == {"g_table", "g_size", "g_copy", "g_move"}
WritePcs  == NamePcs \cup TablePcs
WorkerPcs == WritePcs \cup {"idle", "port", "g_alloc", "g_free"}

Spaces == [is_table : Blocks, is_table_size : Nat, is_seq : Nat,
           is_generation : Nat, is_growing : BOOLEAN,
           is_tree : [Indices -> Ites \cup {NULL}], free : Seq(Indices)]
PortStates == [active : BOOLEAN, inc : 0 .. MAX_REBIRTH,
               owner : Workers \cup Senders \cup {NULL}]
SenderLocals ==
  [pc : SenderPcs, which : {"reply", "dest"}, dest : Names \cup {NULL},
   gen0 : Nat, seq0 : Nat, s : Nat, size : Nat, tab : Blocks,
   ent : Locs \cup {NULL}, tries : 0 .. MAX_TRIES,
   rp : Ports \cup {NULL}, dp : Ports \cup {NULL}, settled : BOOLEAN]
WorkerLocals ==
  [pc : WorkerPcs, op : {"none", "destroy", "move", "check", "copyout", "grow"},
   name : Names \cup {NULL}, loc : Locs \cup {NULL}, port : Ports \cup {NULL},
   tab : Blocks \cup {0}]
CachedPairs == [dest : Names, rp : Ports, dp : Ports, gen : Nat, settled : BOOLEAN]

Typed ==
  /\ mem \in [Locs -> Entries]
  /\ space \in Spaces
  /\ lock \in [writer : Workers \cup {NULL}, readers : SUBSET Senders]
  /\ port \in [Ports -> PortStates]
  /\ S \in [Senders -> SenderLocals]
  /\ cache \in [Senders -> CachedPairs \cup {NULL}]
  /\ W \in [Workers -> WorkerLocals]
  /\ rights \in [Names -> PortIds \cup {DEAD, NULL}]
  /\ look \in [Senders -> SUBSET BOOLEAN]

-----------------------------------------------------------------------------
(* Locks. *)

\* Where a sender holds the read lock, one port or two; where a worker holds
\* the port of its name.
Reading == {"r_find", "r_port", "r_try"}
OneHeld == {"c_try", "try", "r_try"}
TwoHeld == {"verify", "fill", "send"}
WithPort == {"obj", "free", "bits", "port"}

\* is_lock_data is held by the worker in the middle of a change, or by the
\* senders that read.
SpaceLock ==
  /\ \A w \in Workers : lock.writer = w <=> W[w].pc \in WritePcs
  /\ lock.writer # NULL => lock.readers = {}
  /\ \A t \in Senders : t \in lock.readers <=> S[t].pc \in Reading

\* What a sender has in hand at each point.
SenderOK(t) ==
  /\ S[t].pc # "idle" => S[t].dest \in Dests
  /\ S[t].pc \in OneHeld \cup TwoHeld \cup {"c_lock", "lock", "r_port"}
       => S[t].rp \in Ports /\ S[t].dp \in Ports
  /\ \A p \in Ports : port[p].owner = t <=>
       \/ S[t].pc \in OneHeld /\ p = S[t].dp
       \/ S[t].pc \in TwoHeld /\ p \in {S[t].dp, S[t].rp}
  /\ S[t].pc \in {"verify", "fill"} => port[S[t].dp].active
  /\ S[t].pc = "obj" => S[t].ent # NULL
SenderPorts == \A t \in Senders : SenderOK(t)

\* Which operation a worker is in.
OpAt(pc, op) ==
  \/ pc = "idle" /\ op = "none"
  \/ pc \in {"lock", "obj"} /\ op \in {"destroy", "move", "check"}
  \/ pc = "dead" /\ op \in {"move", "check"}
  \/ pc \in {"free", "port"} /\ op = "destroy"
  \/ pc \in {"bits", "bump"} /\ op = "move"
  \/ pc \in {"c_obj", "c_bits"} /\ op = "copyout"
  \/ pc \in TablePcs \cup {"g_alloc", "g_free"} /\ op = "grow"

\* A worker holds a live port from ip_lock to the end of the removal.
WorkerOK(w) ==
  /\ OpAt(W[w].pc, W[w].op)
  /\ W[w].pc \in {"lock", "port", "c_obj", "c_bits"} => W[w].port \in Ports
  /\ W[w].pc \in {"c_obj", "c_bits"} => W[w].port # ReplyPort
  /\ W[w].pc = "dead" => W[w].port = NULL
  /\ \A p \in Ports : port[p].owner = w <=> W[w].port = p /\ W[w].pc \in WithPort
  /\ \A p \in Ports : port[p].owner = w => port[p].active
WorkerPorts == \A w \in Workers : WorkerOK(w)

Locks == SpaceLock /\ SenderPorts /\ WorkerPorts

\* The reply port lives as long as its name.
ReplyLives ==
  /\ rights[ReplyName] = Id(ReplyPort) => port[ReplyPort].active
  /\ \A w \in Workers : W[w].pc = "port" /\ W[w].port = ReplyPort
       => rights[ReplyName] # Id(ReplyPort)

-----------------------------------------------------------------------------
(* The table. *)

\* What the writer is at, the block that holds the entries, how many of them
\* count, and where the entry of an index is found.
Phase == IF lock.writer = NULL THEN "idle" ELSE W[lock.writer].pc
Home  == IF Phase \in {"g_size", "g_copy"} THEN space.is_table - 1 ELSE space.is_table
Limit == IF Phase \in {"g_size", "g_copy", "g_move"}
         THEN SIZES[space.is_table - 1] ELSE SIZES[space.is_table]
Where(i) == IF i < Limit THEN <<Home, i>> ELSE space.is_tree[i]

\* The table, its size and the parity of is_seq; one grower at a time, and an
\* old block that is given back is not in use.
TableInv ==
  /\ Phase \in {"g_size", "g_copy", "g_move"} => space.is_table > 1
  /\ space.is_table_size = IF Phase = "g_size" THEN SIZES[space.is_table - 1]
                           ELSE SIZES[space.is_table]
  /\ space.is_seq % 2 = IF Phase \in TablePcs THEN 1 ELSE 0
  /\ Phase = "g_table" => space.is_table < Len(SIZES)
  /\ \A w \in Workers : W[w].pc = "g_alloc" =>
       /\ space.is_growing /\ space.is_table < Len(SIZES) /\ Phase \notin TablePcs
       /\ \A v \in Workers : W[v].pc = "g_alloc" => v = w
  /\ \A w \in Workers : W[w].pc = "g_free" => W[w].tab \in Blocks /\ W[w].tab < Home

\* The index whose name is being changed.
Busy(i) == lock.writer # NULL /\ W[lock.writer].pc \in NamePcs
             /\ Index(W[lock.writer].name) = i

\* An entry says what its index and its generation denote; the object of a
\* right that is being changed may be gone or not yet there.
EntryOK(i, e) ==
  LET r == rights[<<i, e.gen>>]
  IN  /\ e.idx = i
      /\ \A g \in Gens : g # e.gen => rights[<<i, g>>] = NULL
      /\ e.type = "none" <=> r = NULL
      /\ e.type = "dead" <=> r = DEAD
      /\ e.type \in {"send", "receive"} =>
           \E p \in Ports : /\ r = Id(p) /\ e.obj \in {p, NULL}
                            /\ e.type = "receive" <=> p = ReplyPort
                            /\ p = ReplyPort => <<i, e.gen>> = ReplyName
      /\ ~Busy(i) => /\ e.type \in {"none", "dead"} <=> e.obj = NULL
                     /\ e.type = "none" => i < Limit

\* An index has one entry, in the table or in the tree, or denotes nothing.
EntryAt(i) ==
  /\ i < Limit => space.is_tree[i] = NULL
  /\ IF Where(i) = NULL THEN \A g \in Gens : rights[<<i, g>>] = NULL
     ELSE EntryOK(i, mem[Where(i)])
EntryInv == \A i \in Indices : EntryAt(i)

\* What a worker knows of the name it is changing.
WorkOK(w) ==
  LET r == W[w]
      e == mem[r.loc]
  IN  /\ r.name \in Names /\ r.loc \in Locs
      /\ Where(Index(r.name)) = r.loc /\ e.gen = Gen(r.name)
      /\ r.pc = "lock" => e.type \in {"send", "receive"} /\ e.obj = r.port
      /\ r.pc = "dead" => /\ e.type \in {"send", "receive"} /\ e.obj \in Ports
                          /\ ~port[e.obj].active
      /\ r.pc = "obj" =>
           /\ e.type # "none" /\ e.obj \in Ports
           /\ e.type = "dead" => r.port = NULL /\ r.op # "destroy" /\ ~port[e.obj].active
           /\ e.type # "dead" =>
                /\ r.op # "check"
                /\ r.port = e.obj \/ (r.port = NULL /\ r.op = "destroy" /\ ~port[e.obj].active)
      /\ r.pc \in {"free", "bits"} =>
           /\ e.type # "none" /\ e.obj = NULL
           /\ e.type = "dead" => r.port = NULL
           /\ e.type # "dead" =>
                IF r.port = NULL
                THEN r.op = "destroy" /\ \E p \in Ports : rights[r.name] = Id(p) /\ ~port[p].active
                ELSE rights[r.name] = Id(r.port)
      /\ r.pc \in {"bump", "c_obj"} => e.type = "none" /\ e.obj = NULL
      /\ r.pc = "c_bits" => e.type = "none" /\ e.obj = r.port

WorkInv == \A w \in Workers : W[w].pc \in NamePcs => WorkOK(w)

\* The free list names each unused slot once, without the one in hand.
FreeSlots ==
  {i \in Indices : /\ i < Limit /\ mem[<<Home, i>>].type = "none"
                   /\ ~(Phase \in {"c_obj", "c_bits", "bump"} /\ Busy(i))}
FreeList ==
  /\ {space.free[k] : k \in DOMAIN space.free} = FreeSlots
  /\ \A j, k \in DOMAIN space.free : space.free[j] = space.free[k] => j = k

\* The new part of a table that is being filled.
Cleared ==
  Phase = "g_move" =>
    \A i \in Indices : Limit <= i /\ i < SIZES[space.is_table] =>
      mem[<<space.is_table, i>>] =
        [idx |-> i, gen |-> GENS - 1, type |-> "none", obj |-> NULL]

MapInv == TableInv /\ EntryInv /\ WorkInv /\ FreeList /\ Cleared /\ ReplyLives

-----------------------------------------------------------------------------
(* Lookups. *)

\* A walk that began at an even is_seq has a table and a size that fit, and the
\* current ones while is_seq stands; then its answer is right.
Walking == {"l_size", "l_table", "l_entry", "l_check"}
LookOK(t) ==
  LET r == S[t]
  IN  /\ r.pc \in Walking => r.s % 2 = 0 /\ r.s <= space.is_seq
      /\ r.pc = "l_table" => r.size <= SIZES[space.is_table]
      /\ r.pc = "l_entry" => r.size <= SIZES[r.tab]
      /\ r.pc \in {"l_table", "l_entry"} /\ r.s = space.is_seq
           => r.size = space.is_table_size
      /\ r.pc = "l_entry" /\ r.s = space.is_seq => r.tab = space.is_table
      /\ r.pc = "l_check" /\ r.s = space.is_seq =>
           /\ r.ent \in Locs \ Ites => TRUE \in look[t]
           /\ r.ent = NULL => FALSE \in look[t]
      /\ r.pc = "got" =>
           /\ r.ent \in Locs \ Ites => TRUE \in look[t]
           /\ r.ent = NULL => FALSE \in look[t] \/ r.tries = MAX_TRIES
LookInv == \A t \in Senders : LookOK(t)

-----------------------------------------------------------------------------
(* Resolving. *)

\* No removal is half done: Settled in two parts.
NoDestroy == \A w \in Workers : W[w].op = "destroy" => W[w].pc = "port"
NoBump    == \A w \in Workers : W[w].pc # "bump"

Resolving == {"snap_seq", "l_seq", "l_size", "l_table", "l_entry", "l_check",
              "got", "obj", "lock", "try", "verify"}

\* The snapshot of a resolver for a dense destination still holds, and nothing
\* has been cleared whose bump is to come.
Current(r) == r.settled /\ r.gen0 = space.is_generation
Valid(r)   == /\ Current(r) /\ r.seq0 = space.is_seq /\ NoBump
              /\ Dense(r.dest)

\* Where a lookup ended: at the entry of a name in use.
Found(n, l) == l = Where(Index(n)) /\ mem[l].gen = Gen(n) /\ rights[n] # NULL

ReplyKnown(r) == rights[ReplyName] = Id(ReplyPort) /\ r.rp \in {ReplyPort, NULL}
Denoted(n, p) == rights[n] = Id(p) \/ ~port[p].active

\* What a resolver knows while its snapshot holds.
Knows(r) ==
  /\ r.which = "dest" => ReplyKnown(r)
  /\ r.pc \in {"lock", "try", "verify"} => r.which = "dest" /\ Denoted(r.dest, r.dp)
  /\ r.pc \in {"l_check", "got"} /\ r.ent # NULL =>
       space.is_seq % 2 = 0 /\ Found(Target(r), r.ent)
  /\ r.pc = "obj" =>
       /\ space.is_seq % 2 = 0 /\ Found(Target(r), r.ent)
       /\ r.which = "reply" => rights[ReplyName] = Id(ReplyPort)

ResolveOK(r) ==
  /\ r.pc \in {"snap_gen", "snap_seq"} => r.which = "reply"
  /\ r.pc \in Resolving => r.gen0 <= space.is_generation /\ (Current(r) => NoDestroy)
  /\ r.pc \in Resolving \ {"snap_seq"} => r.seq0 <= space.is_seq
  /\ r.pc \in Walking => r.seq0 <= r.s
  /\ r.pc \in Resolving \ {"snap_seq"} /\ Valid(r) => Knows(r)
  /\ (r.pc = "fill" /\ r.settled /\ Dense(r.dest)) \/ r.pc \in {"r_port", "r_try"} =>
       /\ rights[r.dest] = Id(r.dp) /\ r.rp = ReplyPort
       /\ rights[ReplyName] = Id(ReplyPort)
ResolveInv == \A t \in Senders : \A r \in {S[t]} : ResolveOK(r)

-----------------------------------------------------------------------------
(* Constants and operators. *)

LEMMA Sizes ==
  /\ Len(SIZES) \in Nat \ {0} /\ 1 \in Blocks /\ Len(SIZES) \in Blocks
  /\ \A k \in Blocks : /\ k \in Nat \ {0} /\ SIZES[k] \in Nat /\ SIZES[k] >= 3
                       /\ SIZES[1] <= SIZES[k] /\ SIZES[k] <= SIZES[Len(SIZES)]
  /\ \A j, k \in Blocks : j < k => SIZES[j] < SIZES[k]
<1>1. /\ SIZES \in Seq(Nat \ {0, 1, 2}) /\ Len(SIZES) > 0
      /\ \A j, k \in 1 .. Len(SIZES) : j < k => SIZES[j] < SIZES[k]
  BY SizesAssumption
<1>2. Len(SIZES) \in Nat /\ SIZES \in [1 .. Len(SIZES) -> Nat \ {0, 1, 2}]
  BY <1>1
<1> QED
  BY <1>1, <1>2 DEF Blocks

LEMMA IndexFacts ==
  /\ \A i \in Indices : i \in Nat /\ i # 0
  /\ \A k \in Blocks : \A i \in Nat \ {0} : i < SIZES[k] => i \in Indices
  /\ 1 \in Indices /\ 2 \in Indices
  BY Sizes DEF Indices

LEMMA NameFacts ==
  /\ 0 \in Gens /\ ReplyName \in Names /\ DestName \in Names /\ ReplyName # DestName
  /\ Index(ReplyName) = 1 /\ Gen(ReplyName) = 0
  /\ \A n \in Names : Index(n) \in Indices /\ Gen(n) \in Gens /\ n = <<Index(n), Gen(n)>>
  /\ \A i \in Indices, g \in Gens :
       <<i, g>> \in Names /\ Index(<<i, g>>) = i /\ Gen(<<i, g>>) = g
<1>1. GENS \in Nat /\ GENS > 1
  BY GensAssumption
<1>2. 0 \in Gens
  BY <1>1 DEF Gens
<1> QED
  BY <1>2, IndexFacts DEF Names, Index, Gen, ReplyName, DestName

LEMMA LocFacts ==
  /\ \A k \in Blocks, i \in Indices : /\ <<k, i>> \in Locs /\ <<k, i>> \notin Ites
                                      /\ <<k, i>> # NULL
  /\ Ites \subseteq Locs /\ NULL \notin Locs
  /\ \A l \in Locs \ Ites : \E k \in Blocks, i \in Indices : l = <<k, i>>
<1>1. /\ Ites \cap (Blocks \X Indices) = {} /\ NULL \notin Locs
  BY KindsAssumption
<1> QED
  BY <1>1 DEF Locs

\* NULL and DEAD are no threads, ports or rights, and a worker is no sender.
LEMMA KindFacts ==
  /\ NULL \notin Workers /\ NULL \notin Senders /\ NULL \notin Ports
  /\ NULL \notin Names /\ NULL \notin PortIds
  /\ DEAD # NULL /\ DEAD \notin PortIds
  /\ \A w \in Workers : w \notin Senders
  BY KindsAssumption

\* A right is a port under its incarnation.
LEMMA IdFacts ==
  ASSUME Typed
  PROVE  /\ \A p \in Ports : Id(p) \in PortIds /\ Id(p) # NULL /\ Id(p) # DEAD
         /\ \A p, q \in Ports : Id(p) = Id(q) => p = q
<1>1. \A p \in Ports : port[p].inc \in 0 .. MAX_REBIRTH
  BY DEF Typed, PortStates
<1>2. \A p \in Ports : Id(p) \in PortIds
  BY <1>1 DEF Id, PortIds
<1>3. \A p, q \in Ports : Id(p) = Id(q) => p = q
  BY DEF Id
<1> QED
  BY <1>2, <1>3, KindFacts

\* Ascending lists each element of a finite set of numbers once.
LEMMA AscendingLists ==
  ASSUME NEW T \in SUBSET Nat, IsFiniteSet(T)
  PROVE  /\ Ascending(T) \in Seq(T)
         /\ Len(Ascending(T)) = Cardinality(T)
         /\ \A j, k \in 1 .. Cardinality(T) :
              Ascending(T)[j] = Ascending(T)[k] => j = k
         /\ \A i \in T : \E k \in 1 .. Cardinality(T) : Ascending(T)[k] = i
<1> DEFINE n == Cardinality(T)
           Below(i) == {j \in T : j < i}
           rank == [i \in T |-> Cardinality(Below(i)) + 1]
<1>1. n \in Nat /\ \A i \in T : i \in Nat
  BY FS_CardinalityType
<1>2. \A i \in T : /\ IsFiniteSet(Below(i)) /\ Cardinality(Below(i)) \in Nat
                   /\ Cardinality(Below(i)) < n
  <2> TAKE i \in T
  <2>1. Below(i) \in SUBSET T
    OBVIOUS
  <2>2. IsFiniteSet(Below(i)) /\ Cardinality(Below(i)) <= n
        /\ (n = Cardinality(Below(i)) => T = Below(i))
    BY <2>1, FS_Subset, Zenon
  <2>3. i \notin Below(i)
    OBVIOUS
  <2>4. Cardinality(Below(i)) \in Nat
    BY <2>2, FS_CardinalityType, Zenon
  <2> QED
    BY <1>1, <2>2, <2>3, <2>4
<1>3. \A i, j \in T : i < j => Cardinality(Below(i)) < Cardinality(Below(j))
  <2> TAKE i, j \in T
  <2> HAVE i < j
  <2>0. i \in Nat /\ j \in Nat
    BY <1>1
  <2>1. Below(i) \in SUBSET Below(j) /\ i \in Below(j) /\ i \notin Below(i)
    <3>1. \A x \in Below(i) : x \in Below(j)
      BY <1>1, <2>0
    <3>2. i \in Below(j) /\ i \notin Below(i)
      BY <2>0
    <3> QED
      BY <3>1, <3>2
  <2>2. /\ Cardinality(Below(i)) <= Cardinality(Below(j))
        /\ (Cardinality(Below(j)) = Cardinality(Below(i)) => Below(j) = Below(i))
    BY <1>2, <2>1, FS_Subset, Zenon
  <2> QED
    BY <1>2, <2>1, <2>2
<1>4. rank \in Injection(T, 1 .. n)
  <2>1. \A i \in T : rank[i] \in 1 .. n
    BY <1>1, <1>2
  <2>2. \A i, j \in T : rank[i] = rank[j] => i = j
    BY <1>2, <1>3
  <2> QED
    BY <2>1, <2>2 DEF Injection, IsInjective
<1>5. IsFiniteSet(1 .. n) /\ Cardinality(1 .. n) = n
  BY <1>1, FS_Interval
<1>6. rank \in Surjection(T, 1 .. n)
  BY <1>4, <1>5, FS_Injection
<1>7. \A k \in 1 .. n : \E i \in T : Cardinality(Below(i)) = k - 1
  <2> TAKE k \in 1 .. n
  <2>1. PICK i \in T : rank[i] = k
    BY <1>6 DEF Surjection
  <2>2. Cardinality(Below(i)) + 1 = k /\ Cardinality(Below(i)) \in Nat
    BY <1>2, <2>1
  <2>3. Cardinality(Below(i)) = k - 1
    BY <1>1, <2>2
  <2> QED
    BY <2>3
<1> DEFINE a == [k \in 1 .. n |-> CHOOSE i \in T : Cardinality(Below(i)) = k - 1]
<1>8. Ascending(T) = a
  BY DEF Ascending
<1>9. \A k \in 1 .. n : a[k] \in T /\ Cardinality(Below(a[k])) = k - 1
  BY <1>7
<1> HIDE DEF a
<1>10. DOMAIN a = 1 .. n /\ a \in [1 .. n -> T]
  BY <1>8, <1>9 DEF Ascending
<1>11. a \in Seq(T) /\ Len(a) = n
  BY <1>1, <1>10
<1>12. \A j, k \in 1 .. n : a[j] = a[k] => j = k
  <2> SUFFICES ASSUME NEW j \in 1 .. n, NEW k \in 1 .. n, a[j] = a[k]
               PROVE  j = k
    OBVIOUS
  <2>1. j - 1 = k - 1
    BY <1>9
  <2> QED
    BY <1>1, <2>1
<1>13. \A i \in T : \E k \in 1 .. n : a[k] = i
  <2> TAKE i \in T
  <2> DEFINE k == rank[i]
  <2>1. k \in 1 .. n /\ Cardinality(Below(i)) = k - 1
    BY <1>1, <1>2
  <2>2. a[k] \in T /\ Cardinality(Below(a[k])) = Cardinality(Below(i))
    BY <1>9, <2>1
  <2> DEFINE b == a[k]
  <2> HIDE DEF k, b, Below, rank
  <2>3. b \in T /\ Cardinality(Below(b)) = Cardinality(Below(i))
    BY <2>2 DEF b
  <2>4. Cardinality(Below(b)) \in Nat /\ b \in Nat /\ i \in Nat
    BY <1>1, <1>2, <2>3
  <2>5. ~(b < i) /\ ~(i < b)
    BY <1>3, <2>3, <2>4
  <2>6. a[k] = i
    BY <2>4, <2>5 DEF b
  <2> QED
    BY <2>1, <2>6
<1> QED
  BY <1>8, <1>11, <1>12, <1>13

\* Taking an element out of a list without repetitions.
LEMMA ListWithout ==
  ASSUME NEW T, NEW s \in Seq(T), NEW k \in DOMAIN s,
         \A i, j \in DOMAIN s : s[i] = s[j] => i = j
  PROVE  /\ RemoveAt(s, k) \in Seq(T)
         /\ {RemoveAt(s, k)[i] : i \in DOMAIN RemoveAt(s, k)}
              = {s[i] : i \in DOMAIN s} \ {s[k]}
         /\ \A i, j \in DOMAIN RemoveAt(s, k) :
              RemoveAt(s, k)[i] = RemoveAt(s, k)[j] => i = j
<1> DEFINE n == Len(s)
           a == SubSeq(s, 1, k - 1)
           b == SubSeq(s, k + 1, n)
           c == a \o b
<1>1. n \in Nat /\ DOMAIN s = 1 .. n /\ k \in 1 .. n /\ \A i \in 1 .. n : s[i] \in T
  OBVIOUS
<1>2. /\ a \in Seq(T) /\ Len(a) = k - 1
      /\ \A i \in 1 .. k - 1 : a[i] = s[i]
  BY <1>1
<1>3. /\ b \in Seq(T) /\ Len(b) = n - k
      /\ \A i \in 1 .. n - k : b[i] = s[k + i]
  BY <1>1
<1> HIDE DEF a, b, n
<1>5. /\ c \in Seq(T) /\ Len(c) = Len(a) + Len(b)
      /\ \A i \in 1 .. Len(a) + Len(b) :
           c[i] = IF i <= Len(a) THEN a[i] ELSE b[i - Len(a)]
  <2>1. a \in Seq(T) /\ b \in Seq(T)
    BY <1>2, <1>3
  <2> QED
    BY <2>1, ConcatProperties, Zenon
<1> HIDE DEF c
<1>6. Len(a) + Len(b) = n - 1 /\ n - 1 \in Nat
  BY <1>1, <1>2, <1>3
<1>7. \A i \in 1 .. n - 1 : c[i] = IF i < k THEN s[i] ELSE s[i + 1]
  <2> SUFFICES ASSUME NEW i \in 1 .. n - 1
               PROVE  c[i] = IF i < k THEN s[i] ELSE s[i + 1]
    OBVIOUS
  <2>1. CASE i < k
    <3>1. i \in 1 .. k - 1 /\ i <= Len(a)
      BY <1>1, <1>2, <2>1
    <3> QED
      BY <1>2, <1>5, <1>6, <2>1, <3>1
  <2>2. CASE ~(i < k)
    <3> DEFINE j == i - (k - 1)
    <3>1. j \in 1 .. n - k /\ ~(i <= Len(a)) /\ k + j = i + 1 /\ j = i - Len(a)
      BY <1>1, <1>2, <2>2
    <3>2. c[i] = b[j] /\ b[j] = s[k + j]
      BY <1>3, <1>5, <1>6, <3>1
    <3> QED
      BY <2>2, <3>1, <3>2
  <2> QED
    BY <2>1, <2>2
<1>8. c \in Seq(T) /\ DOMAIN c = 1 .. n - 1
  BY <1>5, <1>6
<1> DEFINE from(i) == IF i < k THEN i ELSE i + 1
<1>9. \A i \in 1 .. n - 1 : from(i) \in 1 .. n /\ from(i) # k /\ c[i] = s[from(i)]
  BY <1>1, <1>7
<1>10. \A i, j \in 1 .. n - 1 : from(i) = from(j) => i = j
  BY <1>1
<1>11. \A j \in 1 .. n : j # k => \E i \in 1 .. n - 1 : from(i) = j
  <2> SUFFICES ASSUME NEW j \in 1 .. n, j # k
               PROVE  \E i \in 1 .. n - 1 : from(i) = j
    OBVIOUS
  <2>1. CASE j < k
    BY <1>1, <2>1
  <2>2. CASE j > k
    <3>1. j - 1 \in 1 .. n - 1 /\ from(j - 1) = j
      BY <1>1, <2>2
    <3> QED
      BY <3>1
  <2> QED
    BY <1>1, <2>1, <2>2
<1> HIDE DEF from
<1>12. \A i, j \in 1 .. n - 1 : c[i] = c[j] => i = j
  BY <1>1, <1>9, <1>10
<1>13. {c[i] : i \in 1 .. n - 1} = {s[i] : i \in 1 .. n} \ {s[k]}
  <2>1. \A i \in 1 .. n - 1 : c[i] \in {s[j] : j \in 1 .. n} /\ c[i] # s[k]
    BY <1>1, <1>9
  <2>2. \A j \in 1 .. n : s[j] # s[k] => \E i \in 1 .. n - 1 : c[i] = s[j]
    BY <1>1, <1>9, <1>11
  <2> QED
    BY <2>1, <2>2
<1>14. /\ c \in Seq(T)
       /\ {c[i] : i \in DOMAIN c} = {s[i] : i \in DOMAIN s} \ {s[k]}
       /\ \A i, j \in DOMAIN c : c[i] = c[j] => i = j
  <2>1. {c[i] : i \in DOMAIN c} = {c[i] : i \in 1 .. n - 1}
    BY <1>8
  <2>2. {s[i] : i \in DOMAIN s} = {s[i] : i \in 1 .. n}
    BY <1>1
  <2> QED
    BY <1>8, <1>12, <1>13, <2>1, <2>2
<1> QED
  BY <1>14 DEF RemoveAt, a, b, c, n

-----------------------------------------------------------------------------
(* Initially. *)

LEMMA InitTyped ==
  ASSUME Init PROVE Typed
<1>1. Len(SIZES) \in Blocks /\ 1 \in Blocks /\ SIZES[1] \in Nat /\ SIZES[1] >= 3
  BY Sizes
<1>2. GENS \in Nat /\ GENS > 1 /\ 0 \in Gens /\ GENS - 1 \in Gens
  BY GensAssumption DEF Gens
<1>3. ReplyPort \in Ports /\ DestPort \in Ports
  BY PortsAssumption
<1>4. mem \in [Locs -> Entries]
  <2>1. PICK p \in Aliens :
          mem = [l \in Locs |->
                  IF l \in Ites THEN Pooled(SIZES[Len(SIZES)] - 1, p)
                  ELSE IF l[1] = 1 THEN InitEntry(l[2]) ELSE Pooled(l[2], p)]
    BY DEF Init
  <2>2. \A i \in Indices : InitEntry(i) \in Entries /\ Pooled(i, p) \in Entries
    BY <1>2, <1>3 DEF InitEntry, Pooled, Entries, Types, Aliens
  <2>3. Pooled(SIZES[Len(SIZES)] - 1, p) \in Entries
    <3>1. SIZES[Len(SIZES)] - 1 \in Indices
      BY <1>1, Sizes DEF Indices
    <3> QED
      BY <2>2, <3>1
  <2>4. \A l \in Locs : mem[l] \in Entries
    <3> TAKE l \in Locs
    <3>1. CASE l \in Ites
      BY <2>1, <2>3, <3>1
    <3>2. CASE l \notin Ites
      <4>1. l \in Blocks \X Indices
        BY <3>2 DEF Locs
      <4>2. l[2] \in Indices
        BY <4>1
      <4> QED
        BY <2>1, <2>2, <3>2, <4>2
    <3> QED
      BY <3>1, <3>2
  <2> QED
    BY <2>1, <2>4
<1>5. space \in Spaces
  <2> DEFINE f == [k \in 1 .. SIZES[1] - 3 |-> k + 2]
             tree == [i \in Indices |-> NULL]
  <2>1. \A k \in 1 .. SIZES[1] - 3 : k + 2 \in Indices
    BY <1>1, IndexFacts
  <2>2. f \in Seq(Indices)
    BY <1>1, <2>1
  <2>3. tree \in [Indices -> Ites \cup {NULL}]
    OBVIOUS
  <2>4. space = [is_table |-> 1, is_table_size |-> SIZES[1], is_seq |-> 0,
                 is_generation |-> 0, is_growing |-> FALSE,
                 is_tree |-> tree, free |-> f]
    BY DEF Init
  <2> HIDE DEF f, tree
  <2> QED
    BY <1>1, <2>2, <2>3, <2>4 DEF Spaces
<1>6. lock \in [writer : Workers \cup {NULL}, readers : SUBSET Senders]
  BY DEF Init
<1>7. port \in [Ports -> PortStates]
  BY BoundsAssumption DEF Init, PortStates
<1>8. S \in [Senders -> SenderLocals]
  <2>1. IdleSender \in SenderLocals
    BY <1>1, TriesAssumption DEF IdleSender, SenderLocals, SenderPcs
  <2> QED
    BY <2>1 DEF Init
<1>9. cache \in [Senders -> CachedPairs \cup {NULL}]
  BY DEF Init
<1>10. W \in [Workers -> WorkerLocals]
  <2>1. IdleWorker \in WorkerLocals
    BY DEF IdleWorker, WorkerLocals, WorkerPcs
  <2> QED
    BY <2>1 DEF Init
<1>11. rights \in [Names -> PortIds \cup {DEAD, NULL}]
  <2>1. <<ReplyPort, 0>> \in PortIds /\ <<DestPort, 0>> \in PortIds
    BY <1>3, BoundsAssumption DEF PortIds
  <2> QED
    BY <2>1 DEF Init
<1>12. look \in [Senders -> SUBSET BOOLEAN]
  BY DEF Init
<1> QED
  BY <1>4, <1>5, <1>6, <1>7, <1>8, <1>9, <1>10, <1>11, <1>12 DEF Typed

LEMMA InitLocks ==
  ASSUME Init PROVE Locks
<1>1. SpaceLock
  BY KindFacts DEF Init, SpaceLock, IdleSender, IdleWorker, Reading, WritePcs,
     NamePcs, TablePcs
<1>2. SenderPorts
  BY KindFacts DEF Init, SenderPorts, SenderOK, IdleSender, OneHeld, TwoHeld
<1>3. WorkerPorts
  BY KindFacts DEF Init, WorkerPorts, WorkerOK, OpAt, IdleWorker, WithPort, TablePcs
<1> QED
  BY <1>1, <1>2, <1>3 DEF Locks

LEMMA InitMap ==
  ASSUME Init PROVE MapInv
<1>1. /\ lock.writer = NULL /\ Phase = "idle"
      /\ \A i \in Indices : ~Busy(i)
  BY DEF Init, Phase, Busy
<1>2. /\ space.is_table = 1 /\ space.is_table_size = SIZES[1] /\ space.is_seq = 0
      /\ \A i \in Indices : space.is_tree[i] = NULL
      /\ space.free = [k \in 1 .. SIZES[1] - 3 |-> k + 2]
  BY DEF Init
<1>3. Home = 1 /\ Limit = SIZES[1] /\ SIZES[1] \in Nat /\ SIZES[1] >= 3
  BY <1>1, <1>2, Sizes DEF Home, Limit
<1>4. \A w \in Workers : W[w].pc = "idle" /\ W[w].pc \notin NamePcs
  BY DEF Init, IdleWorker, NamePcs
<1>5. TableInv
  BY <1>1, <1>2, <1>4 DEF TableInv, TablePcs
<1>6. \A i \in Indices : <<1, i>> \in Locs /\ <<1, i>> \notin Ites /\ <<1, i>> # NULL
  BY LocFacts, Sizes
<1>7. \A i \in Indices : mem[<<1, i>>] = InitEntry(i)
  BY <1>6 DEF Init
<1>8. \A n \in Names : rights[n] = IF n = ReplyName THEN Id(ReplyPort)
                                   ELSE IF n = DestName THEN Id(DestPort) ELSE NULL
  <2>1. Id(ReplyPort) = <<ReplyPort, 0>> /\ Id(DestPort) = <<DestPort, 0>>
    BY PortsAssumption DEF Init, Id
  <2> QED
    BY <2>1, NameFacts DEF Init
<1>9. EntryInv
  <2> SUFFICES ASSUME NEW i \in Indices
               PROVE  /\ i < Limit => space.is_tree[i] = NULL
                      /\ IF Where(i) = NULL THEN \A g \in Gens : rights[<<i, g>>] = NULL
                         ELSE EntryOK(i, mem[Where(i)])
    BY DEF EntryInv, EntryAt
  <2>1. CASE i < Limit
    <3> DEFINE e == InitEntry(i)
    <3>1. Where(i) = <<1, i>> /\ mem[Where(i)] = e /\ Where(i) # NULL
      BY <1>3, <1>6, <1>7, <2>1 DEF Where
    <3>2. GENS \in Nat /\ GENS > 1 /\ 0 \in Gens /\ GENS - 1 \in Gens /\ i \in Nat /\ i # 0
      BY GensAssumption, IndexFacts DEF Gens
    <3>3. /\ e.idx = i /\ e.gen = (IF i <= 2 THEN 0 ELSE GENS - 1) /\ e.gen \in Gens
          /\ e.type = (IF i = 1 THEN "receive" ELSE IF i = 2 THEN "send" ELSE "none")
          /\ e.obj = (IF i = 1 THEN ReplyPort ELSE IF i = 2 THEN DestPort ELSE NULL)
      BY <3>2 DEF InitEntry
    <3>4. /\ ReplyPort \in Ports /\ DestPort \in Ports /\ ReplyPort # DestPort
          /\ Typed
      BY PortsAssumption, InitTyped
    <3>5. \A g \in Gens : rights[<<i, g>>] = IF i = 1 /\ g = 0 THEN Id(ReplyPort)
                                             ELSE IF i = 2 /\ g = 0 THEN Id(DestPort)
                                             ELSE NULL
      BY <1>8, NameFacts DEF ReplyName, DestName
    <3> HIDE DEF e
    <3>6. EntryOK(i, e)
      <4>1. CASE i = 1
        BY <1>1, <3>3, <3>4, <3>5, <4>1, IdFacts, KindFacts DEF EntryOK, ReplyName
      <4>2. CASE i = 2
        BY <1>1, <3>3, <3>4, <3>5, <4>2, IdFacts, KindFacts DEF EntryOK
      <4>3. CASE i > 2
        BY <1>1, <2>1, <3>2, <3>3, <3>5, <4>3, KindFacts DEF EntryOK
      <4> QED
        BY <3>2, <4>1, <4>2, <4>3
    <3> QED
      BY <1>2, <3>1, <3>6
  <2>2. CASE ~(i < Limit)
    <3>1. Where(i) = NULL /\ i \in Nat /\ i > 2
      BY <1>2, <1>3, <2>2, IndexFacts DEF Where
    <3>2. \A g \in Gens : rights[<<i, g>>] = NULL
      BY <1>8, <3>1, NameFacts DEF ReplyName, DestName
    <3> QED
      BY <2>2, <3>1, <3>2
  <2> QED
    BY <2>1, <2>2
<1>10. WorkInv
  BY <1>4 DEF WorkInv
<1>11. FreeList
  <2> DEFINE n == SIZES[1] - 3
  <2>1. n \in Nat /\ DOMAIN space.free = 1 .. n
    BY <1>2, <1>3
  <2>2. \A k \in 1 .. n : space.free[k] = k + 2
    BY <1>2
  <2>3. FreeSlots = {i \in Indices : i < SIZES[1] /\ i > 2}
    <3>1. \A i \in Indices : mem[<<1, i>>].type = "none" <=> i > 2
      <4> TAKE i \in Indices
      <4>1. i \in Nat /\ i # 0 /\ mem[<<1, i>>] = InitEntry(i)
        BY <1>7, IndexFacts
      <4>2. InitEntry(i).type = (IF i = 1 THEN "receive" ELSE IF i = 2 THEN "send"
                                 ELSE "none")
        BY <4>1 DEF InitEntry
      <4> QED
        BY <4>1, <4>2
    <3> QED
      BY <1>1, <1>3, <3>1 DEF FreeSlots
  <2>4. \A k \in 1 .. n : space.free[k] \in FreeSlots
    BY <1>3, <2>1, <2>2, <2>3, IndexFacts, Sizes
  <2>5. \A i \in FreeSlots : i - 2 \in 1 .. n /\ space.free[i - 2] = i
    BY <1>3, <2>1, <2>2, <2>3, IndexFacts
  <2>6. {space.free[k] : k \in DOMAIN space.free} = FreeSlots
    BY <2>1, <2>4, <2>5
  <2> QED
    BY <2>1, <2>2, <2>6 DEF FreeList
<1>12. Cleared
  BY <1>1 DEF Cleared
<1>13. ReplyLives
  BY <1>4, PortsAssumption DEF Init, ReplyLives
<1> QED
  BY <1>5, <1>9, <1>10, <1>11, <1>12, <1>13 DEF MapInv

LEMMA InitSenders ==
  ASSUME Init PROVE LookInv /\ ResolveInv
<1>1. \A t \in Senders : S[t].pc = "idle" /\ S[t].settled = FALSE
  BY DEF Init, IdleSender
<1>2. LookInv
  BY <1>1 DEF LookInv, LookOK, Walking
<1>3. ResolveInv
  BY <1>1 DEF ResolveInv, ResolveOK, Walking, Resolving
<1> QED
  BY <1>2, <1>3

-----------------------------------------------------------------------------
(* What the others keep.                                                   *)

\* A step of x changes only locks that x holds or that are free, and makes
\* only such ports die.
PortsBy(x) ==
  /\ port' \in [Ports -> PortStates]
  /\ \A p \in Ports :
       /\ port'[p].inc = port[p].inc
       /\ \/ port'[p].owner = port[p].owner
          \/ port[p].owner \in {x, NULL} /\ port'[p].owner \in {x, NULL}
       /\ \/ port'[p].active = port[p].active
          \/ port[p].owner \in {x, NULL} /\ ~port'[p].active

LEMMA OtherSender ==
  ASSUME Typed, NEW x, PortsBy(x), NEW t \in Senders, t # x, SenderOK(t), S'[t] = S[t]
  PROVE  SenderOK(t)'
<1>1. \A p \in Ports : port'[p].owner = t <=> port[p].owner = t
  BY KindFacts DEF PortsBy
<1>2. \A p \in Ports : port[p].owner = t => port'[p].active = port[p].active
  BY KindFacts DEF PortsBy
<1>3. S[t].pc \in {"verify", "fill"} => S[t].dp \in Ports /\ port[S[t].dp].owner = t
  BY DEF SenderOK, OneHeld, TwoHeld
<1>4. S[t].pc \in {"verify", "fill"} => port'[S[t].dp].active
  BY <1>2, <1>3 DEF SenderOK
<1> QED
  BY <1>1, <1>4 DEF SenderOK

LEMMA OtherWorker ==
  ASSUME Typed, NEW x, PortsBy(x), NEW w \in Workers, w # x, WorkerOK(w), W'[w] = W[w]
  PROVE  WorkerOK(w)'
<1>1. \A p \in Ports : port'[p].owner = w <=> port[p].owner = w
  BY KindFacts DEF PortsBy
<1>2. \A p \in Ports : port[p].owner = w => port'[p].active = port[p].active
  BY KindFacts DEF PortsBy
<1> QED
  BY <1>1, <1>2 DEF WorkerOK

\* Steps that leave the space and the workers alone.
LEMMA MapFrame ==
  ASSUME Typed, MapInv, UNCHANGED <<mem, space, W, rights>>,
         lock'.writer = lock.writer, NEW x, PortsBy(x),
         port'[ReplyPort].active = port[ReplyPort].active
           \/ rights[ReplyName] # Id(ReplyPort)
  PROVE  MapInv'
<1>1. /\ mem' = mem /\ space' = space /\ W' = W /\ rights' = rights
  OBVIOUS
<1>2. Phase' = Phase /\ Home' = Home /\ Limit' = Limit
  BY <1>1 DEF Phase, Home, Limit
<1>3. \A i : Busy(i)' = Busy(i) /\ Where(i)' = Where(i)
  BY <1>1, <1>2 DEF Busy, Where
<1>4. \A p \in Ports : Id(p)' = Id(p) /\ (port'[p].active => port[p].active)
  BY DEF PortsBy, Id
<1>5. TableInv'
  BY <1>1, <1>2 DEF MapInv, TableInv
<1>6. EntryInv'
  <2>1. \A i \in Indices : \A e : EntryOK(i, e) => EntryOK(i, e)'
    BY <1>1, <1>2, <1>3, <1>4 DEF EntryOK
  <2> QED
    BY <1>1, <1>2, <1>3, <2>1 DEF MapInv, EntryInv, EntryAt
<1>7. WorkInv'
  <2>1. ASSUME NEW w \in Workers, W[w].pc \in NamePcs
        PROVE  WorkOK(w)'
    <3>1. WorkOK(w)
      BY <2>1 DEF MapInv, WorkInv
    <3> DEFINE r == W[w]
               e == mem[r.loc]
    <3>2. /\ W'[w] = r /\ mem'[r.loc] = e /\ r.pc \in NamePcs
          /\ \A i : Where(i)' = Where(i)
      BY <1>1, <1>3, <2>1
    <3>3. /\ e.obj \in Ports /\ ~port[e.obj].active => ~port'[e.obj].active
          /\ \A p \in Ports : rights[r.name] = Id(p) /\ ~port[p].active
               => rights'[r.name] = Id(p)' /\ ~port'[p].active
          /\ r.port \in Ports /\ rights[r.name] = Id(r.port)
               => rights'[r.name] = Id(r.port)'
      BY <1>1, <1>4
    <3>4. r.port \in Ports \cup {NULL}
      BY DEF Typed, WorkerLocals
    <3> QED
      BY <3>1, <3>2, <3>3, <3>4 DEF WorkOK
  <2> QED
    BY <1>1, <2>1 DEF WorkInv
<1>8. FreeList'
  <2>1. FreeSlots' = FreeSlots
    BY <1>1, <1>2, <1>3 DEF FreeSlots
  <2> QED
    BY <1>1, <2>1 DEF MapInv, FreeList
<1>9. Cleared'
  BY <1>1, <1>2 DEF MapInv, Cleared
<1>10. ReplyLives'
  BY <1>1, <1>4, PortsAssumption DEF MapInv, ReplyLives
<1> QED
  BY <1>5, <1>6, <1>7, <1>8, <1>9, <1>10 DEF MapInv

\* With is_seq even no growth is under way.
LEMMA Steady ==
  ASSUME Typed, TableInv, Phase \notin TablePcs
  PROVE  /\ Home = space.is_table /\ Limit = space.is_table_size
         /\ Limit = SIZES[space.is_table] /\ space.is_table \in Blocks
         /\ \A i : Where(i) = Slot(i, space.is_table, space.is_table_size)
<1>1. Home = space.is_table /\ Limit = space.is_table_size
      /\ Limit = SIZES[space.is_table]
  BY DEF TableInv, Home, Limit, TablePcs
<1>2. space.is_table \in Blocks
  BY DEF Typed, Spaces
<1> QED
  BY <1>1, <1>2 DEF Where, Slot

\* Outside a growth an entry that a lookup accepts or not says whether the name
\* is in use; for a tree entry it may be too early to say that it is.
LEMMA MatchMeans ==
  ASSUME Typed, EntryInv, NEW n \in Names, NEW l, l = Where(Index(n))
  PROVE  /\ Matches(n, l) => /\ l # NULL /\ mem[l].gen = Gen(n)
                             /\ l \notin Ites => rights[n] # NULL
         /\ ~Matches(n, l) => rights[n] = NULL
<1> DEFINE i == Index(n)
<1>1. i \in Indices /\ Gen(n) \in Gens /\ n = <<i, Gen(n)>>
  BY NameFacts
<1>2. CASE l = NULL
  BY <1>1, <1>2 DEF EntryInv, EntryAt, Matches
<1>3. CASE l # NULL
  <2>1. EntryOK(i, mem[l])
    BY <1>1, <1>3 DEF EntryInv, EntryAt
  <2> QED
    BY <1>1, <1>3, <2>1 DEF EntryOK, Matches, Type
<1> QED
  BY <1>2, <1>3

-----------------------------------------------------------------------------
(* Senders. *)

\* The shape of every step of a sender.
SenderMove(t) ==
  /\ UNCHANGED <<mem, space, W, rights>> /\ Observe
  /\ S' \in [Senders -> SenderLocals]
  /\ \A u \in Senders \ {t} : S'[u] = S[u]
  /\ PortsBy(t)
  /\ \A p \in Ports : port'[p].active = port[p].active
  /\ lock' \in [writer : Workers \cup {NULL}, readers : SUBSET Senders]
  /\ lock'.writer = lock.writer
  /\ \A u \in Senders \ {t} : u \in lock'.readers <=> u \in lock.readers
  /\ t \in lock'.readers => lock'.writer = NULL
  /\ cache' \in [Senders -> CachedPairs \cup {NULL}]
  /\ \A u \in Senders \ {t} : cache'[u] = cache[u]

Looking == {"l_seq", "l_size", "l_table", "l_entry", "l_check", "got"}

LEMMA ObserveTyped ==
  ASSUME Typed, Observe, S' \in [Senders -> SenderLocals],
         rights' \in [Names -> PortIds \cup {DEAD, NULL}]
  PROVE  look' \in [Senders -> SUBSET BOOLEAN]
  BY DEF Observe, Typed

LEMMA ObserveAt ==
  ASSUME Typed, Observe, NEW t \in Senders, S'[t].pc \in Looking
  PROVE  look'[t] = (IF S[t].pc \in {"snap_seq", "obj"} THEN {} ELSE look[t])
                      \cup {rights'[Target(S'[t])] # NULL}
  BY DEF Observe, Looking

\* What is left to show about the sender itself.
LEMMA SenderMoveKeeps ==
  ASSUME Typed, Locks, MapInv, LookInv, NEW t \in Senders, SenderMove(t),
         SenderOK(t)', LookOK(t)', t \in lock'.readers <=> S'[t].pc \in Reading
  PROVE  Typed' /\ Locks' /\ MapInv' /\ LookInv'
<1>1. mem' = mem /\ space' = space /\ W' = W /\ rights' = rights
  BY DEF SenderMove
<1>2. Typed'
  <2>1. look' \in [Senders -> SUBSET BOOLEAN]
    BY <1>1, ObserveTyped DEF SenderMove, Typed
  <2> QED
    BY <1>1, <2>1 DEF SenderMove, Typed, PortsBy
<1>3. SpaceLock'
  <2>1. \A u \in Senders : u \in lock'.readers <=> S'[u].pc \in Reading
    BY DEF SenderMove, Locks, SpaceLock
  <2>2. lock'.writer # NULL => lock'.readers = {}
    <3> SUFFICES ASSUME lock'.writer # NULL, NEW u \in Senders, u \in lock'.readers
                 PROVE  FALSE
      BY DEF SenderMove
    <3> QED
      BY DEF SenderMove, Locks, SpaceLock
  <2> QED
    BY <1>1, <2>1, <2>2 DEF SenderMove, Locks, SpaceLock
<1>4. SenderPorts'
  <2> SUFFICES ASSUME NEW u \in Senders, u # t PROVE SenderOK(u)'
    BY DEF SenderPorts
  <2> QED
    BY OtherSender DEF SenderMove, Locks, SenderPorts
<1>5. WorkerPorts'
  <2> SUFFICES ASSUME NEW w \in Workers PROVE WorkerOK(w)'
    BY DEF WorkerPorts
  <2>1. w # t
    BY KindFacts
  <2> QED
    BY <1>1, <2>1, OtherWorker DEF SenderMove, Locks, WorkerPorts
<1>6. MapInv'
  BY MapFrame, PortsAssumption DEF SenderMove
<1>7. LookInv'
  <2> SUFFICES ASSUME NEW u \in Senders, u # t PROVE LookOK(u)'
    BY DEF LookInv
  <2>1. S'[u] = S[u] /\ LookOK(u)
    BY DEF SenderMove, LookInv
  <2>2. S[u].pc \in Looking => look[u] \subseteq look'[u]
    <3> SUFFICES ASSUME S[u].pc \in Looking PROVE look[u] \subseteq look'[u]
      OBVIOUS
    <3>1. S'[u].pc \in Looking /\ S[u].pc \notin {"snap_seq", "obj"}
      BY <2>1 DEF Looking
    <3> QED
      BY <3>1, ObserveAt DEF SenderMove
  <2> QED
    BY <1>1, <2>1, <2>2 DEF LookOK, Looking
<1> QED
  BY <1>2, <1>3, <1>4, <1>5, <1>6, <1>7 DEF Locks

LEMMA NotLooking ==
  ASSUME NEW t \in Senders, S'[t].pc \notin Walking \cup {"got"}
  PROVE  LookOK(t)'
  BY DEF LookOK, Walking

LEMMA SetsTyped ==
  ASSUME Typed, NEW t \in Senders, NEW r \in SenderLocals, Sets(t, r)
  PROVE  /\ S' \in [Senders -> SenderLocals] /\ S'[t] = r
         /\ \A u \in Senders \ {t} : S'[u] = S[u]
  BY DEF Typed, Sets

LEMMA PortsSame ==
  ASSUME Typed, port' = port, NEW x
  PROVE  PortsBy(x)
  BY DEF Typed, PortsBy

\* ip_lock, ip_lock_try and ip_unlock.
LEMMA OwnerSet ==
  ASSUME Typed, NEW x \in Workers \cup Senders, NEW p \in Ports, NEW v \in {x, NULL},
         port[p].owner \in {x, NULL}, port' = [port EXCEPT ![p].owner = v]
  PROVE  /\ PortsBy(x) /\ port'[p].owner = v
         /\ \A q \in Ports \ {p} : port'[q] = port[q]
         /\ \A q \in Ports : port'[q].active = port[q].active
<1>1. port \in [Ports -> PortStates]
  BY DEF Typed
<1>2. port'[p] = [port[p] EXCEPT !.owner = v] /\ \A q \in Ports \ {p} : port'[q] = port[q]
  BY <1>1
<1>3. port[p] \in PortStates
  BY <1>1
<1>4. /\ port'[p].owner = v /\ port'[p].active = port[p].active
      /\ port'[p].inc = port[p].inc /\ port'[p] \in PortStates
  BY <1>2, <1>3 DEF PortStates
<1>5. port' \in [Ports -> PortStates]
  BY <1>1, <1>2, <1>4
<1> QED
  BY <1>2, <1>4, <1>5 DEF PortsBy

LEMMA BothUnlocked ==
  ASSUME Typed, NEW t \in Senders, S[t].pc \in TwoHeld, SenderOK(t), port' = Unlocked(S[t])
  PROVE  /\ PortsBy(t)
         /\ \A p \in Ports : port'[p].owner # t /\ port'[p].active = port[p].active
<1> DEFINE a == S[t].rp
           b == S[t].dp
<1>1. port \in [Ports -> PortStates] /\ a \in Ports /\ b \in Ports
  BY DEF Typed, SenderOK
<1>2. /\ port[a].owner = t /\ port[b].owner = t
      /\ \A p \in Ports : port[p].owner = t => p \in {a, b}
  BY <1>1 DEF SenderOK, TwoHeld, OneHeld
<1>3. port' = [[port EXCEPT ![a].owner = NULL] EXCEPT ![b].owner = NULL]
  BY DEF Unlocked
<1> HIDE DEF a, b
<1>4. \A p \in Ports : /\ p \in {a, b} => port'[p] = [port[p] EXCEPT !.owner = NULL]
                       /\ p \notin {a, b} => port'[p] = port[p]
  BY <1>1, <1>3 DEF PortStates
<1>5. \A p \in Ports : /\ port'[p] \in PortStates
                       /\ port'[p].active = port[p].active /\ port'[p].inc = port[p].inc
                       /\ port'[p].owner = IF p \in {a, b} THEN NULL ELSE port[p].owner
  <2> TAKE p \in Ports
  <2>1. port[p] \in PortStates
    BY <1>1
  <2>2. CASE p \in {a, b}
    BY <1>4, <2>1, <2>2 DEF PortStates
  <2>3. CASE p \notin {a, b}
    BY <1>4, <2>1, <2>3
  <2> QED
    BY <2>2, <2>3
<1>6. port' \in [Ports -> PortStates]
  <2>1. DOMAIN port' = Ports /\ port' = [p \in Ports |-> port'[p]]
    BY <1>1, <1>3
  <2> QED
    BY <1>5, <2>1
<1> QED
  BY <1>2, <1>5, <1>6, KindFacts DEF PortsBy

\* A sender's step that touches neither locks nor the cache.
LEMMA LocalMove ==
  ASSUME Typed, Locks, NEW t \in Senders, NEW r \in SenderLocals, Sets(t, r),
         UNCHANGED <<cache, lock, port>>, NoWorker
  PROVE  SenderMove(t) /\ S'[t] = r
<1>1. /\ S' \in [Senders -> SenderLocals] /\ S'[t] = r
      /\ \A u \in Senders \ {t} : S'[u] = S[u]
  BY SetsTyped
<1>2. PortsBy(t)
  BY PortsSame
<1>3. t \in lock.readers => lock.writer = NULL
  BY DEF Locks, SpaceLock
<1> QED
  BY <1>1, <1>2, <1>3 DEF SenderMove, NoWorker, Typed

\* The same at a point where the sender holds no lock.
LEMMA LocalMoveKeeps ==
  ASSUME Typed, Locks, MapInv, LookInv, NEW t \in Senders, NEW r \in SenderLocals,
         Sets(t, r), UNCHANGED <<cache, lock, port>>, NoWorker,
         S[t].pc \notin OneHeld \cup TwoHeld \cup Reading,
         r.pc \notin OneHeld \cup TwoHeld \cup Reading,
         r.pc # "idle" => r.dest \in Dests,
         r.pc \in {"c_lock", "lock"} => r.rp \in Ports /\ r.dp \in Ports,
         r.pc = "obj" => r.ent # NULL,
         LookOK(t)'
  PROVE  Typed' /\ Locks' /\ MapInv' /\ LookInv'
<1>1. SenderMove(t) /\ S'[t] = r
  BY LocalMove
<1>2. SenderOK(t)
  BY DEF Locks, SenderPorts
<1>3. SenderOK(t)'
  BY <1>1, <1>2 DEF SenderOK, OneHeld, TwoHeld, Reading
<1>4. t \in lock'.readers <=> S'[t].pc \in Reading
  BY <1>1 DEF Locks, SpaceLock
<1> QED
  BY <1>1, <1>3, <1>4, SenderMoveKeeps

LEMMA IdleSenderTyped == IdleSender \in SenderLocals
  BY Sizes, TriesAssumption DEF IdleSender, SenderLocals, SenderPcs

LEMMA LockedTyped ==
  ASSUME NEW d \in Names \cup {NULL}
  PROVE  Locked(d) \in SenderLocals /\ Locked(d).pc = "r_lock" /\ Locked(d).dest = d
  BY IdleSenderTyped DEF Locked, IdleSender, SenderLocals, SenderPcs

LEMMA ProbeCacheKeeps ==
  ASSUME Typed, Locks, MapInv, LookInv, NEW t \in Senders, NEW d \in Dests,
         ProbeCache(t, d)
  PROVE  Typed' /\ Locks' /\ MapInv' /\ LookInv'
<1>1. d \in Names
  BY NamesAssumption
<1>2. CASE cache[t] # NULL /\ cache[t].gen = space.is_generation /\ cache[t].dest = d
  <2> DEFINE r == [IdleSender EXCEPT !.pc = "c_lock", !.dest = d,
                                     !.rp = cache[t].rp, !.dp = cache[t].dp]
  <2>1. cache[t] \in CachedPairs
    BY <1>2 DEF Typed
  <2>2. cache[t].rp \in Ports /\ cache[t].dp \in Ports
    BY <2>1 DEF CachedPairs
  <2>3. /\ r.pc = "c_lock" /\ r.dest = d /\ r.rp = cache[t].rp /\ r.dp = cache[t].dp
        /\ r \in SenderLocals
    BY <1>1, <2>2, IdleSenderTyped DEF IdleSender, SenderLocals, SenderPcs
  <2>4. Sets(t, r) /\ S[t].pc = "idle" /\ UNCHANGED <<cache, lock, port>> /\ NoWorker
    BY <1>2 DEF ProbeCache, Pc
  <2> HIDE DEF r
  <2>5. LookOK(t)'
    BY <2>3, <2>4, SetsTyped, NotLooking DEF Walking
  <2> QED
    BY <2>2, <2>3, <2>4, <2>5, LocalMoveKeeps DEF OneHeld, TwoHeld, Reading
<1>3. CASE ~(cache[t] # NULL /\ cache[t].gen = space.is_generation /\ cache[t].dest = d)
  <2> DEFINE r == [IdleSender EXCEPT !.pc = "snap_gen", !.dest = d]
  <2>1. r.pc = "snap_gen" /\ r.dest = d /\ r \in SenderLocals
    BY <1>1, IdleSenderTyped DEF IdleSender, SenderLocals, SenderPcs
  <2>2. Sets(t, r) /\ S[t].pc = "idle" /\ UNCHANGED <<cache, lock, port>> /\ NoWorker
    BY <1>3 DEF ProbeCache, Pc
  <2> HIDE DEF r
  <2>3. LookOK(t)'
    BY <2>1, <2>2, SetsTyped, NotLooking DEF Walking
  <2> QED
    BY <2>1, <2>2, <2>3, LocalMoveKeeps DEF OneHeld, TwoHeld, Reading
<1> QED
  BY <1>2, <1>3

\* A step of a sender out of the lookup, which holds no lock.
LEMMA QuietMoveKeeps ==
  ASSUME Typed, Locks, MapInv, LookInv, NEW t \in Senders, NEW r \in SenderLocals,
         Sets(t, r), UNCHANGED <<cache, lock, port>>, NoWorker,
         S[t].pc \notin OneHeld \cup TwoHeld \cup Reading,
         r.pc \notin OneHeld \cup TwoHeld \cup Reading \cup Walking \cup {"got"},
         r.pc # "idle" => r.dest \in Dests,
         r.pc \in {"c_lock", "lock"} => r.rp \in Ports /\ r.dp \in Ports,
         r.pc = "obj" => r.ent # NULL
  PROVE  Typed' /\ Locks' /\ MapInv' /\ LookInv'
<1>1. LookOK(t)'
  BY SetsTyped, NotLooking
<1> QED
  BY <1>1, LocalMoveKeeps

LEMMA SenderFacts ==
  ASSUME Typed, Locks, NEW t \in Senders
  PROVE  /\ S[t] \in SenderLocals /\ SenderOK(t)
         /\ S[t].pc # "idle" => S[t].dest \in Dests /\ S[t].dest \in Names
                                /\ Target(S[t]) \in Names
<1>1. S[t] \in SenderLocals /\ SenderOK(t)
  BY DEF Typed, Locks, SenderPorts
<1> QED
  BY <1>1, NamesAssumption, NameFacts DEF SenderOK, Target

LEMMA SnapshotKeeps ==
  ASSUME Typed, Locks, MapInv, LookInv, NEW t \in Senders, Snapshot(t)
  PROVE  Typed' /\ Locks' /\ MapInv' /\ LookInv'
<1>1. /\ S[t] \in SenderLocals /\ (S[t].pc # "idle" => S[t].dest \in Dests)
      /\ space.is_generation \in Nat /\ space.is_seq \in Nat
  BY SenderFacts DEF Typed, Spaces
<1>2. UNCHANGED <<cache, lock, port>> /\ NoWorker
  BY DEF Snapshot
<1>3. CASE S[t].pc = "snap_gen"
  <2> DEFINE b == Settled
             r == [S[t] EXCEPT !.pc = "snap_seq", !.gen0 = space.is_generation,
                               !.settled = b]
  <2>1. b \in BOOLEAN
    BY DEF Settled
  <2>2. Sets(t, r)
    BY <1>3 DEF Snapshot, Pc
  <2> HIDE DEF b
  <2>3. r \in SenderLocals /\ r.pc = "snap_seq" /\ r.dest = S[t].dest
    BY <1>1, <2>1 DEF SenderLocals, SenderPcs
  <2> HIDE DEF r
  <2> QED
    BY <1>1, <1>2, <1>3, <2>2, <2>3, QuietMoveKeeps
       DEF OneHeld, TwoHeld, Reading, Walking
<1>4. CASE S[t].pc = "snap_seq"
  <2> DEFINE r == [S[t] EXCEPT !.pc = "l_seq", !.seq0 = space.is_seq]
  <2>2. Sets(t, r)
    BY <1>4 DEF Snapshot, Pc
  <2>3. r \in SenderLocals /\ r.pc = "l_seq" /\ r.dest = S[t].dest
    BY <1>1 DEF SenderLocals, SenderPcs
  <2> HIDE DEF r
  <2> QED
    BY <1>1, <1>2, <1>4, <2>2, <2>3, QuietMoveKeeps
       DEF OneHeld, TwoHeld, Reading, Walking
<1> QED
  BY <1>3, <1>4 DEF Snapshot, Pc

LEMMA LookupSeqKeeps ==
  ASSUME Typed, Locks, MapInv, LookInv, NEW t \in Senders, LookupSeq(t)
  PROVE  Typed' /\ Locks' /\ MapInv' /\ LookInv'
<1>1. /\ S[t] \in SenderLocals /\ (S[t].pc # "idle" => S[t].dest \in Dests)
      /\ space.is_seq \in Nat /\ S[t].tries \in 0 .. MAX_TRIES /\ MAX_TRIES \in Nat
  BY SenderFacts, TriesAssumption DEF Typed, Spaces, SenderLocals
<1>2. UNCHANGED <<cache, lock, port>> /\ NoWorker /\ S[t].pc = "l_seq" /\ space' = space
  BY DEF LookupSeq, Pc, NoWorker
<1>3. CASE GivesUp(S[t])
  <2> DEFINE r == [S[t] EXCEPT !.pc = "got", !.ent = NULL]
  <2>2. Sets(t, r)
    BY <1>3 DEF LookupSeq
  <2>3. /\ r \in SenderLocals /\ r.pc = "got" /\ r.dest = S[t].dest /\ r.ent = NULL
        /\ r.tries = MAX_TRIES
    BY <1>1, <1>3 DEF SenderLocals, SenderPcs, GivesUp
  <2> HIDE DEF r
  <2>4. S'[t] = r
    BY <2>2, <2>3, SetsTyped
  <2>5. LookOK(t)'
    BY <2>3, <2>4, LocFacts DEF LookOK, Walking
  <2> QED
    BY <1>1, <1>2, <2>2, <2>3, <2>5, LocalMoveKeeps DEF OneHeld, TwoHeld, Reading
<1>4. CASE ~GivesUp(S[t]) /\ space.is_seq % 2 = 1
  <2> DEFINE r == [S[t] EXCEPT !.tries = @ + 1]
  <2>2. Sets(t, r)
    BY <1>4 DEF LookupSeq
  <2>0. S[t].tries + 1 \in 0 .. MAX_TRIES
    BY <1>1, <1>4 DEF GivesUp
  <2>3. r \in SenderLocals /\ r.pc = "l_seq" /\ r.dest = S[t].dest
    BY <1>1, <1>2, <2>0 DEF SenderLocals, SenderPcs
  <2> HIDE DEF r
  <2> QED
    BY <1>1, <1>2, <2>2, <2>3, QuietMoveKeeps DEF OneHeld, TwoHeld, Reading, Walking
<1>5. CASE ~GivesUp(S[t]) /\ space.is_seq % 2 # 1
  <2> DEFINE r == [S[t] EXCEPT !.pc = "l_size", !.s = space.is_seq,
                               !.tries = @ + 1, !.ent = NULL]
  <2>2. Sets(t, r)
    BY <1>5 DEF LookupSeq
  <2>0. S[t].tries + 1 \in 0 .. MAX_TRIES /\ space.is_seq % 2 = 0
    BY <1>1, <1>5 DEF GivesUp
  <2>3. r \in SenderLocals /\ r.pc = "l_size" /\ r.dest = S[t].dest /\ r.s = space.is_seq
    BY <1>1, <1>2, <2>0 DEF SenderLocals, SenderPcs
  <2> HIDE DEF r
  <2>4. S'[t] = r
    BY <2>2, <2>3, SetsTyped
  <2>5. S'[t].pc = "l_size" /\ S'[t].s % 2 = 0 /\ S'[t].s <= space'.is_seq
    BY <1>1, <1>2, <2>0, <2>3, <2>4
  <2>6. LookOK(t)'
    BY <2>5 DEF LookOK, Walking
  <2> QED
    BY <1>1, <1>2, <2>2, <2>3, <2>6, LocalMoveKeeps DEF OneHeld, TwoHeld, Reading
<1> QED
  BY <1>3, <1>4, <1>5

LEMMA LookupTableKeeps ==
  ASSUME Typed, Locks, MapInv, LookInv, NEW t \in Senders, LookupTable(t)
  PROVE  Typed' /\ Locks' /\ MapInv' /\ LookInv'
<1>1. /\ S[t] \in SenderLocals /\ (S[t].pc # "idle" => S[t].dest \in Dests)
      /\ space.is_seq \in Nat /\ space.is_table_size \in Nat /\ space.is_table \in Blocks
      /\ LookOK(t)
  BY SenderFacts DEF Typed, Spaces, LookInv
<1>2. UNCHANGED <<cache, lock, port>> /\ NoWorker /\ space' = space
  BY DEF LookupTable, NoWorker
<1>3. space.is_table_size <= SIZES[space.is_table]
  <2>1. space.is_table > 1 => space.is_table - 1 \in Blocks
    BY <1>1, Sizes DEF Blocks
  <2> QED
    BY <1>1, <2>1, Sizes DEF MapInv, TableInv
<1>4. CASE S[t].pc = "l_size"
  <2> DEFINE r == [S[t] EXCEPT !.pc = "l_table", !.size = space.is_table_size]
  <2>2. Sets(t, r)
    BY <1>4 DEF LookupTable, Pc
  <2>3. /\ r \in SenderLocals /\ r.pc = "l_table" /\ r.dest = S[t].dest /\ r.s = S[t].s
        /\ r.size = space.is_table_size
    BY <1>1 DEF SenderLocals, SenderPcs
  <2> HIDE DEF r
  <2>4. S'[t] = r
    BY <2>2, <2>3, SetsTyped
  <2>5. LookOK(t)'
    BY <1>1, <1>2, <1>3, <1>4, <2>3, <2>4 DEF LookOK, Walking
  <2> QED
    BY <1>1, <1>2, <1>4, <2>2, <2>3, <2>5, LocalMoveKeeps DEF OneHeld, TwoHeld, Reading
<1>5. CASE S[t].pc = "l_table"
  <2> DEFINE r == [S[t] EXCEPT !.pc = "l_entry", !.tab = space.is_table]
  <2>2. Sets(t, r)
    BY <1>5 DEF LookupTable, Pc
  <2>3. /\ r \in SenderLocals /\ r.pc = "l_entry" /\ r.dest = S[t].dest /\ r.s = S[t].s
        /\ r.size = S[t].size /\ r.tab = space.is_table
    BY <1>1 DEF SenderLocals, SenderPcs
  <2> HIDE DEF r
  <2>4. S'[t] = r
    BY <2>2, <2>3, SetsTyped
  <2>5. LookOK(t)'
    BY <1>1, <1>2, <1>3, <1>5, <2>3, <2>4 DEF LookOK, Walking
  <2> QED
    BY <1>1, <1>2, <1>5, <2>2, <2>3, <2>5, LocalMoveKeeps DEF OneHeld, TwoHeld, Reading
<1> QED
  BY <1>4, <1>5 DEF LookupTable, Pc

LEMMA LookupEntryKeeps ==
  ASSUME Typed, Locks, MapInv, LookInv, NEW t \in Senders, LookupEntry(t)
  PROVE  Typed' /\ Locks' /\ MapInv' /\ LookInv'
<1>1. /\ S[t] \in SenderLocals /\ (S[t].pc # "idle" => S[t].dest \in Dests)
      /\ space.is_seq \in Nat /\ LookOK(t)
  BY SenderFacts DEF Typed, Spaces, LookInv
<1>2. UNCHANGED <<cache, lock, port>> /\ NoWorker /\ S[t].pc = "l_entry" /\ space' = space
      /\ rights' = rights
  BY DEF LookupEntry, NoWorker, Pc
<1> DEFINE n == Target(S[t])
           l == Slot(Index(n), S[t].tab, S[t].size)
           f == IF Matches(n, l) THEN l ELSE NULL
           r == [S[t] EXCEPT !.pc = "l_check", !.ent = f, !.size = 0, !.tab = 1]
<1>3. Sets(t, r)
  BY DEF LookupEntry
<1>4. n \in Names /\ Index(n) \in Indices
  BY <1>2, SenderFacts, NameFacts
<1>5. l \in Locs \cup {NULL}
  <2>1. S[t].tab \in Blocks /\ space.is_tree[Index(n)] \in Ites \cup {NULL}
    BY <1>1, <1>4 DEF SenderLocals, Typed, Spaces
  <2> QED
    BY <1>4, <2>1, LocFacts DEF Slot
<1>6. f \in Locs \cup {NULL}
  BY <1>5
<1> HIDE DEF f
<1>7. /\ r \in SenderLocals /\ r.pc = "l_check" /\ r.dest = S[t].dest /\ r.s = S[t].s
      /\ r.ent = f /\ r.which = S[t].which
  BY <1>1, <1>6, Sizes DEF SenderLocals, SenderPcs
<1> HIDE DEF r
<1>8. SenderMove(t) /\ S'[t] = r
  BY <1>2, <1>3, <1>7, LocalMove
<1>9. Target(S'[t]) = n
  BY <1>7, <1>8 DEF Target
<1> HIDE DEF n
<1>10. (rights[n] # NULL) \in look'[t]
  BY <1>2, <1>7, <1>8, <1>9, ObserveAt DEF Looking, SenderMove
<1>11. ASSUME S[t].s = space.is_seq
       PROVE  /\ f \in Locs \ Ites => rights[n] # NULL
              /\ f = NULL => rights[n] = NULL
  <2>1. S[t].s % 2 = 0 /\ S[t].size = space.is_table_size /\ S[t].tab = space.is_table
    BY <1>1, <1>2, <1>11 DEF LookOK, Walking
  <2>2. Phase \notin TablePcs
    BY <1>11, <2>1 DEF MapInv, TableInv
  <2>3. l = Where(Index(n))
    BY <2>1, <2>2, Steady DEF MapInv
  <2>4. f = IF Matches(n, l) THEN l ELSE NULL
    BY DEF f
  <2> HIDE DEF l
  <2>5. /\ Matches(n, l) => l # NULL /\ (l \notin Ites => rights[n] # NULL)
        /\ ~Matches(n, l) => rights[n] = NULL
    BY <1>4, <2>3, MatchMeans DEF MapInv
  <2> QED
    BY <2>4, <2>5, LocFacts
<1>12. /\ f \in Locs \ Ites /\ S[t].s = space.is_seq => TRUE \in look'[t]
       /\ f = NULL /\ S[t].s = space.is_seq => FALSE \in look'[t]
  <2>1. rights[n] # NULL => TRUE \in look'[t]
    BY <1>10, Zenon
  <2>2. rights[n] = NULL => FALSE \in look'[t]
    BY <1>10, Zenon
  <2> QED
    BY <1>11, <2>1, <2>2
<1>13. LookOK(t)'
  BY <1>1, <1>2, <1>7, <1>8, <1>12 DEF LookOK, Walking
<1> QED
  BY <1>1, <1>2, <1>3, <1>7, <1>13, LocalMoveKeeps DEF OneHeld, TwoHeld, Reading

LEMMA LookupCheckKeeps ==
  ASSUME Typed, Locks, MapInv, LookInv, NEW t \in Senders, LookupCheck(t)
  PROVE  Typed' /\ Locks' /\ MapInv' /\ LookInv'
<1>1. /\ S[t] \in SenderLocals /\ (S[t].pc # "idle" => S[t].dest \in Dests)
      /\ LookOK(t)
  BY SenderFacts DEF LookInv
<1>2. UNCHANGED <<cache, lock, port>> /\ NoWorker /\ S[t].pc = "l_check"
  BY DEF LookupCheck, NoWorker, Pc
<1>3. CASE SameTable(S[t])
  <2> DEFINE r == [S[t] EXCEPT !.pc = "got", !.s = 0]
  <2>1. Sets(t, r)
    BY <1>3 DEF LookupCheck
  <2>2. r \in SenderLocals /\ r.pc = "got" /\ r.dest = S[t].dest /\ r.ent = S[t].ent
    BY <1>1 DEF SenderLocals, SenderPcs
  <2> HIDE DEF r
  <2>3. SenderMove(t) /\ S'[t] = r
    BY <1>2, <2>1, <2>2, LocalMove
  <2>4. look[t] \subseteq look'[t]
    BY <1>2, <2>2, <2>3, ObserveAt DEF Looking, SenderMove
  <2>5. LookOK(t)'
    BY <1>1, <1>2, <1>3, <2>2, <2>3, <2>4 DEF LookOK, Walking, SameTable
  <2> QED
    BY <1>1, <1>2, <2>1, <2>2, <2>5, LocalMoveKeeps DEF OneHeld, TwoHeld, Reading
<1>4. CASE ~SameTable(S[t])
  <2> DEFINE r == [S[t] EXCEPT !.pc = "l_seq", !.s = 0]
  <2>1. Sets(t, r)
    BY <1>4 DEF LookupCheck
  <2>2. r \in SenderLocals /\ r.pc = "l_seq" /\ r.dest = S[t].dest
    BY <1>1 DEF SenderLocals, SenderPcs
  <2> HIDE DEF r
  <2> QED
    BY <1>1, <1>2, <2>1, <2>2, QuietMoveKeeps DEF OneHeld, TwoHeld, Reading, Walking
<1> QED
  BY <1>3, <1>4

LEMMA ResolveTypeKeeps ==
  ASSUME Typed, Locks, MapInv, LookInv, NEW t \in Senders, ResolveType(t)
  PROVE  Typed' /\ Locks' /\ MapInv' /\ LookInv'
<1>1. S[t] \in SenderLocals /\ (S[t].pc # "idle" => S[t].dest \in Dests)
  BY SenderFacts
<1>2. UNCHANGED <<cache, lock, port>> /\ NoWorker /\ S[t].pc = "got"
  BY DEF ResolveType, NoWorker, Pc
<1>3. CASE S[t].ent # NULL /\ Type(S[t].ent) = Wanted(S[t])
  <2> DEFINE r == [S[t] EXCEPT !.pc = "obj", !.tries = 0]
  <2>1. Sets(t, r)
    BY <1>3 DEF ResolveType
  <2>0. 0 \in 0 .. MAX_TRIES
    BY TriesAssumption
  <2>2. r \in SenderLocals /\ r.pc = "obj" /\ r.dest = S[t].dest /\ r.ent = S[t].ent
    BY <1>1, <2>0 DEF SenderLocals, SenderPcs
  <2> HIDE DEF r
  <2> QED
    BY <1>1, <1>2, <1>3, <2>1, <2>2, QuietMoveKeeps DEF OneHeld, TwoHeld, Reading, Walking
<1>4. CASE ~(S[t].ent # NULL /\ Type(S[t].ent) = Wanted(S[t]))
  <2>1. Sets(t, Locked(S[t].dest)) /\ S[t].dest \in Names /\ S[t].dest \in Dests
    BY <1>1, <1>2, <1>4, NamesAssumption DEF ResolveType
  <2> DEFINE r == Locked(S[t].dest)
  <2>2. Sets(t, r) /\ r \in SenderLocals /\ r.pc = "r_lock" /\ r.dest = S[t].dest
    BY <2>1, LockedTyped
  <2> HIDE DEF r
  <2> QED
    BY <1>2, <2>1, <2>2, QuietMoveKeeps DEF OneHeld, TwoHeld, Reading, Walking
<1> QED
  BY <1>3, <1>4

LEMMA ResolveObjectKeeps ==
  ASSUME Typed, Locks, MapInv, LookInv, NEW t \in Senders, ResolveObject(t)
  PROVE  Typed' /\ Locks' /\ MapInv' /\ LookInv'
<1>1. S[t] \in SenderLocals /\ S[t].pc = "obj" /\ S[t].dest \in Dests /\ S[t].ent # NULL
      /\ S[t].dest \in Names
  BY SenderFacts DEF ResolveObject, Pc, SenderOK
<1>2. UNCHANGED <<cache, lock, port>> /\ NoWorker
  BY DEF ResolveObject
<1> DEFINE o == mem[S[t].ent].obj
<1>3. o \in Ports \cup {NULL} /\ S[t].rp \in Ports \cup {NULL}
  <2>1. S[t].ent \in Locs
    BY <1>1 DEF SenderLocals
  <2>2. mem[S[t].ent] \in Entries
    BY <2>1 DEF Typed
  <2> QED
    BY <1>1, <2>2 DEF Entries, SenderLocals
<1>4. CASE S[t].which = "reply"
  <2> DEFINE r == [S[t] EXCEPT !.pc = "l_seq", !.which = "dest", !.rp = o, !.ent = NULL]
  <2>1. Sets(t, r)
    BY <1>4 DEF ResolveObject
  <2> HIDE DEF o
  <2>2. r \in SenderLocals /\ r.pc = "l_seq" /\ r.dest = S[t].dest
    BY <1>1, <1>3 DEF SenderLocals, SenderPcs
  <2> HIDE DEF r
  <2> QED
    BY <1>1, <1>2, <2>1, <2>2, QuietMoveKeeps DEF OneHeld, TwoHeld, Reading, Walking
<1>5. CASE S[t].which # "reply" /\ (S[t].rp = NULL \/ o = NULL)
  <2> DEFINE r == Locked(S[t].dest)
  <2>2. Sets(t, r) /\ r \in SenderLocals /\ r.pc = "r_lock" /\ r.dest = S[t].dest
    BY <1>1, <1>5, LockedTyped DEF ResolveObject
  <2> HIDE DEF r
  <2> QED
    BY <1>1, <1>2, <2>2, QuietMoveKeeps DEF OneHeld, TwoHeld, Reading, Walking
<1>6. CASE S[t].which # "reply" /\ ~(S[t].rp = NULL \/ o = NULL)
  <2> DEFINE r == [S[t] EXCEPT !.pc = "lock", !.dp = o, !.ent = NULL]
  <2>1. Sets(t, r)
    BY <1>6 DEF ResolveObject
  <2> HIDE DEF o
  <2>2. /\ r \in SenderLocals /\ r.pc = "lock" /\ r.dest = S[t].dest /\ r.dp = o
        /\ r.rp = S[t].rp
    BY <1>1, <1>3 DEF SenderLocals, SenderPcs
  <2> HIDE DEF r
  <2> QED
    BY <1>1, <1>2, <1>3, <1>6, <2>1, <2>2, QuietMoveKeeps
       DEF OneHeld, TwoHeld, Reading, Walking
<1> QED
  BY <1>4, <1>5, <1>6

\* ip_lock of the destination.
LEMMA LockDestKeeps ==
  ASSUME Typed, Locks, MapInv, LookInv, NEW t \in Senders, LockDest(t)
  PROVE  Typed' /\ Locks' /\ MapInv' /\ LookInv'
<1> DEFINE next == [c_lock |-> "c_try", lock |-> "try", r_port |-> "r_try"]
           pc == next[S[t].pc]
           r == [S[t] EXCEPT !.pc = pc]
<1>1. /\ S[t].pc \in {"c_lock", "lock", "r_port"} /\ Sets(t, r) /\ Lock(S[t].dp, t)
      /\ UNCHANGED <<cache, lock>> /\ NoWorker
  BY DEF LockDest, Pc
<1>2. pc \in OneHeld /\ (pc = "r_try" <=> S[t].pc = "r_port")
  BY <1>1 DEF OneHeld
<1> HIDE DEF next, pc
<1>3. /\ S[t] \in SenderLocals /\ S[t].dest \in Dests /\ SenderOK(t)
      /\ S[t].rp \in Ports /\ S[t].dp \in Ports
  BY <1>1, SenderFacts DEF SenderOK
<1>4. /\ r \in SenderLocals /\ r.pc = pc /\ r.dest = S[t].dest /\ r.rp = S[t].rp
      /\ r.dp = S[t].dp
  BY <1>2, <1>3 DEF SenderLocals, SenderPcs, OneHeld
<1> HIDE DEF r
<1>5. /\ S' \in [Senders -> SenderLocals] /\ S'[t] = r
      /\ \A u \in Senders \ {t} : S'[u] = S[u]
  BY <1>1, <1>4, SetsTyped
<1> DEFINE d == S[t].dp
<1>6. port[d].owner = NULL /\ port' = [port EXCEPT ![d].owner = t]
  BY <1>1 DEF Lock
<1>7. /\ PortsBy(t) /\ port'[d].owner = t
      /\ \A q \in Ports \ {d} : port'[q] = port[q]
      /\ \A q \in Ports : port'[q].active = port[q].active
  <2>1. t \in Workers \cup Senders /\ t \in {t, NULL} /\ port[d].owner \in {t, NULL}
        /\ d \in Ports
    BY <1>3, <1>6
  <2> HIDE DEF d
  <2> QED
    BY <1>6, <2>1, OwnerSet
<1>8. SenderMove(t)
  BY <1>1, <1>5, <1>7 DEF SenderMove, NoWorker, Typed, Locks, SpaceLock
<1>9. SenderOK(t)'
  <2>1. \A p \in Ports : port[p].owner # t
    BY <1>1, <1>3 DEF SenderOK, OneHeld, TwoHeld
  <2>2. \A p \in Ports : port'[p].owner = t <=> p = d
    BY <1>3, <1>7, <2>1
  <2> QED
    BY <1>2, <1>3, <1>4, <1>5, <2>2 DEF SenderOK, OneHeld, TwoHeld
<1>10. t \in lock'.readers <=> S'[t].pc \in Reading
  BY <1>1, <1>2, <1>4, <1>5 DEF Locks, SpaceLock, Reading, OneHeld
<1>11. LookOK(t)'
  BY <1>2, <1>4, <1>5, NotLooking DEF OneHeld, Walking
<1> QED
  BY <1>8, <1>9, <1>10, <1>11, SenderMoveKeeps

\* ip_active of the destination and ip_lock_try of the reply port: a success
\* holds both, a failure none.
LEMMA LockReplyMeans ==
  ASSUME Typed, NEW t \in Senders, S[t].pc \in OneHeld, SenderOK(t), NEW ok \in BOOLEAN,
         ok = BothLocked(S[t]), LockReply(t, S[t], ok)
  PROVE  /\ PortsBy(t) /\ S[t].rp \in Ports /\ S[t].dp \in Ports
         /\ \A p \in Ports : port'[p].active = port[p].active
         /\ ok => /\ port'[S[t].dp].active
                  /\ \A p \in Ports : port'[p].owner = t <=> p \in {S[t].dp, S[t].rp}
         /\ ~ok => \A p \in Ports : port'[p].owner # t
<1> DEFINE a == S[t].rp
           b == S[t].dp
<1>1. a \in Ports /\ b \in Ports /\ \A p \in Ports : port[p].owner = t <=> p = b
  BY DEF SenderOK, OneHeld, TwoHeld
<1>2. t \in Workers \cup Senders /\ t # NULL
  BY KindFacts
<1>3. CASE ok
  <2>1. port[a].owner = NULL /\ port[b].active /\ port' = [port EXCEPT ![a].owner = t]
    BY <1>3 DEF BothLocked, LockReply, Free
  <2> HIDE DEF a, b
  <2>2. /\ PortsBy(t) /\ port'[a].owner = t
        /\ \A q \in Ports \ {a} : port'[q] = port[q]
        /\ \A q \in Ports : port'[q].active = port[q].active
    <3>1. t \in {t, NULL} /\ port[a].owner \in {t, NULL}
      BY <2>1
    <3> QED
      BY <1>1, <1>2, <2>1, <3>1, OwnerSet
  <2>3. \A p \in Ports : port'[p].owner = t <=> p \in {b, a}
    BY <1>1, <2>2
  <2> QED
    BY <1>1, <1>3, <2>1, <2>2, <2>3 DEF a, b
<1>4. CASE ~ok
  <2>1. port' = [port EXCEPT ![b].owner = NULL]
    BY <1>4 DEF LockReply
  <2> HIDE DEF a, b
  <2>2. /\ PortsBy(t) /\ port'[b].owner = NULL
        /\ \A q \in Ports \ {b} : port'[q] = port[q]
        /\ \A q \in Ports : port'[q].active = port[q].active
    <3>1. NULL \in {t, NULL} /\ port[b].owner \in {t, NULL}
      BY <1>1
    <3> QED
      BY <1>1, <1>2, <2>1, <3>1, OwnerSet
  <2> QED
    BY <1>1, <1>2, <1>4, <2>2 DEF a, b
<1> QED
  BY <1>3, <1>4

\* The three tries: what remains is how the locals, the read lock and the cache
\* change.
LEMMA TryKeeps ==
  ASSUME Typed, Locks, MapInv, LookInv, NEW t \in Senders, S[t].pc \in OneHeld,
         NEW r \in SenderLocals, Sets(t, r), NoWorker,
         LockReply(t, S[t], BothLocked(S[t])),
         BothLocked(S[t]) => r.pc \in TwoHeld /\ r.rp = S[t].rp /\ r.dp = S[t].dp,
         ~BothLocked(S[t]) => r.pc \in {"idle", "r_lock"},
         r.pc # "idle" => r.dest \in Dests,
         lock' \in [writer : Workers \cup {NULL}, readers : SUBSET Senders],
         lock'.writer = lock.writer, lock'.readers = lock.readers \ {t},
         cache' \in [Senders -> CachedPairs \cup {NULL}],
         \A u \in Senders \ {t} : cache'[u] = cache[u]
  PROVE  Typed' /\ Locks' /\ MapInv' /\ LookInv'
<1> DEFINE ok == BothLocked(S[t])
<1>1. /\ S[t] \in SenderLocals /\ SenderOK(t)
      /\ S[t].rp \in Ports /\ S[t].dp \in Ports
  BY SenderFacts DEF SenderOK
<1>2. ok \in BOOLEAN
  <2>1. port[S[t].dp] \in PortStates
    BY <1>1 DEF Typed
  <2>2. port[S[t].dp].active \in BOOLEAN
    BY <2>1 DEF PortStates
  <2> QED
    BY <2>2 DEF BothLocked, Free
<1> HIDE DEF ok
<1>3. /\ PortsBy(t)
      /\ \A p \in Ports : port'[p].active = port[p].active
      /\ ok => /\ port'[S[t].dp].active
               /\ \A p \in Ports : port'[p].owner = t <=> p \in {S[t].dp, S[t].rp}
      /\ ~ok => \A p \in Ports : port'[p].owner # t
  <2>1. ok = BothLocked(S[t]) /\ LockReply(t, S[t], ok)
    BY DEF ok
  <2> QED
    BY <1>1, <1>2, <2>1, LockReplyMeans
<1>4. /\ S' \in [Senders -> SenderLocals] /\ S'[t] = r
      /\ \A u \in Senders \ {t} : S'[u] = S[u]
  BY SetsTyped
<1>5. /\ ok => r.pc \in TwoHeld /\ r.rp = S[t].rp /\ r.dp = S[t].dp
      /\ ~ok => r.pc \in {"idle", "r_lock"}
  BY DEF ok
<1>6. SenderMove(t)
  BY <1>3, <1>4 DEF SenderMove, NoWorker
<1>7. SenderOK(t)'
  <2>1. CASE ok
    BY <1>1, <1>3, <1>4, <1>5, <2>1 DEF SenderOK, OneHeld, TwoHeld
  <2>2. CASE ~ok
    BY <1>3, <1>4, <1>5, <2>2 DEF SenderOK, OneHeld, TwoHeld
  <2> QED
    BY <2>1, <2>2
<1>8. t \in lock'.readers <=> S'[t].pc \in Reading
  BY <1>4, <1>5 DEF Reading, TwoHeld
<1>9. LookOK(t)'
  <2>1. S'[t].pc \notin Walking \cup {"got"}
    BY <1>4, <1>5 DEF TwoHeld, Walking
  <2> QED
    BY <2>1, NotLooking
<1> QED
  BY <1>6, <1>7, <1>8, <1>9, SenderMoveKeeps

LEMMA CacheTryKeeps ==
  ASSUME Typed, Locks, MapInv, LookInv, NEW t \in Senders, CacheTry(t)
  PROVE  Typed' /\ Locks' /\ MapInv' /\ LookInv'
<1> DEFINE r == IF BothLocked(S[t]) THEN [S[t] EXCEPT !.pc = "send"] ELSE IdleSender
<1>1. /\ S[t].pc = "c_try" /\ S[t].pc \in OneHeld /\ Sets(t, r) /\ NoWorker
      /\ lock' = lock /\ LockReply(t, S[t], BothLocked(S[t]))
  BY DEF CacheTry, Pc, OneHeld
<1>2. S[t] \in SenderLocals /\ S[t].dest \in Dests
  BY <1>1, SenderFacts
<1>3. /\ r \in SenderLocals
      /\ BothLocked(S[t]) => r.pc \in TwoHeld /\ r.rp = S[t].rp /\ r.dp = S[t].dp
      /\ ~BothLocked(S[t]) => r.pc \in {"idle", "r_lock"}
      /\ r.pc # "idle" => r.dest \in Dests
  <2>1. CASE BothLocked(S[t])
    BY <1>2, <2>1 DEF SenderLocals, SenderPcs, TwoHeld
  <2>2. CASE ~BothLocked(S[t])
    BY <2>2, IdleSenderTyped DEF IdleSender
  <2> QED
    BY <2>1, <2>2
<1> HIDE DEF r
<1>4. /\ cache' \in [Senders -> CachedPairs \cup {NULL}]
      /\ \A u \in Senders \ {t} : cache'[u] = cache[u]
  BY DEF CacheTry, Typed
<1>5. t \notin lock.readers
  BY <1>1 DEF Locks, SpaceLock, Reading
<1>6. /\ lock' \in [writer : Workers \cup {NULL}, readers : SUBSET Senders]
      /\ lock'.writer = lock.writer /\ lock'.readers = lock.readers \ {t}
  BY <1>1, <1>5 DEF Typed
<1> QED
  BY <1>1, <1>3, <1>4, <1>6, TryKeeps

LEMMA ResolveTryKeeps ==
  ASSUME Typed, Locks, MapInv, LookInv, NEW t \in Senders, ResolveTry(t)
  PROVE  Typed' /\ Locks' /\ MapInv' /\ LookInv'
<1> DEFINE r == IF BothLocked(S[t]) THEN [S[t] EXCEPT !.pc = "verify"]
                ELSE Locked(S[t].dest)
<1>1. /\ S[t].pc = "try" /\ S[t].pc \in OneHeld /\ Sets(t, r) /\ NoWorker
      /\ lock' = lock /\ cache' = cache /\ LockReply(t, S[t], BothLocked(S[t]))
  BY DEF ResolveTry, Pc, OneHeld
<1>2. S[t] \in SenderLocals /\ S[t].dest \in Dests /\ S[t].dest \in Names
  BY <1>1, SenderFacts
<1>3. /\ r \in SenderLocals
      /\ BothLocked(S[t]) => r.pc \in TwoHeld /\ r.rp = S[t].rp /\ r.dp = S[t].dp
      /\ ~BothLocked(S[t]) => r.pc \in {"idle", "r_lock"}
      /\ r.pc # "idle" => r.dest \in Dests
  <2>1. CASE BothLocked(S[t])
    BY <1>2, <2>1 DEF SenderLocals, SenderPcs, TwoHeld
  <2>2. CASE ~BothLocked(S[t])
    BY <1>2, <2>2, LockedTyped
  <2> QED
    BY <2>1, <2>2
<1> HIDE DEF r
<1>5. t \notin lock.readers
  BY <1>1 DEF Locks, SpaceLock, Reading
<1>6. /\ lock' \in [writer : Workers \cup {NULL}, readers : SUBSET Senders]
      /\ lock'.writer = lock.writer /\ lock'.readers = lock.readers \ {t}
      /\ cache' \in [Senders -> CachedPairs \cup {NULL}]
      /\ \A u \in Senders \ {t} : cache'[u] = cache[u]
  BY <1>1, <1>5 DEF Typed
<1> QED
  BY <1>1, <1>3, <1>6, TryKeeps

LEMMA ReadTryKeeps ==
  ASSUME Typed, Locks, MapInv, LookInv, NEW t \in Senders, ReadTry(t)
  PROVE  Typed' /\ Locks' /\ MapInv' /\ LookInv'
<1> DEFINE r == IF BothLocked(S[t]) THEN [S[t] EXCEPT !.pc = "fill", !.settled = TRUE]
                ELSE IdleSender
<1>1. /\ S[t].pc = "r_try" /\ S[t].pc \in OneHeld /\ Sets(t, r) /\ NoWorker
      /\ lock' = [lock EXCEPT !.readers = @ \ {t}] /\ cache' = cache
      /\ LockReply(t, S[t], BothLocked(S[t]))
  BY DEF ReadTry, Pc, OneHeld
<1>2. S[t] \in SenderLocals /\ S[t].dest \in Dests
  BY <1>1, SenderFacts
<1>3. /\ r \in SenderLocals
      /\ BothLocked(S[t]) => r.pc \in TwoHeld /\ r.rp = S[t].rp /\ r.dp = S[t].dp
      /\ ~BothLocked(S[t]) => r.pc \in {"idle", "r_lock"}
      /\ r.pc # "idle" => r.dest \in Dests
  <2>1. CASE BothLocked(S[t])
    BY <1>2, <2>1 DEF SenderLocals, SenderPcs, TwoHeld
  <2>2. CASE ~BothLocked(S[t])
    BY <2>2, IdleSenderTyped DEF IdleSender
  <2> QED
    BY <2>1, <2>2
<1> HIDE DEF r
<1>6. /\ lock' \in [writer : Workers \cup {NULL}, readers : SUBSET Senders]
      /\ lock'.writer = lock.writer /\ lock'.readers = lock.readers \ {t}
      /\ cache' \in [Senders -> CachedPairs \cup {NULL}]
      /\ \A u \in Senders \ {t} : cache'[u] = cache[u]
  BY <1>1 DEF Typed
<1> QED
  BY <1>1, <1>3, <1>6, TryKeeps

\* Under the read lock a lookup gives the port that the name denotes.
LEMMA ReadMeans ==
  ASSUME Typed, TableInv, EntryInv, lock.writer = NULL, NEW n \in Names,
         NEW l, l = ipc_entry_lookup(n), l # NULL, Type(l) \in {"send", "receive"}
  PROVE  /\ l \in Locs /\ mem[l].obj \in Ports /\ rights[n] = Id(mem[l].obj)
         /\ Type(l) = "receive" <=> mem[l].obj = ReplyPort
<1> DEFINE i == Index(n)
<1>1. i \in Indices /\ n = <<i, Gen(n)>>
  BY NameFacts
<1>2. Phase = "idle" /\ ~Busy(i) /\ Phase \notin TablePcs
  BY DEF Phase, Busy, TablePcs
<1>3. l = Where(i) /\ Matches(n, l)
  BY <1>2, Steady DEF ipc_entry_lookup
<1>4. EntryOK(i, mem[l]) /\ mem[l].gen = Gen(n)
  BY <1>1, <1>3 DEF EntryInv, EntryAt, Matches
<1>5. l \in Locs
  <2>1. space.is_tree[i] \in Ites \cup {NULL} /\ Home \in Blocks
    BY <1>1, <1>2, Steady DEF Typed, Spaces
  <2> QED
    BY <1>1, <1>3, <2>1, LocFacts DEF Where
<1>6. mem[l].type \in {"send", "receive"} /\ mem[l].obj # NULL
  BY <1>2, <1>4 DEF EntryOK, Type
<1>7. PICK p \in Ports : /\ rights[n] = Id(p) /\ mem[l].obj \in {p, NULL}
                         /\ mem[l].type = "receive" <=> p = ReplyPort
  BY <1>1, <1>4, <1>6 DEF EntryOK
<1> QED
  BY <1>5, <1>6, <1>7 DEF Type

LEMMA ReadFindKeeps ==
  ASSUME Typed, Locks, MapInv, LookInv, NEW t \in Senders, ReadFind(t)
  PROVE  Typed' /\ Locks' /\ MapInv' /\ LookInv'
<1> DEFINE re == ipc_entry_lookup(ReplyName)
           de == ipc_entry_lookup(S[t].dest)
           ok == /\ re # NULL /\ Type(re) = "receive"
                 /\ de # NULL /\ Type(de) = "send"
<1>1. S[t].pc = "r_find" /\ UNCHANGED <<cache, port>> /\ NoWorker
  BY DEF ReadFind, Pc
<1>2. /\ S[t] \in SenderLocals /\ S[t].dest \in Dests /\ S[t].dest \in Names
      /\ t \in lock.readers /\ lock.writer = NULL
      /\ \A p \in Ports : port[p].owner # t
  BY <1>1, SenderFacts DEF Locks, SpaceLock, Reading, SenderOK, OneHeld, TwoHeld
<1>3. PortsBy(t)
  BY <1>1, PortsSame
<1>4. CASE ok
  <2> DEFINE a == mem[re].obj
             b == mem[de].obj
             r == [S[t] EXCEPT !.pc = "r_port", !.rp = a, !.dp = b]
  <2>1. a \in Ports /\ b \in Ports
    BY <1>2, <1>4, ReadMeans, NameFacts DEF MapInv
  <2>2. Sets(t, r) /\ lock' = lock
    BY <1>4 DEF ReadFind
  <2> HIDE DEF a, b
  <2>3. r \in SenderLocals /\ r.pc = "r_port" /\ r.rp = a /\ r.dp = b /\ r.dest = S[t].dest
    BY <1>2, <2>1 DEF SenderLocals, SenderPcs
  <2> HIDE DEF r
  <2>4. /\ S' \in [Senders -> SenderLocals] /\ S'[t] = r
        /\ \A u \in Senders \ {t} : S'[u] = S[u]
    BY <2>2, <2>3, SetsTyped
  <2>5. SenderMove(t)
    BY <1>1, <1>2, <1>3, <2>2, <2>4 DEF SenderMove, NoWorker, Typed
  <2>6. SenderOK(t)' /\ LookOK(t)' /\ (t \in lock'.readers <=> S'[t].pc \in Reading)
    BY <1>1, <1>2, <2>1, <2>2, <2>3, <2>4, NotLooking
       DEF SenderOK, OneHeld, TwoHeld, Reading, Walking
  <2> QED
    BY <2>5, <2>6, SenderMoveKeeps
<1>5. CASE ~ok
  <2>2. Sets(t, IdleSender) /\ lock' = [lock EXCEPT !.readers = @ \ {t}]
    BY <1>5 DEF ReadFind
  <2>4. /\ S' \in [Senders -> SenderLocals] /\ S'[t] = IdleSender
        /\ \A u \in Senders \ {t} : S'[u] = S[u]
    BY <2>2, IdleSenderTyped, SetsTyped
  <2>5. /\ lock' \in [writer : Workers \cup {NULL}, readers : SUBSET Senders]
        /\ lock'.writer = lock.writer /\ lock'.readers = lock.readers \ {t}
    BY <2>2 DEF Typed
  <2>6. SenderMove(t)
    BY <1>1, <1>2, <1>3, <2>4, <2>5 DEF SenderMove, NoWorker, Typed
  <2>7. S'[t].pc = "idle"
    BY <2>4 DEF IdleSender
  <2>8. SenderOK(t)' /\ LookOK(t)' /\ (t \in lock'.readers <=> S'[t].pc \in Reading)
    BY <1>1, <1>2, <2>5, <2>7, NotLooking DEF SenderOK, OneHeld, TwoHeld, Reading, Walking
  <2> QED
    BY <2>6, <2>8, SenderMoveKeeps
<1> QED
  BY <1>4, <1>5

LEMMA ReadLockKeeps ==
  ASSUME Typed, Locks, MapInv, LookInv, NEW t \in Senders, ReadLock(t)
  PROVE  Typed' /\ Locks' /\ MapInv' /\ LookInv'
<1> DEFINE r == [S[t] EXCEPT !.pc = "r_find"]
<1>1. /\ S[t].pc = "r_lock" /\ UNCHANGED <<cache, port>> /\ NoWorker /\ Sets(t, r)
      /\ lock.writer = NULL /\ lock' = [lock EXCEPT !.readers = @ \cup {t}]
  BY DEF ReadLock, Pc
<1>2. /\ S[t] \in SenderLocals /\ S[t].dest \in Dests
      /\ \A p \in Ports : port[p].owner # t
  BY <1>1, SenderFacts DEF SenderOK, OneHeld, TwoHeld
<1>3. PortsBy(t)
  BY <1>1, PortsSame
<1>4. r \in SenderLocals /\ r.pc = "r_find" /\ r.dest = S[t].dest
  BY <1>2 DEF SenderLocals, SenderPcs
<1> HIDE DEF r
<1>5. /\ S' \in [Senders -> SenderLocals] /\ S'[t] = r
      /\ \A u \in Senders \ {t} : S'[u] = S[u]
  BY <1>1, <1>4, SetsTyped
<1>6. /\ lock' \in [writer : Workers \cup {NULL}, readers : SUBSET Senders]
      /\ lock'.writer = lock.writer /\ lock'.readers = lock.readers \cup {t}
  BY <1>1 DEF Typed
<1>7. SenderMove(t)
  BY <1>1, <1>3, <1>5, <1>6 DEF SenderMove, NoWorker, Typed
<1>8. SenderOK(t)' /\ LookOK(t)' /\ (t \in lock'.readers <=> S'[t].pc \in Reading)
  BY <1>1, <1>2, <1>4, <1>5, <1>6, NotLooking
     DEF SenderOK, OneHeld, TwoHeld, Reading, Walking
<1> QED
  BY <1>7, <1>8, SenderMoveKeeps

\* A sender that gives both ports back.
LEMMA UnlockKeeps ==
  ASSUME Typed, Locks, MapInv, LookInv, NEW t \in Senders, S[t].pc \in TwoHeld,
         NEW r \in SenderLocals, Sets(t, r), UNCHANGED <<cache, lock>>, NoWorker,
         port' = Unlocked(S[t]), r.pc \in {"idle", "r_lock"},
         r.pc # "idle" => r.dest \in Dests
  PROVE  Typed' /\ Locks' /\ MapInv' /\ LookInv'
<1>1. /\ S' \in [Senders -> SenderLocals] /\ S'[t] = r
      /\ \A u \in Senders \ {t} : S'[u] = S[u]
  BY SetsTyped
<1>2. /\ PortsBy(t)
      /\ \A p \in Ports : port'[p].owner # t /\ port'[p].active = port[p].active
  BY BothUnlocked, SenderFacts
<1>3. t \notin lock.readers
  BY DEF Locks, SpaceLock, Reading, TwoHeld
<1>4. SenderMove(t)
  BY <1>1, <1>2, <1>3 DEF SenderMove, NoWorker, Typed
<1>5. SenderOK(t)' /\ LookOK(t)' /\ (t \in lock'.readers <=> S'[t].pc \in Reading)
  BY <1>1, <1>2, <1>3, NotLooking DEF SenderOK, OneHeld, TwoHeld, Reading, Walking
<1> QED
  BY <1>4, <1>5, SenderMoveKeeps

\* A sender that keeps both ports.
LEMMA HoldKeeps ==
  ASSUME Typed, Locks, MapInv, LookInv, NEW t \in Senders, S[t].pc \in TwoHeld,
         NEW r \in SenderLocals, Sets(t, r), UNCHANGED <<port, lock>>, NoWorker,
         r.pc \in {"fill", "send"}, S[t].pc \in {"verify", "fill"},
         r.dest = S[t].dest, r.rp = S[t].rp, r.dp = S[t].dp,
         cache' \in [Senders -> CachedPairs \cup {NULL}],
         \A u \in Senders \ {t} : cache'[u] = cache[u]
  PROVE  Typed' /\ Locks' /\ MapInv' /\ LookInv'
<1>1. /\ S' \in [Senders -> SenderLocals] /\ S'[t] = r
      /\ \A u \in Senders \ {t} : S'[u] = S[u]
  BY SetsTyped
<1>2. PortsBy(t) /\ SenderOK(t)
  BY PortsSame, SenderFacts
<1>3. t \notin lock.readers
  BY DEF Locks, SpaceLock, Reading, TwoHeld
<1>4. SenderMove(t)
  BY <1>1, <1>2, <1>3 DEF SenderMove, NoWorker, Typed
<1>5. SenderOK(t)'
  BY <1>1, <1>2 DEF SenderOK, OneHeld, TwoHeld
<1>6. LookOK(t)' /\ (t \in lock'.readers <=> S'[t].pc \in Reading)
  BY <1>1, <1>3, NotLooking DEF Reading, Walking
<1> QED
  BY <1>4, <1>5, <1>6, SenderMoveKeeps

LEMMA ResolveVerifyKeeps ==
  ASSUME Typed, Locks, MapInv, LookInv, NEW t \in Senders, ResolveVerify(t)
  PROVE  Typed' /\ Locks' /\ MapInv' /\ LookInv'
<1>1. S[t].pc = "verify" /\ S[t].pc \in TwoHeld /\ UNCHANGED <<cache, lock>> /\ NoWorker
  BY DEF ResolveVerify, Pc, TwoHeld
<1>2. S[t] \in SenderLocals /\ S[t].dest \in Dests /\ S[t].dest \in Names
  BY <1>1, SenderFacts
<1>3. CASE SnapshotHolds(S[t])
  <2> DEFINE b == S[t].settled /\ Settled
             r == [S[t] EXCEPT !.pc = "fill", !.settled = b]
  <2>1. b \in BOOLEAN
    BY DEF Settled
  <2>2. Sets(t, r) /\ port' = port
    BY <1>3 DEF ResolveVerify
  <2> HIDE DEF b
  <2>3. /\ r \in SenderLocals /\ r.pc = "fill" /\ r.dest = S[t].dest
        /\ r.rp = S[t].rp /\ r.dp = S[t].dp
    BY <1>2, <2>1 DEF SenderLocals, SenderPcs
  <2> HIDE DEF r
  <2>4. /\ cache' \in [Senders -> CachedPairs \cup {NULL}]
        /\ \A u \in Senders \ {t} : cache'[u] = cache[u]
    BY <1>1 DEF Typed
  <2> QED
    BY <1>1, <2>2, <2>3, <2>4, HoldKeeps
<1>4. CASE ~SnapshotHolds(S[t])
  <2> DEFINE r == Locked(S[t].dest)
  <2>1. Sets(t, r) /\ port' = Unlocked(S[t])
    BY <1>4 DEF ResolveVerify
  <2>2. r \in SenderLocals /\ r.pc = "r_lock" /\ r.dest = S[t].dest
    BY <1>2, LockedTyped
  <2> HIDE DEF r
  <2> QED
    BY <1>1, <1>2, <2>1, <2>2, UnlockKeeps
<1> QED
  BY <1>3, <1>4

LEMMA FillCacheKeeps ==
  ASSUME Typed, Locks, MapInv, LookInv, NEW t \in Senders, FillCache(t)
  PROVE  Typed' /\ Locks' /\ MapInv' /\ LookInv'
<1> DEFINE r == [IdleSender EXCEPT !.pc = "send", !.dest = S[t].dest, !.rp = S[t].rp,
                                   !.dp = S[t].dp]
           b == S[t].settled /\ Settled
           c == [dest |-> S[t].dest, rp |-> S[t].rp, dp |-> S[t].dp,
                 gen |-> space.is_generation, settled |-> b]
<1>1. /\ S[t].pc = "fill" /\ S[t].pc \in TwoHeld /\ UNCHANGED <<port, lock>> /\ NoWorker
      /\ Sets(t, r)
  BY DEF FillCache, Pc, TwoHeld
<1>2. /\ S[t] \in SenderLocals /\ S[t].dest \in Dests /\ S[t].dest \in Names
      /\ S[t].rp \in Ports /\ S[t].dp \in Ports
  BY <1>1, SenderFacts DEF SenderOK
<1>3. cache' = [cache EXCEPT ![t] = c]
  BY DEF FillCache
<1>4. b \in BOOLEAN
  BY DEF Settled
<1> HIDE DEF b
<1>5. c \in CachedPairs
  BY <1>2, <1>4 DEF CachedPairs, Typed, Spaces
<1> HIDE DEF c
<1>6. /\ cache' \in [Senders -> CachedPairs \cup {NULL}]
      /\ \A u \in Senders \ {t} : cache'[u] = cache[u]
  BY <1>3, <1>5 DEF Typed
<1>7. /\ r \in SenderLocals /\ r.pc = "send" /\ r.dest = S[t].dest
      /\ r.rp = S[t].rp /\ r.dp = S[t].dp
  BY <1>2, IdleSenderTyped DEF IdleSender, SenderLocals, SenderPcs
<1> HIDE DEF r
<1> QED
  BY <1>1, <1>6, <1>7, HoldKeeps

LEMMA SendKeeps ==
  ASSUME Typed, Locks, MapInv, LookInv, NEW t \in Senders, Send(t)
  PROVE  Typed' /\ Locks' /\ MapInv' /\ LookInv'
<1>1. /\ S[t].pc \in TwoHeld /\ UNCHANGED <<cache, lock>> /\ NoWorker
      /\ Sets(t, IdleSender) /\ port' = Unlocked(S[t])
  BY DEF Send, Pc, TwoHeld
<1> DEFINE r == IdleSender
<1>2. Sets(t, r) /\ r \in SenderLocals /\ r.pc = "idle"
  BY <1>1, IdleSenderTyped DEF IdleSender
<1> HIDE DEF r
<1> QED
  BY <1>1, <1>2, UnlockKeeps

LEMMA SenderKeeps ==
  ASSUME Typed, Locks, MapInv, LookInv, NEW t \in Senders,
         SenderStep(t) \/ \E d \in Dests : ProbeCache(t, d)
  PROVE  Typed' /\ Locks' /\ MapInv' /\ LookInv'
  BY ProbeCacheKeeps, LockDestKeeps, CacheTryKeeps, SnapshotKeeps, LookupSeqKeeps,
     LookupTableKeeps, LookupEntryKeeps, LookupCheckKeeps, ResolveTypeKeeps,
     ResolveObjectKeeps, ResolveTryKeeps, ResolveVerifyKeeps, ReadLockKeeps,
     ReadFindKeeps, ReadTryKeeps, FillCacheKeeps, SendKeeps DEF SenderStep

\* A port dies while nobody holds it.
LEMMA PortDiesKeeps ==
  ASSUME Typed, Locks, MapInv, LookInv, NEW d \in Ports, PortDies(d)
  PROVE  Typed' /\ Locks' /\ MapInv' /\ LookInv'
<1>1. /\ UNCHANGED <<mem, space, W, rights, lock, S, cache>> /\ Observe
      /\ port[d].owner = NULL /\ rights[ReplyName] # Id(d)
      /\ port' = [port EXCEPT ![d].active = FALSE]
  BY DEF PortDies, NoWorker, Free
<1>2. /\ PortsBy(NULL) /\ \A p \in Ports \ {d} : port'[p] = port[p]
  <2>1. port[d] \in PortStates /\ port \in [Ports -> PortStates]
    BY DEF Typed
  <2>2. /\ port'[d] = [port[d] EXCEPT !.active = FALSE]
        /\ \A p \in Ports \ {d} : port'[p] = port[p]
    BY <1>1, <2>1
  <2>3. /\ port'[d] \in PortStates /\ port'[d].active = FALSE
        /\ port'[d].inc = port[d].inc /\ port'[d].owner = port[d].owner
    BY <2>1, <2>2 DEF PortStates
  <2>4. port' \in [Ports -> PortStates]
    BY <1>1, <2>1, <2>2, <2>3
  <2> QED
    BY <1>1, <2>2, <2>3, <2>4 DEF PortsBy
<1>3. Typed'
  <2>1. look' \in [Senders -> SUBSET BOOLEAN]
    BY <1>1, ObserveTyped DEF Typed
  <2> QED
    BY <1>1, <1>2, <2>1 DEF Typed, PortsBy
<1>4. Locks'
  <2>1. SpaceLock'
    BY <1>1 DEF Locks, SpaceLock
  <2>2. SenderPorts'
    BY <1>1, <1>2, OtherSender, KindFacts DEF Locks, SenderPorts
  <2>3. WorkerPorts'
    BY <1>1, <1>2, OtherWorker, KindFacts DEF Locks, WorkerPorts
  <2> QED
    BY <2>1, <2>2, <2>3 DEF Locks
<1>5. MapInv'
  <2>1. \/ port'[ReplyPort].active = port[ReplyPort].active
        \/ rights[ReplyName] # Id(ReplyPort)
    BY <1>1, <1>2, PortsAssumption
  <2> QED
    BY <1>1, <1>2, <2>1, MapFrame
<1>6. LookInv'
  <2> SUFFICES ASSUME NEW u \in Senders PROVE LookOK(u)'
    BY DEF LookInv
  <2>1. S[u].pc \in Looking => look[u] \subseteq look'[u]
    <3> SUFFICES ASSUME S[u].pc \in Looking PROVE look[u] \subseteq look'[u]
      OBVIOUS
    <3>1. S'[u].pc \in Looking /\ S[u].pc \notin {"snap_seq", "obj"}
      BY <1>1 DEF Looking
    <3> QED
      BY <1>1, <3>1, ObserveAt
  <2>2. LookOK(u)
    BY DEF LookInv
  <2> QED
    BY <1>1, <2>1, <2>2 DEF LookOK, Looking
<1> QED
  BY <1>3, <1>4, <1>5, <1>6

-----------------------------------------------------------------------------
(* Workers. *)

\* The shape of every step of a worker: it takes or gives back the space lock
\* only for itself, and a table that a reader may trust stays.
WorkerMove(w) ==
  /\ UNCHANGED <<S, cache>> /\ Observe
  /\ mem' \in [Locs -> Entries] /\ space' \in Spaces
  /\ rights' \in [Names -> PortIds \cup {DEAD, NULL}]
  /\ W' \in [Workers -> WorkerLocals]
  /\ \A v \in Workers \ {w} : W'[v] = W[v]
  /\ PortsBy(w)
  /\ lock' \in [writer : Workers \cup {NULL}, readers : SUBSET Senders]
  /\ lock'.readers = lock.readers
  /\ \/ lock'.writer = lock.writer
     \/ lock.writer = NULL /\ lock.readers = {} /\ lock'.writer = w
     \/ lock.writer = w /\ lock'.writer = NULL
  /\ lock'.writer = w <=> W'[w].pc \in WritePcs
  /\ space'.is_seq >= space.is_seq /\ space'.is_table >= space.is_table
  /\ space'.is_seq = space.is_seq /\ space.is_seq % 2 = 0 =>
       /\ space'.is_table = space.is_table
       /\ space'.is_table_size = space.is_table_size

LEMMA WorkerMoveKeeps ==
  ASSUME Typed, Locks, MapInv, LookInv, NEW w \in Workers, WorkerMove(w),
         WorkerOK(w)', MapInv'
  PROVE  Typed' /\ Locks' /\ MapInv' /\ LookInv'
<1>1. S' = S /\ cache' = cache
  BY DEF WorkerMove
<1>2. Typed'
  <2>1. look' \in [Senders -> SUBSET BOOLEAN]
    BY <1>1, ObserveTyped DEF WorkerMove, Typed
  <2> QED
    BY <1>1, <2>1 DEF WorkerMove, Typed, PortsBy
<1>3. SpaceLock'
  <2>1. \A v \in Workers : lock'.writer = v <=> W'[v].pc \in WritePcs
    <3> TAKE v \in Workers
    <3>1. CASE v = w
      BY <3>1 DEF WorkerMove
    <3>2. CASE v # w
      <4>1. W'[v] = W[v] /\ (lock.writer = v <=> W[v].pc \in WritePcs)
        BY <3>2 DEF WorkerMove, Locks, SpaceLock
      <4>2. lock'.writer = v <=> lock.writer = v
        BY <3>2, KindFacts DEF WorkerMove
      <4> QED
        BY <4>1, <4>2
    <3> QED
      BY <3>1, <3>2
  <2>2. lock'.writer # NULL => lock'.readers = {}
    BY KindFacts DEF WorkerMove, Locks, SpaceLock
  <2> QED
    BY <1>1, <2>1, <2>2 DEF WorkerMove, Locks, SpaceLock
<1>4. SenderPorts'
  <2> SUFFICES ASSUME NEW u \in Senders PROVE SenderOK(u)'
    BY DEF SenderPorts
  <2>1. u # w
    BY KindFacts
  <2> QED
    BY <1>1, <2>1, OtherSender DEF WorkerMove, Locks, SenderPorts
<1>5. WorkerPorts'
  <2> SUFFICES ASSUME NEW v \in Workers, v # w PROVE WorkerOK(v)'
    BY DEF WorkerPorts
  <2> QED
    BY OtherWorker DEF WorkerMove, Locks, WorkerPorts
<1>6. LookInv'
  <2> SUFFICES ASSUME NEW u \in Senders PROVE LookOK(u)'
    BY DEF LookInv
  <2>1. S[u].pc \in Looking => look[u] \subseteq look'[u]
    <3> SUFFICES ASSUME S[u].pc \in Looking PROVE look[u] \subseteq look'[u]
      OBVIOUS
    <3>1. S'[u].pc \in Looking /\ S[u].pc \notin {"snap_seq", "obj"}
      BY <1>1 DEF Looking
    <3> QED
      BY <3>1, ObserveAt DEF WorkerMove
  <2>2. LookOK(u) /\ S'[u] = S[u]
    BY <1>1 DEF LookInv
  <2>3. S[u].s \in Nat /\ space.is_seq \in Nat /\ space'.is_seq \in Nat
        /\ S[u].size \in Nat /\ S[u].tab \in Blocks
    BY DEF Typed, SenderLocals, Spaces, WorkerMove
  <2>4. SIZES[space.is_table] <= SIZES[space'.is_table]
        /\ SIZES[space.is_table] \in Nat /\ SIZES[space'.is_table] \in Nat
    <3>1. space.is_table \in Blocks /\ space'.is_table \in Blocks
      BY DEF Typed, Spaces, WorkerMove
    <3>2. space.is_table \in Nat /\ space'.is_table \in Nat
      BY <3>1, Sizes
    <3>3. space.is_table < space'.is_table \/ space.is_table = space'.is_table
      BY <3>2 DEF WorkerMove
    <3>4. SIZES[space.is_table] \in Nat /\ SIZES[space'.is_table] \in Nat
      BY <3>1, Sizes
    <3>5. space.is_table < space'.is_table => SIZES[space.is_table] < SIZES[space'.is_table]
      BY <3>1, Sizes
    <3> QED
      BY <3>3, <3>4, <3>5
  <2>5. S[u].pc \in Walking => S[u].s <= space'.is_seq
    BY <2>2, <2>3 DEF LookOK, WorkerMove
  <2>6. S[u].pc \in Walking /\ S[u].s = space'.is_seq =>
          /\ space.is_seq = S[u].s
          /\ space'.is_table = space.is_table
          /\ space'.is_table_size = space.is_table_size
    <3> SUFFICES ASSUME S[u].pc \in Walking, S[u].s = space'.is_seq
                 PROVE  /\ space.is_seq = S[u].s
                        /\ space'.is_table = space.is_table
                        /\ space'.is_table_size = space.is_table_size
      OBVIOUS
    <3>1. S[u].s % 2 = 0 /\ S[u].s <= space.is_seq
      BY <2>2 DEF LookOK
    <3>2. space.is_seq = S[u].s
      BY <2>3, <3>1 DEF WorkerMove
    <3> QED
      BY <3>1, <3>2 DEF WorkerMove
  <2>7. S[u].pc = "l_table" => S[u].size <= SIZES[space'.is_table]
    BY <2>2, <2>3, <2>4 DEF LookOK
  <2> QED
    BY <2>1, <2>2, <2>5, <2>6, <2>7 DEF LookOK, Looking, Walking
<1> QED
  BY <1>2, <1>3, <1>4, <1>5, <1>6 DEF Locks

\* The locations of the table and the tree.
LEMMA WhereFacts ==
  ASSUME Typed, TableInv
  PROVE  /\ Home \in Blocks /\ Limit \in Nat /\ Limit <= SIZES[Home]
         /\ \A i \in Indices : Where(i) \in Locs \cup {NULL}
         /\ \A i \in Indices : i < Limit => Where(i) = <<Home, i>> /\ Where(i) \in Locs
         /\ \A i \in Indices : ~(i < Limit) => Where(i) \in Ites \cup {NULL}
<1>1. space.is_table \in Blocks /\ \A i \in Indices : space.is_tree[i] \in Ites \cup {NULL}
  BY DEF Typed, Spaces
<1>2. space.is_table > 1 => space.is_table - 1 \in Blocks
  BY <1>1, Sizes DEF Blocks
<1>3. Home \in Blocks /\ Limit \in Nat /\ Limit <= SIZES[Home]
  BY <1>1, <1>2, Sizes DEF TableInv, Home, Limit
<1> QED
  BY <1>1, <1>3, LocFacts DEF Where

LEMMA WhereInjective ==
  ASSUME EntryInv, NEW i \in Indices, NEW j \in Indices, Where(i) = Where(j), Where(i) # NULL
  PROVE  i = j
  BY DEF EntryInv, EntryAt, EntryOK

\* Whoever works on a name or the table is the writer.
LEMMA TheWriter ==
  ASSUME Locks, NEW w \in Workers, W[w].pc \in WritePcs
  PROVE  /\ lock.writer = w /\ Phase = W[w].pc /\ lock.writer # NULL
         /\ \A v \in Workers : W[v].pc \in WritePcs => v = w
  BY KindFacts DEF Locks, SpaceLock, Phase

LEMMA NoWriter ==
  ASSUME Locks, lock.writer = NULL
  PROVE  /\ Phase = "idle" /\ Phase \notin TablePcs /\ \A i : ~Busy(i)
         /\ \A v \in Workers : W[v].pc \notin WritePcs
  BY KindFacts DEF Locks, SpaceLock, Phase, Busy, TablePcs

\* Only the writer can be in the middle of a name.
LEMMA OnlyWriterWorks ==
  ASSUME Locks, NEW w \in Workers, WorkerMove(w), lock.writer \in {w, NULL}
  PROVE  \A v \in Workers \ {w} : W'[v].pc \notin WritePcs
  BY KindFacts DEF Locks, SpaceLock, WorkerMove

\* A step on the name n: only the entry of its index and its right change.
NameChange(w, n) ==
  /\ WorkerMove(w)
  /\ lock.writer \in {w, NULL}
  /\ lock.writer = w => W[w].pc \in NamePcs /\ W[w].name = n
  /\ lock'.writer = w => W'[w].pc \in NamePcs /\ W'[w].name = n
  /\ W[w].pc \notin {"g_alloc", "g_free"} /\ W'[w].pc \notin {"g_alloc", "g_free"}
  /\ space'.is_table = space.is_table /\ space'.is_table_size = space.is_table_size
  /\ space'.is_seq = space.is_seq /\ space'.is_growing = space.is_growing
  /\ \A i \in Indices : i # Index(n) => space'.is_tree[i] = space.is_tree[i]
  /\ \A i \in Indices : i # Index(n) /\ Where(i) # NULL => mem'[Where(i)] = mem[Where(i)]
  /\ \A m \in Names : Index(m) # Index(n) => rights'[m] = rights[m]

LEMMA NameFrame ==
  ASSUME Typed, Locks, MapInv, NEW w \in Workers, NEW n \in Names, NameChange(w, n)
  PROVE  /\ Phase \notin TablePcs /\ Phase' \notin TablePcs
         /\ Home' = Home /\ Limit' = Limit /\ Home = space.is_table
         /\ TableInv' /\ Cleared'
         /\ \A i \in Indices : i # Index(n) => EntryAt(i)'
         /\ \A i \in Indices : i # Index(n) => (i \in FreeSlots' <=> i \in FreeSlots)
         /\ Busy(Index(n)) <=> lock.writer = w
         /\ Busy(Index(n))' <=> lock'.writer = w
         /\ \A p \in Ports : Id(p)' = Id(p)
<1> DEFINE i0 == Index(n)
<1>0. i0 \in Indices /\ \A p \in Ports : Id(p)' = Id(p)
  BY NameFacts DEF NameChange, WorkerMove, PortsBy, Id
<1>1. lock'.writer \in {w, NULL} /\ w # NULL
  BY KindFacts DEF NameChange, WorkerMove
<1>2. Phase \in NamePcs \cup {"idle"} /\ Phase' \in NamePcs \cup {"idle"}
  BY <1>1 DEF NameChange, Phase
<1>3. Phase \notin TablePcs /\ Phase' \notin TablePcs
  BY <1>2 DEF NamePcs, TablePcs
<1>4. Home' = Home /\ Limit' = Limit /\ Home = space.is_table
  BY <1>3 DEF Home, Limit, NameChange, TablePcs
<1>5. /\ \A i : Busy(i) => i = i0
      /\ \A i : Busy(i)' => i = i0
      /\ Busy(i0) <=> lock.writer = w
      /\ Busy(i0)' <=> lock'.writer = w
  BY <1>1 DEF Busy, NameChange
<1>6. TableInv'
  <2>1. \A v \in Workers : W'[v].pc \in {"g_alloc", "g_free"} => W'[v] = W[v]
    BY DEF NameChange, WorkerMove
  <2>2. \A v \in Workers : W[v].pc \in {"g_alloc", "g_free"} => W'[v] = W[v]
    BY DEF NameChange, WorkerMove
  <2>3. space.is_table_size = SIZES[space.is_table] /\ space.is_seq % 2 = 0
    BY <1>3 DEF MapInv, TableInv, TablePcs
  <2>4. \A v \in Workers : W[v].pc = "g_alloc" =>
          /\ space.is_growing /\ space.is_table < Len(SIZES)
          /\ \A u \in Workers : W[u].pc = "g_alloc" => u = v
    BY DEF MapInv, TableInv
  <2>5. \A v \in Workers : W[v].pc = "g_free" => W[v].tab \in Blocks /\ W[v].tab < Home
    BY DEF MapInv, TableInv
  <2>6. \A v \in Workers : W'[v].pc = "g_alloc" =>
          /\ space'.is_growing /\ space'.is_table < Len(SIZES) /\ Phase' \notin TablePcs
          /\ \A u \in Workers : W'[u].pc = "g_alloc" => u = v
    BY <1>3, <2>1, <2>4 DEF NameChange
  <2>7. \A v \in Workers : W'[v].pc = "g_free" => W'[v].tab \in Blocks /\ W'[v].tab < Home'
    BY <1>4, <2>1, <2>5
  <2>8. /\ space'.is_table_size = SIZES[space'.is_table] /\ space'.is_seq % 2 = 0
    BY <2>3 DEF NameChange
  <2> QED
    BY <1>3, <2>6, <2>7, <2>8 DEF TableInv, TablePcs
<1>7. Cleared'
  BY <1>3 DEF Cleared, TablePcs
<1>8. \A i \in Indices : i # i0 => /\ Where(i)' = Where(i)
                                   /\ space'.is_tree[i] = space.is_tree[i]
                                   /\ Where(i) # NULL => mem'[Where(i)] = mem[Where(i)]
                                   /\ \A g \in Gens : rights'[<<i, g>>] = rights[<<i, g>>]
  <2>1. \A i \in Indices : i # i0 => space'.is_tree[i] = space.is_tree[i]
    BY DEF NameChange
  <2>2. \A i \in Indices : i # i0 => Where(i)' = Where(i)
    BY <1>4, <2>1 DEF Where
  <2>3. \A i \in Indices : i # i0 => \A g \in Gens : rights'[<<i, g>>] = rights[<<i, g>>]
    BY NameFacts DEF NameChange
  <2> QED
    BY <2>1, <2>2, <2>3 DEF NameChange
<1>9. \A i \in Indices : i # i0 => EntryAt(i)'
  <2> SUFFICES ASSUME NEW i \in Indices, i # i0 PROVE EntryAt(i)'
    OBVIOUS
  <2>1. EntryAt(i) /\ ~Busy(i) /\ ~Busy(i)'
    BY <1>5 DEF MapInv, EntryInv
  <2>2. CASE Where(i) = NULL
    BY <1>4, <1>8, <2>1, <2>2 DEF EntryAt
  <2>3. CASE Where(i) # NULL
    <3>1. /\ EntryOK(i, mem[Where(i)]) /\ Where(i)' = Where(i)
          /\ mem'[Where(i)'] = mem[Where(i)]
      BY <1>8, <2>1, <2>3 DEF EntryAt
    <3>2. mem[Where(i)].gen \in Gens
      <4>1. Where(i) \in Locs
        BY <2>3, WhereFacts DEF MapInv
      <4> QED
        BY <4>1 DEF Typed, Entries
    <3>3. \A e : e.gen \in Gens /\ EntryOK(i, e) => EntryOK(i, e)'
      BY <1>0, <1>4, <1>8, <2>1 DEF EntryOK
    <3> QED
      BY <1>4, <1>8, <2>1, <2>3, <3>1, <3>2, <3>3 DEF EntryAt
  <2> QED
    BY <2>2, <2>3
<1>10. \A i \in Indices : i # i0 => (i \in FreeSlots' <=> i \in FreeSlots)
  <2> SUFFICES ASSUME NEW i \in Indices, i # i0 PROVE i \in FreeSlots' <=> i \in FreeSlots
    OBVIOUS
  <2>1. ~Busy(i) /\ ~Busy(i)'
    BY <1>5
  <2>2. i < Limit => mem'[<<Home', i>>] = mem[<<Home, i>>]
    BY <1>4, <1>8, WhereFacts, LocFacts DEF MapInv
  <2> QED
    BY <1>4, <2>1, <2>2 DEF FreeSlots
<1> QED
  BY <1>0, <1>3, <1>4, <1>5, <1>6, <1>7, <1>9, <1>10

LEMMA GotoMeans ==
  ASSUME Typed, NEW w \in Workers, NEW pc \in WorkerPcs, Goto(w, pc)
  PROVE  /\ W' \in [Workers -> WorkerLocals] /\ \A v \in Workers \ {w} : W'[v] = W[v]
         /\ W'[w].pc = pc /\ W'[w].op = W[w].op /\ W'[w].name = W[w].name
         /\ W'[w].loc = W[w].loc /\ W'[w].port = W[w].port /\ W'[w].tab = W[w].tab
<1>1. W \in [Workers -> WorkerLocals] /\ W[w] \in WorkerLocals
  BY DEF Typed
<1>2. /\ W'[w] = [W[w] EXCEPT !.pc = pc] /\ \A v \in Workers \ {w} : W'[v] = W[v]
      /\ DOMAIN W' = Workers /\ W' = [v \in Workers |-> W'[v]]
  BY <1>1 DEF Goto
<1>3. /\ W'[w] \in WorkerLocals
      /\ W'[w].pc = pc /\ W'[w].op = W[w].op /\ W'[w].name = W[w].name
      /\ W'[w].loc = W[w].loc /\ W'[w].port = W[w].port /\ W'[w].tab = W[w].tab
  BY <1>1, <1>2 DEF WorkerLocals
<1> QED
  BY <1>1, <1>2, <1>3

LEMMA FinishMeans ==
  ASSUME Typed, NEW w \in Workers, Finish(w)
  PROVE  /\ W' \in [Workers -> WorkerLocals] /\ \A v \in Workers \ {w} : W'[v] = W[v]
         /\ W'[w] = IdleWorker /\ W'[w].pc = "idle" /\ W'[w].op = "none"
         /\ W'[w].port = NULL
<1>1. IdleWorker \in WorkerLocals
  BY DEF IdleWorker, WorkerLocals, WorkerPcs
<1> QED
  BY <1>1 DEF Finish, Typed, IdleWorker

LEMMA BeginMeans ==
  ASSUME Typed, NEW w \in Workers, NEW pc \in WorkerPcs,
         NEW op \in {"destroy", "move", "check", "copyout", "grow"},
         NEW n \in Names \cup {NULL}, NEW l \in Locs \cup {NULL}, NEW p \in Ports \cup {NULL},
         Begin(w, pc, op, n, l, p)
  PROVE  /\ W[w].pc = "idle"
         /\ W' \in [Workers -> WorkerLocals] /\ \A v \in Workers \ {w} : W'[v] = W[v]
         /\ W'[w].pc = pc /\ W'[w].op = op /\ W'[w].name = n
         /\ W'[w].loc = l /\ W'[w].port = p
<1> DEFINE r == [pc |-> pc, op |-> op, name |-> n, loc |-> l, port |-> p, tab |-> 0]
<1>1. r \in WorkerLocals /\ r.pc = pc /\ r.op = op /\ r.name = n /\ r.loc = l /\ r.port = p
  BY DEF WorkerLocals
<1>2. W' = [W EXCEPT ![w] = r] /\ W[w].pc = "idle"
  BY DEF Begin
<1> HIDE DEF r
<1> QED
  BY <1>1, <1>2 DEF Typed

\* What is known in the middle of a name.
LEMMA NameWork ==
  ASSUME Typed, Locks, MapInv, NEW w \in Workers, W[w].pc \in NamePcs
  PROVE  /\ W[w] \in WorkerLocals /\ WorkOK(w) /\ WorkerOK(w)
         /\ lock.writer = w /\ lock.writer # NULL /\ Phase = W[w].pc
         /\ W[w].name \in Names /\ Index(W[w].name) \in Indices /\ Gen(W[w].name) \in Gens
         /\ W[w].name = <<Index(W[w].name), Gen(W[w].name)>>
         /\ W[w].loc \in Locs /\ mem[W[w].loc] \in Entries
         /\ W[w].loc = Where(Index(W[w].name)) /\ W[w].loc # NULL
         /\ mem[W[w].loc].gen = Gen(W[w].name)
         /\ mem[W[w].loc].idx = Index(W[w].name)
         /\ EntryOK(Index(W[w].name), mem[W[w].loc])
         /\ Index(W[w].name) < Limit => /\ W[w].loc \notin Ites
                                        /\ W[w].loc = <<Home, Index(W[w].name)>>
         /\ ~(Index(W[w].name) < Limit) => W[w].loc \in Ites
         /\ \A i \in Indices : i # Index(W[w].name) => Where(i) # W[w].loc
<1> DEFINE n == W[w].name
           l == W[w].loc
<1>1. W[w] \in WorkerLocals /\ WorkOK(w) /\ WorkerOK(w)
  BY DEF Typed, MapInv, WorkInv, Locks, WorkerPorts
<1>2. lock.writer = w /\ lock.writer # NULL /\ Phase = W[w].pc
  BY TheWriter DEF WritePcs
<1>3. n \in Names /\ l \in Locs /\ Where(Index(n)) = l /\ mem[l].gen = Gen(n)
  BY <1>1 DEF WorkOK
<1>4. Index(n) \in Indices /\ Gen(n) \in Gens /\ n = <<Index(n), Gen(n)>> /\ l # NULL
      /\ mem[l] \in Entries
  BY <1>3, NameFacts, LocFacts DEF Typed
<1>5. EntryOK(Index(n), mem[l])
  BY <1>3, <1>4 DEF MapInv, EntryInv, EntryAt
<1>6. mem[l].idx = Index(n)
  BY <1>5 DEF EntryOK
<1>7. /\ Index(n) < Limit => l \notin Ites /\ l = <<Home, Index(n)>>
      /\ ~(Index(n) < Limit) => l \in Ites
  BY <1>3, <1>4, WhereFacts, LocFacts DEF MapInv
<1>8. \A i \in Indices : i # Index(n) => Where(i) # l
  BY <1>3, <1>4, WhereInjective DEF MapInv
<1> QED
  BY <1>1, <1>2, <1>3, <1>4, <1>5, <1>6, <1>7, <1>8

\* A step of the writer in the middle of a name.
LEMMA NameStep ==
  ASSUME Typed, Locks, MapInv, NEW w \in Workers, W[w].pc \in NamePcs, NoSender,
         mem' \in [Locs -> Entries], \A k \in Locs \ {W[w].loc} : mem'[k] = mem[k],
         rights' \in [Names -> PortIds \cup {DEAD, NULL}],
         \A m \in Names \ {W[w].name} : rights'[m] = rights[m],
         space' \in Spaces,
         space'.is_table = space.is_table, space'.is_table_size = space.is_table_size,
         space'.is_seq = space.is_seq, space'.is_growing = space.is_growing,
         \A i \in Indices : i # Index(W[w].name) => space'.is_tree[i] = space.is_tree[i],
         W' \in [Workers -> WorkerLocals], \A v \in Workers \ {w} : W'[v] = W[v],
         PortsBy(w),
         \/ lock' = lock /\ W'[w].pc \in NamePcs /\ W'[w].name = W[w].name
         \/ WriteUnlock /\ W'[w].pc \in {"idle", "port"}
  PROVE  /\ NameChange(w, W[w].name)
         /\ lock'.writer = w <=> W'[w].pc \in NamePcs
<1>1. lock.writer = w /\ w # NULL
  BY NameWork
<1>2. /\ lock' \in [writer : Workers \cup {NULL}, readers : SUBSET Senders]
      /\ lock'.readers = lock.readers /\ lock'.writer \in {w, NULL}
      /\ lock'.writer = w <=> W'[w].pc \in NamePcs
      /\ W'[w].pc \in NamePcs => W'[w].name = W[w].name
      /\ W'[w].pc \in NamePcs \cup {"idle", "port"}
  BY <1>1 DEF Typed, WriteUnlock, NamePcs
<1>3. W'[w].pc \in NamePcs <=> W'[w].pc \in WritePcs
  BY <1>2 DEF NamePcs, WritePcs, TablePcs
<1>4. space.is_seq \in Nat /\ space.is_table \in Nat
  BY Sizes DEF Typed, Spaces
<1>5. WorkerMove(w)
  BY <1>1, <1>2, <1>3, <1>4 DEF WorkerMove, NoSender
<1>6. \A i \in Indices : i # Index(W[w].name) /\ Where(i) # NULL
        => mem'[Where(i)] = mem[Where(i)]
  BY NameWork, WhereFacts DEF MapInv
<1>7. \A m \in Names : Index(m) # Index(W[w].name) => rights'[m] = rights[m]
  OBVIOUS
<1>8. W[w].pc \notin {"g_alloc", "g_free"} /\ W'[w].pc \notin {"g_alloc", "g_free"}
  BY <1>2 DEF NamePcs
<1> QED
  BY <1>1, <1>2, <1>5, <1>6, <1>7, <1>8 DEF NameChange

\* What remains of the invariant for the name itself.
LEMMA NameKeeps ==
  ASSUME Typed, Locks, MapInv, LookInv, NEW w \in Workers, NEW n \in Names,
         NameChange(w, n), WorkerOK(w)', EntryAt(Index(n))',
         W'[w].pc \in NamePcs => WorkOK(w)', FreeList', ReplyLives'
  PROVE  Typed' /\ Locks' /\ MapInv' /\ LookInv'
<1>1. /\ TableInv' /\ Cleared' /\ WorkerMove(w)
      /\ \A i \in Indices : i # Index(n) => EntryAt(i)'
  BY NameFrame DEF NameChange
<1>2. EntryInv'
  BY <1>1 DEF EntryInv
<1>3. WorkInv'
  BY <1>1, OnlyWriterWorks DEF WorkInv, NameChange, WritePcs
<1>4. MapInv'
  BY <1>1, <1>2, <1>3 DEF MapInv
<1> QED
  BY <1>1, <1>4, WorkerMoveKeeps

LEMMA ReplyFrame ==
  ASSUME Typed, MapInv, NEW w \in Workers, WorkerMove(w),
         \/ rights'[ReplyName] = rights[ReplyName] \/ rights'[ReplyName] # Id(ReplyPort),
         port'[ReplyPort].active = port[ReplyPort].active,
         W'[w].pc = "port" /\ W'[w].port = ReplyPort => rights'[ReplyName] # Id(ReplyPort)
  PROVE  ReplyLives'
<1>1. Id(ReplyPort)' = Id(ReplyPort)
  BY PortsAssumption DEF WorkerMove, PortsBy, Id
<1>2. /\ rights[ReplyName] = Id(ReplyPort) => port[ReplyPort].active
      /\ \A v \in Workers : W[v].pc = "port" /\ W[v].port = ReplyPort
           => rights[ReplyName] # Id(ReplyPort)
  BY DEF MapInv, ReplyLives
<1>3. \A v \in Workers \ {w} : W'[v] = W[v]
  BY DEF WorkerMove
<1>4. \A v \in Workers : W'[v].pc = "port" /\ W'[v].port = ReplyPort
        => rights'[ReplyName] # Id(ReplyPort)
  BY <1>2, <1>3
<1> QED
  BY <1>1, <1>2, <1>4 DEF ReplyLives

\* The free list when a step on the name n leaves it alone, ...
LEMMA FreeKept ==
  ASSUME Typed, Locks, MapInv, NEW w \in Workers, NEW n \in Names, NameChange(w, n),
         space'.free = space.free, Index(n) \in FreeSlots' <=> Index(n) \in FreeSlots
  PROVE  FreeList'
<1>1. FreeSlots' = FreeSlots
  <2>1. \A i \in Indices : i \in FreeSlots' <=> i \in FreeSlots
    BY NameFrame
  <2> QED
    BY <2>1 DEF FreeSlots
<1> QED
  BY <1>1 DEF MapInv, FreeList

\* ... puts the slot on it ...
LEMMA FreePut ==
  ASSUME Typed, Locks, MapInv, NEW w \in Workers, NEW n \in Names, NameChange(w, n),
         space'.free = <<Index(n)>> \o space.free,
         Index(n) \in FreeSlots', Index(n) \notin FreeSlots
  PROVE  FreeList'
<1> DEFINE i == Index(n)
           f == space.free
           g == space'.free
<1>1. FreeSlots' = FreeSlots \cup {i}
  <2>1. \A j \in Indices : j # i => (j \in FreeSlots' <=> j \in FreeSlots)
    BY NameFrame
  <2>2. FreeSlots \subseteq Indices /\ FreeSlots' \subseteq Indices
    BY DEF FreeSlots
  <2> QED
    BY <2>1, <2>2
<1>2. /\ f \in Seq(Indices) /\ i \in Indices
      /\ {f[k] : k \in DOMAIN f} = FreeSlots
      /\ \A j, k \in DOMAIN f : f[j] = f[k] => j = k
  BY NameFacts DEF Typed, Spaces, MapInv, FreeList
<1>3. Len(f) \in Nat /\ DOMAIN f = 1 .. Len(f)
  BY <1>2
<1>4. /\ g \in Seq(Indices) /\ DOMAIN g = 1 .. Len(f) + 1
      /\ g[1] = i /\ \A k \in 2 .. Len(f) + 1 : g[k] = f[k - 1]
  BY <1>2, <1>3
<1> HIDE DEF i, f, g
<1>5. \A k \in 1 .. Len(f) + 1 : k # 1 => k - 1 \in DOMAIN f /\ g[k] = f[k - 1]
                                        /\ g[k] \in FreeSlots
  <2> SUFFICES ASSUME NEW k \in 1 .. Len(f) + 1, k # 1
               PROVE  k - 1 \in DOMAIN f /\ g[k] = f[k - 1] /\ g[k] \in FreeSlots
    OBVIOUS
  <2>1. k \in 2 .. Len(f) + 1 /\ k - 1 \in DOMAIN f
    BY <1>3
  <2> QED
    BY <1>2, <1>4, <2>1
<1>6. \A j, k \in 1 .. Len(f) + 1 : g[j] = g[k] => j = k
  <2> SUFFICES ASSUME NEW j \in 1 .. Len(f) + 1, NEW k \in 1 .. Len(f) + 1, g[j] = g[k]
               PROVE  j = k
    OBVIOUS
  <2>1. CASE j = 1 \/ k = 1
    BY <1>4, <1>5, <2>1 DEF i
  <2>2. CASE j # 1 /\ k # 1
    <3>1. j - 1 = k - 1
      BY <1>2, <1>5, <2>2
    <3> QED
      BY <1>3, <3>1
  <2> QED
    BY <2>1, <2>2
<1>7. {g[k] : k \in DOMAIN g} = FreeSlots \cup {i}
  <2>1. \A k \in DOMAIN g : g[k] \in FreeSlots \cup {i}
    BY <1>4, <1>5
  <2>2. ASSUME NEW j \in FreeSlots \cup {i}
        PROVE  \E k \in DOMAIN g : g[k] = j
    <3>1. CASE j = i
      <4>1. 1 \in DOMAIN g
        BY <1>3, <1>4
      <4> QED
        BY <1>4, <3>1, <4>1
    <3>2. CASE j \in FreeSlots
      <4>1. PICK k \in DOMAIN f : f[k] = j
        BY <1>2, <3>2
      <4>2. k + 1 \in 2 .. Len(f) + 1 /\ k + 1 \in DOMAIN g /\ (k + 1) - 1 = k
        BY <1>3, <1>4
      <4>3. g[k + 1] = f[k]
        BY <1>4, <4>2
      <4> QED
        BY <4>1, <4>2, <4>3
    <3> QED
      BY <3>1, <3>2
  <2> QED
    BY <2>1, <2>2
<1> QED
  BY <1>1, <1>4, <1>6, <1>7 DEF FreeList, g

\* ... or takes it off.
LEMMA FreeTake ==
  ASSUME Typed, Locks, MapInv, NEW w \in Workers, NEW n \in Names, NameChange(w, n),
         NEW k \in DOMAIN space.free, space.free[k] = Index(n),
         space'.free = RemoveAt(space.free, k), Index(n) \notin FreeSlots'
  PROVE  FreeList'
<1> DEFINE i == Index(n)
           f == space.free
           g == space'.free
<1>1. FreeSlots' = FreeSlots \ {i}
  <2>1. \A j \in Indices : j # i => (j \in FreeSlots' <=> j \in FreeSlots)
    BY NameFrame
  <2>2. FreeSlots \subseteq Indices /\ FreeSlots' \subseteq Indices
    BY DEF FreeSlots
  <2> QED
    BY <2>1, <2>2
<1>2. /\ f \in Seq(Indices)
      /\ {f[j] : j \in DOMAIN f} = FreeSlots
      /\ \A j, m \in DOMAIN f : f[j] = f[m] => j = m
  BY NameFacts DEF Typed, Spaces, MapInv, FreeList
<1>3. g = RemoveAt(f, k) /\ k \in DOMAIN f /\ f[k] = i
  OBVIOUS
<1> HIDE DEF i, f, g
<1>4. /\ {g[j] : j \in DOMAIN g} = {f[j] : j \in DOMAIN f} \ {f[k]}
      /\ \A j, m \in DOMAIN g : g[j] = g[m] => j = m
  <2> DEFINE h == RemoveAt(f, k)
  <2>1. /\ {h[j] : j \in DOMAIN h} = {f[j] : j \in DOMAIN f} \ {f[k]}
        /\ \A j, m \in DOMAIN h : h[j] = h[m] => j = m
    BY <1>2, <1>3, ListWithout, Zenon
  <2>2. g = h
    BY <1>3
  <2> HIDE DEF h
  <2> QED
    BY <2>1, <2>2
<1>5. {g[j] : j \in DOMAIN g} = FreeSlots \ {i}
  BY <1>2, <1>3, <1>4
<1> QED
  BY <1>1, <1>4, <1>5 DEF FreeList, g

\* Stores into one entry.
LEMMA SetType ==
  ASSUME Typed, NEW l \in Locs, NEW x \in Types, mem' = [mem EXCEPT ![l].type = x]
  PROVE  /\ mem' \in [Locs -> Entries] /\ \A k \in Locs \ {l} : mem'[k] = mem[k]
         /\ mem'[l].type = x /\ mem'[l].idx = mem[l].idx /\ mem'[l].gen = mem[l].gen
         /\ mem'[l].obj = mem[l].obj
<1>1. mem \in [Locs -> Entries] /\ mem[l] \in Entries
  BY DEF Typed
<1>2. /\ mem'[l] = [mem[l] EXCEPT !.type = x] /\ \A k \in Locs \ {l} : mem'[k] = mem[k]
      /\ mem' = [k \in Locs |-> mem'[k]]
  BY <1>1
<1>3. /\ mem'[l] \in Entries
      /\ mem'[l].type = x /\ mem'[l].idx = mem[l].idx /\ mem'[l].gen = mem[l].gen
      /\ mem'[l].obj = mem[l].obj
  BY <1>1, <1>2 DEF Entries
<1> QED
  BY <1>1, <1>2, <1>3

LEMMA SetObj ==
  ASSUME Typed, NEW l \in Locs, NEW x \in Ports \cup {NULL}, mem' = [mem EXCEPT ![l].obj = x]
  PROVE  /\ mem' \in [Locs -> Entries] /\ \A k \in Locs \ {l} : mem'[k] = mem[k]
         /\ mem'[l].obj = x /\ mem'[l].idx = mem[l].idx /\ mem'[l].gen = mem[l].gen
         /\ mem'[l].type = mem[l].type
<1>1. mem \in [Locs -> Entries] /\ mem[l] \in Entries
  BY DEF Typed
<1>2. /\ mem'[l] = [mem[l] EXCEPT !.obj = x] /\ \A k \in Locs \ {l} : mem'[k] = mem[k]
      /\ mem' = [k \in Locs |-> mem'[k]]
  BY <1>1
<1>3. /\ mem'[l] \in Entries
      /\ mem'[l].obj = x /\ mem'[l].idx = mem[l].idx /\ mem'[l].gen = mem[l].gen
      /\ mem'[l].type = mem[l].type
  BY <1>1, <1>2 DEF Entries
<1> QED
  BY <1>1, <1>2, <1>3

LEMMA SetGen ==
  ASSUME Typed, NEW l \in Locs, NEW x \in Gens, mem' = [mem EXCEPT ![l].gen = x]
  PROVE  /\ mem' \in [Locs -> Entries] /\ \A k \in Locs \ {l} : mem'[k] = mem[k]
         /\ mem'[l].gen = x /\ mem'[l].idx = mem[l].idx /\ mem'[l].obj = mem[l].obj
         /\ mem'[l].type = mem[l].type
<1>1. mem \in [Locs -> Entries] /\ mem[l] \in Entries
  BY DEF Typed
<1>2. /\ mem'[l] = [mem[l] EXCEPT !.gen = x] /\ \A k \in Locs \ {l} : mem'[k] = mem[k]
      /\ mem' = [k \in Locs |-> mem'[k]]
  BY <1>1
<1>3. /\ mem'[l] \in Entries
      /\ mem'[l].gen = x /\ mem'[l].idx = mem[l].idx /\ mem'[l].obj = mem[l].obj
      /\ mem'[l].type = mem[l].type
  BY <1>1, <1>2 DEF Entries
<1> QED
  BY <1>1, <1>2, <1>3

\* The entry of index i is at l and stays there.
EntryStays(w, i, l) ==
  /\ Where(i)' = l /\ Limit' = Limit
  /\ (\A e : e = mem'[l] => EntryOK(i, e)') => EntryAt(i)'
  /\ i \in FreeSlots <=> /\ i < Limit /\ mem[l].type = "none"
                         /\ W[w].pc \notin {"c_obj", "c_bits", "bump"}
  /\ i \in FreeSlots' <=>
       /\ i < Limit /\ mem'[l].type = "none"
       /\ ~(W'[w].pc \in {"c_obj", "c_bits", "bump"} /\ lock'.writer = w)
  /\ \A p \in Ports : Id(p)' = Id(p)
  /\ Busy(i)' <=> lock'.writer = w

\* A step in the middle of a name that leaves the tree alone.
LEMMA InPlace ==
  ASSUME Typed, Locks, MapInv, NEW w \in Workers, W[w].pc \in NamePcs,
         NEW n \in Names, n = W[w].name, NEW i \in Indices, i = Index(n),
         NEW l \in Locs, l = W[w].loc,
         NameChange(w, n), space'.is_tree = space.is_tree
  PROVE  EntryStays(w, i, l)
<1>1. /\ Home' = Home /\ Limit' = Limit
      /\ Busy(i) <=> lock.writer = w
      /\ Busy(i)' <=> lock'.writer = w
      /\ \A p \in Ports : Id(p)' = Id(p)
  BY NameFrame
<1>2. /\ l = Where(i) /\ l # NULL /\ lock.writer = w /\ Phase = W[w].pc
      /\ i < Limit => l = <<Home, i>>
      /\ EntryAt(i)
  BY NameWork DEF MapInv, EntryInv
<1>3. Where(i)' = l
  BY <1>1, <1>2 DEF Where
<1>4. (\A e : e = mem'[l] => EntryOK(i, e)') => EntryAt(i)'
  BY <1>1, <1>2, <1>3 DEF EntryAt
<1>5. i \in FreeSlots <=> /\ i < Limit /\ mem[l].type = "none"
                          /\ W[w].pc \notin {"c_obj", "c_bits", "bump"}
  BY <1>1, <1>2 DEF FreeSlots
<1>6. lock'.writer = w => Phase' = W'[w].pc
  BY KindFacts DEF Phase
<1>7. i \in FreeSlots' <=> /\ i < Limit /\ mem'[l].type = "none"
                           /\ ~(W'[w].pc \in {"c_obj", "c_bits", "bump"} /\ lock'.writer = w)
  <2>1. i \in FreeSlots' <=> /\ i < Limit' /\ mem'[<<Home', i>>].type = "none"
                             /\ ~(Phase' \in {"c_obj", "c_bits", "bump"} /\ Busy(i)')
    BY <1>2 DEF FreeSlots
  <2> QED
    BY <1>1, <1>2, <1>6, <2>1
<1> QED
  BY <1>1, <1>3, <1>4, <1>5, <1>7 DEF EntryStays

LEMMA CheckDeadKeeps ==
  ASSUME Typed, Locks, MapInv, LookInv, NEW w \in Workers, CheckDead(w)
  PROVE  Typed' /\ Locks' /\ MapInv' /\ LookInv'
<1>0. W[w].pc = "dead" /\ W[w].pc \in NamePcs
  BY DEF CheckDead, At, NamePcs
<1> PICK n \in Names, i \in Indices, l \in Locs : n = W[w].name /\ i = Index(n) /\ l = W[w].loc
  BY <1>0, NameWork
<1>1. /\ mem' = [mem EXCEPT ![l].type = "dead"] /\ rights' = [rights EXCEPT ![n] = DEAD]
      /\ Goto(w, "obj") /\ space' = space /\ lock' = lock /\ port' = port /\ NoSender
  BY DEF CheckDead
<1>2. /\ W[w] \in WorkerLocals /\ WorkOK(w) /\ WorkerOK(w) /\ lock.writer = w
      /\ n = <<i, Gen(n)>> /\ Gen(n) \in Gens
      /\ l = Where(i) /\ mem[l].gen = Gen(n) /\ EntryOK(i, mem[l])
  BY <1>0, NameWork
<1>3. /\ mem' \in [Locs -> Entries] /\ \A k \in Locs \ {l} : mem'[k] = mem[k]
      /\ mem'[l].type = "dead" /\ mem'[l].idx = mem[l].idx /\ mem'[l].gen = mem[l].gen
      /\ mem'[l].obj = mem[l].obj
  BY <1>1, SetType DEF Types
<1>4. /\ rights' \in [Names -> PortIds \cup {DEAD, NULL}] /\ rights'[n] = DEAD
      /\ \A m \in Names \ {n} : rights'[m] = rights[m]
  BY <1>1 DEF Typed
<1>5. /\ W' \in [Workers -> WorkerLocals] /\ \A v \in Workers \ {w} : W'[v] = W[v]
      /\ W'[w].pc = "obj" /\ W'[w].op = W[w].op /\ W'[w].name = n
      /\ W'[w].loc = l /\ W'[w].port = W[w].port
  BY <1>1, GotoMeans DEF WorkerPcs, WritePcs, NamePcs
<1>6. PortsBy(w) /\ space' \in Spaces /\ W'[w].pc \in NamePcs
  BY <1>1, <1>5, PortsSame DEF Typed, NamePcs
<1>7. NameChange(w, n) /\ WorkerMove(w)
  BY <1>0, <1>1, <1>3, <1>4, <1>5, <1>6, NameStep DEF NameChange
<1>8. mem[l].type \in {"send", "receive"} /\ mem[l].obj \in Ports /\ ~port[mem[l].obj].active
      /\ W[w].port = NULL /\ W[w].op \in {"move", "check"}
      /\ \A p \in Ports : port[p].owner # w
  BY <1>0, <1>2, KindFacts DEF WorkOK, WorkerOK, OpAt, WithPort, TablePcs
<1>9. EntryStays(w, i, l) /\ lock'.writer = w
  BY <1>0, <1>1, <1>2, <1>7, InPlace
<1>10. EntryAt(i)'
  <2> SUFFICES ASSUME NEW e, e = mem'[l] PROVE EntryOK(i, e)'
    BY <1>9 DEF EntryStays
  <2>1. \A g \in Gens : g # Gen(n) => rights'[<<i, g>>] = NULL
    BY <1>2, <1>4, NameFacts DEF EntryOK
  <2> QED
    BY <1>2, <1>3, <1>4, <1>9, <2>1, KindFacts DEF EntryOK, EntryStays
<1>11. WorkOK(w)'
  BY <1>1, <1>2, <1>3, <1>5, <1>8, <1>9 DEF WorkOK, EntryStays
<1>12. WorkerOK(w)'
  BY <1>1, <1>5, <1>8, KindFacts DEF WorkerOK, OpAt, WithPort
<1>13. FreeList'
  BY <1>1, <1>3, <1>7, <1>8, <1>9, FreeKept DEF EntryStays
<1>14. ReplyLives'
  <2>1. rights'[ReplyName] = rights[ReplyName] \/ rights'[ReplyName] # Id(ReplyPort)
    BY <1>4, NameFacts, IdFacts, PortsAssumption
  <2> QED
    BY <1>1, <1>5, <1>7, <2>1, ReplyFrame
<1> QED
  BY <1>7, <1>10, <1>11, <1>12, <1>13, <1>14, NameKeeps

LEMMA RemoveObjectKeeps ==
  ASSUME Typed, Locks, MapInv, LookInv, NEW w \in Workers, RemoveObject(w)
  PROVE  Typed' /\ Locks' /\ MapInv' /\ LookInv'
<1>0. W[w].pc = "obj" /\ W[w].pc \in NamePcs
  BY DEF RemoveObject, At, NamePcs
<1> PICK n \in Names, i \in Indices, l \in Locs : n = W[w].name /\ i = Index(n) /\ l = W[w].loc
  BY <1>0, NameWork
<1>1. /\ mem' = [mem EXCEPT ![l].obj = NULL] /\ rights' = rights
      /\ space' = space /\ port' = port /\ NoSender
      /\ \/ W[w].op = "destroy" /\ Goto(w, "free") /\ lock' = lock
         \/ W[w].op = "move"    /\ Goto(w, "bits") /\ lock' = lock
         \/ W[w].op = "check"   /\ Finish(w)       /\ WriteUnlock
  BY DEF RemoveObject
<1>2. /\ W[w] \in WorkerLocals /\ WorkOK(w) /\ WorkerOK(w) /\ lock.writer = w
      /\ n = <<i, Gen(n)>> /\ Gen(n) \in Gens
      /\ l = Where(i) /\ mem[l].gen = Gen(n) /\ EntryOK(i, mem[l])
  BY <1>0, NameWork
<1>3. /\ mem' \in [Locs -> Entries] /\ \A k \in Locs \ {l} : mem'[k] = mem[k]
      /\ mem'[l].type = mem[l].type /\ mem'[l].idx = mem[l].idx
      /\ mem'[l].gen = mem[l].gen /\ mem'[l].obj = NULL
  BY <1>1, SetObj
<1>4. /\ W' \in [Workers -> WorkerLocals] /\ \A v \in Workers \ {w} : W'[v] = W[v]
      /\ \/ /\ W[w].op = "destroy" /\ W'[w].pc = "free" /\ lock' = lock
            /\ W'[w].op = W[w].op /\ W'[w].name = n /\ W'[w].loc = l /\ W'[w].port = W[w].port
         \/ /\ W[w].op = "move" /\ W'[w].pc = "bits" /\ lock' = lock
            /\ W'[w].op = W[w].op /\ W'[w].name = n /\ W'[w].loc = l /\ W'[w].port = W[w].port
         \/ /\ W[w].op = "check" /\ W'[w].pc = "idle" /\ WriteUnlock
            /\ W'[w].op = "none" /\ W'[w].port = NULL
  <2>1. CASE W[w].op = "destroy" /\ Goto(w, "free") /\ lock' = lock
    BY <2>1, GotoMeans DEF WorkerPcs, WritePcs, NamePcs
  <2>2. CASE W[w].op = "move" /\ Goto(w, "bits") /\ lock' = lock
    BY <2>2, GotoMeans DEF WorkerPcs, WritePcs, NamePcs
  <2>3. CASE W[w].op = "check" /\ Finish(w) /\ WriteUnlock
    BY <2>3, FinishMeans
  <2> QED
    BY <1>1, <2>1, <2>2, <2>3
<1>5. PortsBy(w) /\ space' \in Spaces
  BY <1>1, PortsSame DEF Typed
<1>6. NameChange(w, n) /\ WorkerMove(w) /\ (lock'.writer = w <=> W'[w].pc \in NamePcs)
  <2>1. /\ rights' \in [Names -> PortIds \cup {DEAD, NULL}]
        /\ \A m \in Names \ {n} : rights'[m] = rights[m]
        /\ \/ lock' = lock /\ W'[w].pc \in NamePcs /\ W'[w].name = n
           \/ WriteUnlock /\ W'[w].pc \in {"idle", "port"}
    BY <1>1, <1>4 DEF Typed, NamePcs
  <2> QED
    BY <1>0, <1>1, <1>3, <1>4, <1>5, <2>1, NameStep DEF NameChange
<1>7. EntryStays(w, i, l)
  BY <1>0, <1>1, <1>6, InPlace
<1>8. /\ mem[l].type # "none" /\ mem[l].obj \in Ports
      /\ mem[l].type = "dead" => W[w].port = NULL /\ W[w].op # "destroy"
      /\ mem[l].type # "dead" =>
           /\ W[w].op # "check"
           /\ \/ W[w].port = mem[l].obj
              \/ W[w].port = NULL /\ W[w].op = "destroy" /\ ~port[mem[l].obj].active
  BY <1>0, <1>2 DEF WorkOK
<1>9. mem[l].type # "dead" => rights[n] = Id(mem[l].obj)
  <2>1. mem[l].type \in Types
    BY DEF Typed, Entries
  <2> QED
    BY <1>2, <1>8, <2>1, KindFacts DEF EntryOK, Types
<1>10. EntryAt(i)'
  <2> SUFFICES ASSUME NEW e, e = mem'[l] PROVE EntryOK(i, e)'
    BY <1>7 DEF EntryStays
  <2>1. e.type = "none" \/ e.type = "dead" \/ Busy(i)'
    BY <1>3, <1>4, <1>6, <1>7, <1>8 DEF EntryStays, NamePcs
  <2> QED
    BY <1>1, <1>2, <1>3, <1>7, <1>8, <2>1, KindFacts DEF EntryOK, EntryStays
<1>11. W'[w].pc \in NamePcs => WorkOK(w)'
  <2> SUFFICES ASSUME W'[w].pc \in NamePcs PROVE WorkOK(w)'
    OBVIOUS
  <2>0. PICK o \in Ports : o = mem[l].obj
    BY <1>8
  <2>1. /\ W'[w].pc \in {"free", "bits"} /\ W'[w].op = W[w].op /\ W'[w].name = n
        /\ W'[w].loc = l /\ W'[w].port = W[w].port
    BY <1>4 DEF NamePcs
  <2>2. /\ mem'[l].type # "none" /\ mem'[l].obj = NULL
        /\ mem'[l].type = "dead" => W[w].port = NULL
        /\ mem'[l].type # "dead" =>
             IF W[w].port = NULL
             THEN /\ W[w].op = "destroy"
                  /\ \E p \in Ports : rights'[n] = Id(p)' /\ ~port'[p].active
             ELSE W[w].port = o /\ rights'[n] = Id(o)'
    BY <1>1, <1>3, <1>7, <1>8, <1>9, <2>0, KindFacts DEF EntryStays
  <2> QED
    BY <1>2, <1>3, <1>7, <2>1, <2>2 DEF WorkOK, EntryStays, Id
<1>12. WorkerOK(w)'
  <2>1. \A p \in Ports : port[p].owner = w <=> W[w].port = p
    BY <1>0, <1>2 DEF WorkerOK, WithPort
  <2>2. \A p \in Ports : port'[p].owner = w <=> W'[w].port = p /\ W'[w].pc \in WithPort
    BY <1>1, <1>4, <1>8, <2>1, KindFacts DEF WithPort
  <2> QED
    BY <1>1, <1>2, <1>4, <2>2 DEF WorkerOK, OpAt
<1>13. FreeList'
  BY <1>1, <1>3, <1>6, <1>7, <1>8, FreeKept DEF EntryStays
<1>14. ReplyLives'
  BY <1>1, <1>4, <1>6, ReplyFrame
<1> QED
  BY <1>6, <1>10, <1>11, <1>12, <1>13, <1>14, NameKeeps

LEMMA RemoveLockKeeps ==
  ASSUME Typed, Locks, MapInv, LookInv, NEW w \in Workers, RemoveLock(w)
  PROVE  Typed' /\ Locks' /\ MapInv' /\ LookInv'
<1>0. W[w].pc = "lock" /\ W[w].pc \in NamePcs
  BY DEF RemoveLock, At, NamePcs
<1> PICK n \in Names, i \in Indices, l \in Locs : n = W[w].name /\ i = Index(n) /\ l = W[w].loc
  BY <1>0, NameWork
<1>1. /\ W[w] \in WorkerLocals /\ WorkOK(w) /\ WorkerOK(w) /\ lock.writer = w
      /\ n = <<i, Gen(n)>> /\ Gen(n) \in Gens
      /\ l = Where(i) /\ mem[l].gen = Gen(n) /\ EntryOK(i, mem[l])
  BY <1>0, NameWork
<1>2. /\ mem[l].type \in {"send", "receive"} /\ mem[l].obj = W[w].port
      /\ W[w].port \in Ports /\ W[w].op \in {"destroy", "move", "check"}
      /\ \A q \in Ports : port[q].owner # w
  BY <1>0, <1>1, KindFacts DEF WorkOK, WorkerOK, OpAt, WithPort, TablePcs
<1> PICK p \in Ports : p = W[w].port
  BY <1>2
<1>3. /\ mem' = mem /\ space' = space /\ rights' = rights /\ NoSender
      /\ port[p].owner = NULL
  BY DEF RemoveLock, Free
<1>4. /\ W' \in [Workers -> WorkerLocals] /\ \A v \in Workers \ {w} : W'[v] = W[v]
      /\ \/ /\ port[p].active /\ W[w].op = "check" /\ port' = port /\ WriteUnlock
            /\ W'[w].pc = "idle" /\ W'[w].op = "none" /\ W'[w].port = NULL
         \/ /\ port[p].active /\ W[w].op # "check" /\ port' = [port EXCEPT ![p].owner = w]
            /\ lock' = lock /\ W'[w].pc = "obj" /\ W'[w].op = W[w].op
            /\ W'[w].name = n /\ W'[w].loc = l /\ W'[w].port = p
         \/ /\ ~port[p].active /\ port' = port /\ lock' = lock
            /\ W'[w].pc = (IF W[w].op = "destroy" THEN "obj" ELSE "dead")
            /\ W'[w].op = W[w].op /\ W'[w].name = n /\ W'[w].loc = l /\ W'[w].port = NULL
  <2>1. CASE port[p].active /\ W[w].op = "check"
    <3>1. port' = port /\ WriteUnlock /\ Finish(w)
      BY <2>1 DEF RemoveLock
    <3> QED
      BY <2>1, <3>1, FinishMeans
  <2>2. CASE port[p].active /\ W[w].op # "check"
    <3>1. port' = [port EXCEPT ![p].owner = w] /\ lock' = lock /\ Goto(w, "obj")
      BY <2>2 DEF RemoveLock
    <3> QED
      BY <2>2, <3>1, GotoMeans DEF WorkerPcs, WritePcs, NamePcs
  <2>3. CASE ~port[p].active
    <3> DEFINE pc == IF W[w].op = "destroy" THEN "obj" ELSE "dead"
               r == [W[w] EXCEPT !.port = NULL, !.pc = pc]
    <3>1. W' = [W EXCEPT ![w].port = NULL, ![w].pc = pc] /\ lock' = lock /\ port' = port
      BY <2>3 DEF RemoveLock
    <3>2. pc \in WorkerPcs
      BY DEF WorkerPcs, WritePcs, NamePcs
    <3> HIDE DEF pc
    <3>3. W' = [W EXCEPT ![w] = r]
      BY <3>1 DEF Typed, WorkerLocals
    <3>4. /\ r \in WorkerLocals /\ r.pc = pc /\ r.port = NULL /\ r.op = W[w].op
          /\ r.name = n /\ r.loc = l
      BY <1>1, <3>2 DEF WorkerLocals
    <3> HIDE DEF r
    <3>5. W'[w] = r /\ W' \in [Workers -> WorkerLocals]
          /\ \A v \in Workers \ {w} : W'[v] = W[v]
      BY <3>3, <3>4 DEF Typed
    <3> QED
      BY <2>3, <3>1, <3>4, <3>5 DEF pc
  <2> QED
    BY <2>1, <2>2, <2>3
<1>5. /\ PortsBy(w) /\ \A q \in Ports : port'[q].active = port[q].active
      /\ \A q \in Ports : port'[q].owner = w <=> port' # port /\ q = p
  <2>1. CASE port' = port
    BY <1>2, <2>1, PortsSame
  <2>2. CASE port' # port
    <3>1. port' = [port EXCEPT ![p].owner = w] /\ w \in {w, NULL} /\ port[p].owner \in {w, NULL}
          /\ w \in Workers \cup Senders
      BY <1>3, <1>4, <2>2
    <3>2. /\ PortsBy(w) /\ port'[p].owner = w
          /\ \A q \in Ports \ {p} : port'[q] = port[q]
          /\ \A q \in Ports : port'[q].active = port[q].active
      BY <3>1, OwnerSet
    <3> QED
      BY <1>2, <2>2, <3>2
  <2> QED
    BY <2>1, <2>2
<1>6. NameChange(w, n) /\ WorkerMove(w) /\ (lock'.writer = w <=> W'[w].pc \in NamePcs)
  <2>1. /\ rights' \in [Names -> PortIds \cup {DEAD, NULL}] /\ space' \in Spaces
        /\ mem' \in [Locs -> Entries]
        /\ \/ lock' = lock /\ W'[w].pc \in NamePcs /\ W'[w].name = n
           \/ WriteUnlock /\ W'[w].pc \in {"idle", "port"}
    BY <1>3, <1>4 DEF Typed, NamePcs
  <2> QED
    BY <1>0, <1>3, <1>4, <1>5, <2>1, NameStep DEF NameChange
<1>7. EntryStays(w, i, l)
  BY <1>0, <1>3, <1>6, InPlace
<1>8. EntryAt(i)'
  <2> SUFFICES ASSUME NEW e, e = mem'[l] PROVE EntryOK(i, e)'
    BY <1>7 DEF EntryStays
  <2> QED
    BY <1>1, <1>2, <1>3, <1>7, KindFacts DEF EntryOK, EntryStays
<1>9. W'[w].pc \in NamePcs => WorkOK(w)'
  <2> SUFFICES ASSUME W'[w].pc \in NamePcs PROVE WorkOK(w)'
    OBVIOUS
  <2>1. Where(i)' = l
    BY <1>7 DEF EntryStays
  <2> QED
    BY <1>1, <1>2, <1>3, <1>4, <1>5, <2>1 DEF WorkOK, NamePcs
<1>10. WorkerOK(w)'
  <2>1. port' # port <=> W'[w].pc \in WithPort /\ W'[w].port = p
    <3>1. port' = [port EXCEPT ![p].owner = w] => port' # port
      BY <1>2 DEF Typed, PortStates
    <3> QED
      BY <1>4, <3>1, KindFacts DEF WithPort
  <2>2. \A q \in Ports : port'[q].owner = w => port'[q].active
    BY <1>4, <1>5
  <2>3. \A q \in Ports : port'[q].owner = w <=> W'[w].port = q /\ W'[w].pc \in WithPort
    BY <1>4, <1>5, <2>1, KindFacts
  <2> QED
    BY <1>2, <1>4, <2>2, <2>3 DEF WorkerOK, OpAt
<1>11. FreeList'
  BY <1>2, <1>3, <1>6, <1>7, FreeKept DEF EntryStays
<1>12. ReplyLives'
  BY <1>3, <1>4, <1>5, <1>6, PortsAssumption, ReplyFrame
<1> QED
  BY <1>6, <1>8, <1>9, <1>10, <1>11, <1>12, NameKeeps

LEMMA MoveBitsKeeps ==
  ASSUME Typed, Locks, MapInv, LookInv, NEW w \in Workers, MoveBits(w)
  PROVE  Typed' /\ Locks' /\ MapInv' /\ LookInv'
<1>0. W[w].pc = "bits" /\ W[w].pc \in NamePcs
  BY DEF MoveBits, At, NamePcs
<1> PICK n \in Names, i \in Indices, l \in Locs : n = W[w].name /\ i = Index(n) /\ l = W[w].loc
  BY <1>0, NameWork
<1>1. /\ mem' = [mem EXCEPT ![l].type = "none"] /\ rights' = [rights EXCEPT ![n] = NULL]
      /\ port' = (IF W[w].port = NULL THEN port ELSE [port EXCEPT ![W[w].port].owner = NULL])
      /\ Goto(w, "bump") /\ space' = space /\ lock' = lock /\ NoSender
  BY DEF MoveBits
<1>2. /\ W[w] \in WorkerLocals /\ WorkOK(w) /\ WorkerOK(w) /\ lock.writer = w
      /\ n = <<i, Gen(n)>> /\ Gen(n) \in Gens
      /\ l = Where(i) /\ mem[l].gen = Gen(n) /\ EntryOK(i, mem[l])
  BY <1>0, NameWork
<1>3. /\ mem' \in [Locs -> Entries] /\ \A k \in Locs \ {l} : mem'[k] = mem[k]
      /\ mem'[l].type = "none" /\ mem'[l].idx = mem[l].idx /\ mem'[l].gen = mem[l].gen
      /\ mem'[l].obj = mem[l].obj
  BY <1>1, SetType DEF Types
<1>4. /\ rights' \in [Names -> PortIds \cup {DEAD, NULL}] /\ rights'[n] = NULL
      /\ \A m \in Names \ {n} : rights'[m] = rights[m]
  BY <1>1 DEF Typed
<1>5. /\ W' \in [Workers -> WorkerLocals] /\ \A v \in Workers \ {w} : W'[v] = W[v]
      /\ W'[w].pc = "bump" /\ W'[w].op = W[w].op /\ W'[w].name = n
      /\ W'[w].loc = l /\ W'[w].port = W[w].port
  BY <1>1, GotoMeans DEF WorkerPcs, WritePcs, NamePcs
<1>6. /\ PortsBy(w)
      /\ \A q \in Ports : port'[q].owner # w /\ port'[q].active = port[q].active
  <2>1. \A q \in Ports : port[q].owner = w <=> W[w].port = q
    BY <1>0, <1>2 DEF WorkerOK, WithPort
  <2>2. CASE W[w].port = NULL
    BY <1>1, <2>1, <2>2, PortsSame, KindFacts
  <2>3. CASE W[w].port # NULL
    <3>1. PICK p \in Ports : p = W[w].port
      BY <1>2, <2>3 DEF WorkerLocals
    <3>2. port' = [port EXCEPT ![p].owner = NULL] /\ NULL \in {w, NULL}
          /\ port[p].owner \in {w, NULL} /\ w \in Workers \cup Senders
      BY <1>1, <2>1, <2>3, <3>1
    <3>3. /\ PortsBy(w) /\ port'[p].owner = NULL
          /\ \A q \in Ports \ {p} : port'[q] = port[q]
          /\ \A q \in Ports : port'[q].active = port[q].active
      BY <3>2, OwnerSet
    <3> QED
      BY <2>1, <3>1, <3>3, KindFacts
  <2> QED
    BY <2>2, <2>3
<1>7. NameChange(w, n) /\ WorkerMove(w) /\ lock'.writer = w
  <2>1. space' \in Spaces /\ W'[w].pc \in NamePcs
    BY <1>1, <1>5 DEF Typed, NamePcs
  <2>2. NameChange(w, n)
    BY <1>0, <1>1, <1>3, <1>4, <1>5, <1>6, <2>1, NameStep
  <2> QED
    BY <1>1, <1>2, <2>2 DEF NameChange
<1>8. mem[l].type # "none" /\ mem[l].obj = NULL /\ W[w].op = "move"
  BY <1>0, <1>2 DEF WorkOK, WorkerOK, OpAt, TablePcs
<1>9. EntryStays(w, i, l)
  BY <1>0, <1>1, <1>7, InPlace
<1>10. EntryAt(i)'
  <2> SUFFICES ASSUME NEW e, e = mem'[l] PROVE EntryOK(i, e)'
    BY <1>9 DEF EntryStays
  <2>1. \A g \in Gens : rights'[<<i, g>>] = NULL
    BY <1>2, <1>4, NameFacts DEF EntryOK
  <2> QED
    BY <1>2, <1>3, <1>4, <1>7, <1>9, <2>1, KindFacts DEF EntryOK, EntryStays
<1>11. WorkOK(w)'
  BY <1>1, <1>2, <1>3, <1>5, <1>8, <1>9 DEF WorkOK, EntryStays
<1>12. WorkerOK(w)'
  BY <1>5, <1>6, <1>8 DEF WorkerOK, OpAt, WithPort
<1>13. FreeList'
  BY <1>1, <1>3, <1>5, <1>7, <1>8, <1>9, FreeKept DEF EntryStays
<1>14. ReplyLives'
  <2>1. rights'[ReplyName] = rights[ReplyName] \/ rights'[ReplyName] # Id(ReplyPort)
    BY <1>4, NameFacts, IdFacts, PortsAssumption
  <2> QED
    BY <1>5, <1>6, <1>7, <2>1, ReplyFrame, PortsAssumption
<1> QED
  BY <1>7, <1>10, <1>11, <1>12, <1>13, <1>14, NameKeeps

LEMMA CopyoutBitsKeeps ==
  ASSUME Typed, Locks, MapInv, LookInv, NEW w \in Workers, CopyoutBits(w)
  PROVE  Typed' /\ Locks' /\ MapInv' /\ LookInv'
<1>0. W[w].pc = "c_bits" /\ W[w].pc \in NamePcs
  BY DEF CopyoutBits, At, NamePcs
<1> PICK n \in Names, i \in Indices, l \in Locs : n = W[w].name /\ i = Index(n) /\ l = W[w].loc
  BY <1>0, NameWork
<1>1. /\ W[w] \in WorkerLocals /\ WorkOK(w) /\ WorkerOK(w) /\ lock.writer = w
      /\ n = <<i, Gen(n)>> /\ Gen(n) \in Gens
      /\ l = Where(i) /\ mem[l].gen = Gen(n) /\ EntryOK(i, mem[l])
  BY <1>0, NameWork
<1>2. /\ W[w].port \in Ports /\ W[w].port # ReplyPort
      /\ mem[l].type = "none" /\ mem[l].obj = W[w].port
      /\ \A q \in Ports : port[q].owner # w
  BY <1>0, <1>1 DEF WorkOK, WorkerOK, WithPort
<1> PICK p \in Ports : p = W[w].port
  BY <1>2
<1>3. /\ mem' = [mem EXCEPT ![l].type = "send"] /\ rights' = [rights EXCEPT ![n] = Id(p)]
      /\ Finish(w) /\ WriteUnlock /\ space' = space /\ port' = port /\ NoSender
  BY DEF CopyoutBits
<1>4. /\ mem' \in [Locs -> Entries] /\ \A k \in Locs \ {l} : mem'[k] = mem[k]
      /\ mem'[l].type = "send" /\ mem'[l].idx = mem[l].idx /\ mem'[l].gen = mem[l].gen
      /\ mem'[l].obj = mem[l].obj
  BY <1>3, SetType DEF Types
<1>5. /\ rights' \in [Names -> PortIds \cup {DEAD, NULL}] /\ rights'[n] = Id(p)
      /\ \A m \in Names \ {n} : rights'[m] = rights[m]
  <2>1. Id(p) \in PortIds
    BY IdFacts
  <2> QED
    BY <1>3, <2>1 DEF Typed
<1>6. /\ W' \in [Workers -> WorkerLocals] /\ \A v \in Workers \ {w} : W'[v] = W[v]
      /\ W'[w].pc = "idle" /\ W'[w].op = "none" /\ W'[w].port = NULL
  BY <1>3, FinishMeans
<1>7. PortsBy(w) /\ space' \in Spaces /\ W'[w].pc \notin NamePcs
  BY <1>3, <1>6, PortsSame DEF Typed, NamePcs
<1>8. NameChange(w, n) /\ WorkerMove(w) /\ lock'.writer # w
  BY <1>0, <1>3, <1>4, <1>5, <1>6, <1>7, NameStep DEF NameChange
<1>9. EntryStays(w, i, l)
  BY <1>0, <1>3, <1>8, InPlace
<1>10. EntryAt(i)'
  <2> SUFFICES ASSUME NEW e, e = mem'[l] PROVE EntryOK(i, e)'
    BY <1>9 DEF EntryStays
  <2>1. \A g \in Gens : g # Gen(n) => rights'[<<i, g>>] = NULL
    BY <1>1, <1>5, NameFacts DEF EntryOK
  <2>2. rights'[n] = Id(p)' /\ Id(p) # NULL /\ Id(p) # DEAD /\ Id(p)' = Id(p)
    BY <1>5, <1>9, IdFacts DEF EntryStays
  <2> QED
    BY <1>1, <1>2, <1>4, <2>1, <2>2, KindFacts DEF EntryOK
<1>11. WorkerOK(w)'
  BY <1>2, <1>3, <1>6, KindFacts DEF WorkerOK, OpAt, WithPort
<1>12. FreeList'
  BY <1>0, <1>3, <1>4, <1>8, <1>9, FreeKept DEF EntryStays
<1>13. ReplyLives'
  <2>1. rights'[ReplyName] = rights[ReplyName] \/ rights'[ReplyName] # Id(ReplyPort)
    BY <1>2, <1>5, NameFacts, IdFacts, PortsAssumption
  <2> QED
    BY <1>3, <1>6, <1>8, <2>1, ReplyFrame
<1> QED
  BY <1>7, <1>8, <1>10, <1>11, <1>12, <1>13, NameKeeps

\* ipc_entry_dealloc of the name that w works on.
LEMMA DeallocMeans ==
  ASSUME Typed, Locks, MapInv, NEW w \in Workers, W[w].pc \in NamePcs,
         NEW n \in Names, n = W[w].name, NEW i \in Indices, i = Index(n),
         NEW l \in Locs, l = W[w].loc,
         NEW sp \in Spaces, Dealloc(l, sp), sp.is_table = space.is_table,
         sp.is_table_size = space.is_table_size, sp.is_seq = space.is_seq,
         sp.is_growing = space.is_growing, sp.is_tree = space.is_tree, sp.free = space.free
  PROVE  /\ mem' \in [Locs -> Entries] /\ \A k \in Locs \ {l} : mem'[k] = mem[k]
         /\ space' \in Spaces
         /\ space'.is_table = space.is_table /\ space'.is_table_size = space.is_table_size
         /\ space'.is_seq = space.is_seq /\ space'.is_growing = space.is_growing
         /\ space'.is_generation = sp.is_generation
         /\ \A j \in Indices : j # i => space'.is_tree[j] = space.is_tree[j]
         /\ i < Limit => /\ space'.is_tree = space.is_tree
                         /\ space'.free = <<i>> \o space.free
                         /\ mem'[l].type = "none" /\ mem'[l].idx = mem[l].idx
                         /\ mem'[l].gen = mem[l].gen /\ mem'[l].obj = mem[l].obj
         /\ ~(i < Limit) => /\ space'.is_tree[i] = NULL /\ space'.free = space.free
                            /\ mem' = mem
<1>1. /\ mem[l].idx = i
      /\ i < Limit => l \notin Ites
      /\ ~(i < Limit) => l \in Ites
  BY NameWork
<1>2. CASE i < Limit
  <2>1. /\ space' = [sp EXCEPT !.free = <<i>> \o sp.free]
        /\ mem' = [mem EXCEPT ![l].type = "none"]
    BY <1>1, <1>2 DEF Dealloc
  <2>2. <<i>> \o sp.free \in Seq(Indices)
    BY DEF Spaces
  <2> DEFINE f == <<i>> \o sp.free
  <2>3. space' = [sp EXCEPT !.free = f] /\ f \in Seq(Indices) /\ f = <<i>> \o space.free
    BY <2>1, <2>2
  <2> HIDE DEF f
  <2>4. /\ space' \in Spaces /\ space'.free = f
        /\ space'.is_table = sp.is_table /\ space'.is_table_size = sp.is_table_size
        /\ space'.is_seq = sp.is_seq /\ space'.is_growing = sp.is_growing
        /\ space'.is_generation = sp.is_generation /\ space'.is_tree = sp.is_tree
    BY <2>3 DEF Spaces
  <2>5. /\ mem' \in [Locs -> Entries] /\ \A k \in Locs \ {l} : mem'[k] = mem[k]
        /\ mem'[l].type = "none" /\ mem'[l].idx = mem[l].idx /\ mem'[l].gen = mem[l].gen
        /\ mem'[l].obj = mem[l].obj
    BY <2>1, SetType DEF Types
  <2> QED
    BY <1>2, <2>3, <2>4, <2>5
<1>3. CASE ~(i < Limit)
  <2> DEFINE tree == [sp.is_tree EXCEPT ![i] = NULL]
  <2>1. space' = [sp EXCEPT !.is_tree = tree] /\ mem' = mem
    BY <1>1, <1>3 DEF Dealloc, Spaces
  <2>2. /\ tree \in [Indices -> Ites \cup {NULL}] /\ tree[i] = NULL
        /\ \A j \in Indices : j # i => tree[j] = space.is_tree[j]
    BY DEF Spaces
  <2> HIDE DEF tree
  <2>3. /\ space' \in Spaces /\ space'.is_tree = tree
        /\ space'.is_table = sp.is_table /\ space'.is_table_size = sp.is_table_size
        /\ space'.is_seq = sp.is_seq /\ space'.is_growing = sp.is_growing
        /\ space'.is_generation = sp.is_generation /\ space'.free = sp.free
    BY <2>1, <2>2 DEF Spaces
  <2>4. mem' \in [Locs -> Entries]
    BY <2>1 DEF Typed
  <2> QED
    BY <1>3, <2>1, <2>2, <2>3, <2>4
<1> QED
  BY <1>2, <1>3

\* A name that is given back with its right gone.
LEMMA DeallocKeeps ==
  ASSUME Typed, Locks, MapInv, LookInv, NEW w \in Workers, W[w].pc \in NamePcs, NoSender,
         NEW sp \in Spaces, Dealloc(W[w].loc, sp), sp.is_table = space.is_table,
         sp.is_table_size = space.is_table_size, sp.is_seq = space.is_seq,
         sp.is_growing = space.is_growing, sp.is_tree = space.is_tree, sp.free = space.free,
         WriteUnlock, rights' \in [Names -> PortIds \cup {DEAD, NULL}],
         \A m \in Names \ {W[w].name} : rights'[m] = rights[m], rights'[W[w].name] = NULL,
         mem[W[w].loc].obj = NULL,
         mem[W[w].loc].type = "none" => W[w].pc \in {"c_obj", "c_bits", "bump"},
         W' \in [Workers -> WorkerLocals], \A v \in Workers \ {w} : W'[v] = W[v],
         W'[w].pc \in {"idle", "port"}, PortsBy(w), port' = port,
         W'[w].pc = "port" /\ W'[w].port = ReplyPort => rights'[ReplyName] # Id(ReplyPort),
         WorkerOK(w)'
  PROVE  Typed' /\ Locks' /\ MapInv' /\ LookInv'
<1> PICK n \in Names, i \in Indices, l \in Locs : n = W[w].name /\ i = Index(n) /\ l = W[w].loc
  BY NameWork
<1>1. /\ n = <<i, Gen(n)>> /\ Gen(n) \in Gens /\ EntryAt(i)
      /\ l = Where(i) /\ mem[l].gen = Gen(n) /\ EntryOK(i, mem[l])
  BY NameWork DEF MapInv, EntryInv
<1>2. /\ mem' \in [Locs -> Entries] /\ \A k \in Locs \ {l} : mem'[k] = mem[k]
      /\ space' \in Spaces
      /\ space'.is_table = space.is_table /\ space'.is_table_size = space.is_table_size
      /\ space'.is_seq = space.is_seq /\ space'.is_growing = space.is_growing
      /\ \A j \in Indices : j # i => space'.is_tree[j] = space.is_tree[j]
      /\ i < Limit => /\ space'.is_tree = space.is_tree
                      /\ space'.free = <<i>> \o space.free
                      /\ mem'[l].type = "none" /\ mem'[l].idx = mem[l].idx
                      /\ mem'[l].gen = mem[l].gen /\ mem'[l].obj = mem[l].obj
      /\ ~(i < Limit) => /\ space'.is_tree[i] = NULL /\ space'.free = space.free
  BY DeallocMeans
<1>3. NameChange(w, n) /\ WorkerMove(w) /\ lock'.writer # w
  <2>1. NameChange(w, n) /\ (lock'.writer = w <=> W'[w].pc \in NamePcs)
    BY <1>2, NameStep
  <2> QED
    BY <2>1 DEF NameChange, NamePcs
<1>4. /\ Home' = Home /\ Limit' = Limit /\ ~Busy(i)'
  BY <1>3, NameFrame
<1>5. \A g \in Gens : rights'[<<i, g>>] = NULL
  BY <1>1, NameFacts DEF EntryOK
<1>6. CASE i < Limit
  <2>1. EntryStays(w, i, l)
    BY <1>2, <1>3, <1>6, InPlace
  <2>2. EntryAt(i)'
    <3> SUFFICES ASSUME NEW e, e = mem'[l] PROVE EntryOK(i, e)'
      BY <2>1 DEF EntryStays
    <3> QED
      BY <1>1, <1>2, <1>4, <1>5, <1>6, KindFacts DEF EntryOK
  <2>3. i \in FreeSlots' /\ i \notin FreeSlots
    BY <1>2, <1>3, <1>6, <2>1 DEF EntryStays
  <2>4. FreeList'
    BY <1>2, <1>3, <1>6, <2>3, FreePut
  <2> QED
    BY <2>2, <2>4, <1>3, ReplyFrame, NameKeeps, NameFacts, IdFacts, PortsAssumption DEF NamePcs
<1>7. CASE ~(i < Limit)
  <2>1. Where(i)' = NULL
    BY <1>2, <1>4, <1>7 DEF Where
  <2>2. EntryAt(i)'
    BY <1>4, <1>5, <1>7, <2>1 DEF EntryAt
  <2>3. i \notin FreeSlots' /\ i \notin FreeSlots
    BY <1>4, <1>7 DEF FreeSlots
  <2>4. FreeList'
    BY <1>2, <1>3, <1>7, <2>3, FreeKept
  <2> QED
    BY <2>2, <2>4, <1>3, ReplyFrame, NameKeeps, NameFacts, IdFacts, PortsAssumption DEF NamePcs
<1> QED
  BY <1>6, <1>7

LEMMA DestroyFreeKeeps ==
  ASSUME Typed, Locks, MapInv, LookInv, NEW w \in Workers, DestroyFree(w)
  PROVE  Typed' /\ Locks' /\ MapInv' /\ LookInv'
<1>0. W[w].pc = "free" /\ W[w].pc \in NamePcs
  BY DEF DestroyFree, At, NamePcs
<1> PICK n \in Names, i \in Indices, l \in Locs : n = W[w].name /\ i = Index(n) /\ l = W[w].loc
  BY <1>0, NameWork
<1>1. /\ Dealloc(l, space) /\ rights' = [rights EXCEPT ![n] = NULL] /\ WriteUnlock
      /\ IF W[w].port = NULL THEN Finish(w) ELSE Goto(w, "port")
      /\ port' = port /\ NoSender
  BY DEF DestroyFree
<1>2. /\ W[w] \in WorkerLocals /\ WorkOK(w) /\ WorkerOK(w)
      /\ n = <<i, Gen(n)>> /\ mem[l].gen = Gen(n) /\ EntryOK(i, mem[l])
  BY <1>0, NameWork
<1>3. /\ mem[l].type # "none" /\ mem[l].obj = NULL /\ W[w].op = "destroy"
      /\ W[w].port # NULL => W[w].port \in Ports /\ rights[n] = Id(W[w].port)
  <2>1. W[w].port # NULL => mem[l].type # "dead"
    BY <1>0, <1>2 DEF WorkOK
  <2> QED
    BY <1>0, <1>2, <2>1 DEF WorkOK, WorkerOK, OpAt, TablePcs, WorkerLocals
<1>4. /\ rights' \in [Names -> PortIds \cup {DEAD, NULL}] /\ rights'[n] = NULL
      /\ \A m \in Names \ {n} : rights'[m] = rights[m]
  BY <1>1 DEF Typed
<1>5. /\ W' \in [Workers -> WorkerLocals] /\ \A v \in Workers \ {w} : W'[v] = W[v]
      /\ \/ W[w].port = NULL /\ W'[w].pc = "idle" /\ W'[w].op = "none" /\ W'[w].port = NULL
         \/ /\ W[w].port # NULL /\ W'[w].pc = "port" /\ W'[w].op = W[w].op
            /\ W'[w].port = W[w].port
  <2>1. CASE W[w].port = NULL
    BY <1>1, <2>1, FinishMeans
  <2>2. CASE W[w].port # NULL
    BY <1>1, <2>2, GotoMeans DEF WorkerPcs
  <2> QED
    BY <2>1, <2>2
<1>6. PortsBy(w) /\ space \in Spaces
  BY <1>1, PortsSame DEF Typed
<1>7. W'[w].pc = "port" /\ W'[w].port = ReplyPort => rights'[ReplyName] # Id(ReplyPort)
  <2> SUFFICES ASSUME W'[w].pc = "port", W'[w].port = ReplyPort
               PROVE  rights'[ReplyName] # Id(ReplyPort)
    OBVIOUS
  <2>1. W[w].port = ReplyPort /\ rights[n] = Id(ReplyPort) /\ ReplyPort \in Ports
    BY <1>3, <1>5, PortsAssumption
  <2>2. mem[l].type \in {"send", "receive"}
    <3>1. mem[l].type \in {"none", "send", "receive", "dead"}
      BY DEF Typed, Entries, Types
    <3>2. mem[l].type # "dead"
      BY <1>2, <2>1, IdFacts DEF EntryOK
    <3> QED
      BY <1>3, <3>1, <3>2
  <2>3. n = ReplyName
    BY <1>2, <2>1, <2>2, IdFacts DEF EntryOK
  <2> QED
    BY <1>4, <2>1, <2>3, IdFacts
<1>8. WorkerOK(w)'
  <2>1. /\ \A p \in Ports : port[p].owner = w <=> W[w].port = p
        /\ \A p \in Ports : port[p].owner = w => port[p].active
    BY <1>0, <1>2 DEF WorkerOK, WithPort
  <2> QED
    BY <1>1, <1>3, <1>5, <2>1, KindFacts DEF WorkerOK, OpAt, WithPort
<1> QED
  BY <1>0, <1>1, <1>3, <1>4, <1>5, <1>6, <1>7, <1>8, DeallocKeeps

LEMMA MoveBumpKeeps ==
  ASSUME Typed, Locks, MapInv, LookInv, NEW w \in Workers, MoveBump(w)
  PROVE  Typed' /\ Locks' /\ MapInv' /\ LookInv'
<1>0. W[w].pc = "bump" /\ W[w].pc \in NamePcs
  BY DEF MoveBump, At, NamePcs
<1> PICK n \in Names, i \in Indices, l \in Locs : n = W[w].name /\ i = Index(n) /\ l = W[w].loc
  BY <1>0, NameWork
<1> DEFINE sp == [space EXCEPT !.is_generation = @ + 1]
<1>1. /\ Dealloc(l, sp) /\ WriteUnlock /\ Finish(w)
      /\ port' = port /\ rights' = rights /\ NoSender
  BY DEF MoveBump
<1>2. /\ sp \in Spaces /\ sp.is_table = space.is_table
      /\ sp.is_table_size = space.is_table_size /\ sp.is_seq = space.is_seq
      /\ sp.is_growing = space.is_growing /\ sp.is_tree = space.is_tree
      /\ sp.free = space.free
  BY DEF Typed, Spaces
<1> HIDE DEF sp
<1>3. /\ WorkOK(w) /\ WorkerOK(w)
      /\ n = <<i, Gen(n)>> /\ mem[l].gen = Gen(n) /\ EntryOK(i, mem[l])
  BY <1>0, NameWork
<1>4. /\ mem[l].type = "none" /\ mem[l].obj = NULL
      /\ \A p \in Ports : port[p].owner # w
  BY <1>0, <1>3 DEF WorkOK, WorkerOK, WithPort
<1>5. /\ rights' \in [Names -> PortIds \cup {DEAD, NULL}] /\ rights'[n] = NULL
      /\ \A m \in Names \ {n} : rights'[m] = rights[m]
  BY <1>1, <1>3, <1>4 DEF Typed, EntryOK
<1>6. /\ W' \in [Workers -> WorkerLocals] /\ \A v \in Workers \ {w} : W'[v] = W[v]
      /\ W'[w].pc = "idle" /\ W'[w].op = "none" /\ W'[w].port = NULL
  BY <1>1, FinishMeans
<1>7. PortsBy(w)
  BY <1>1, PortsSame
<1>8. WorkerOK(w)'
  BY <1>1, <1>4, <1>6, KindFacts DEF WorkerOK, OpAt, WithPort
<1> QED
  BY <1>0, <1>1, <1>2, <1>4, <1>5, <1>6, <1>7, <1>8, DeallocKeeps

LEMMA CopyoutObjectKeeps ==
  ASSUME Typed, Locks, MapInv, LookInv, NEW w \in Workers, CopyoutObject(w)
  PROVE  Typed' /\ Locks' /\ MapInv' /\ LookInv'
<1>0. W[w].pc = "c_obj" /\ W[w].pc \in NamePcs
  BY DEF CopyoutObject, At, NamePcs
<1> PICK n \in Names, i \in Indices, l \in Locs : n = W[w].name /\ i = Index(n) /\ l = W[w].loc
  BY <1>0, NameWork
<1>1. /\ W[w] \in WorkerLocals /\ WorkOK(w) /\ WorkerOK(w) /\ lock.writer = w
      /\ n = <<i, Gen(n)>> /\ Gen(n) \in Gens
      /\ l = Where(i) /\ mem[l].gen = Gen(n) /\ EntryOK(i, mem[l])
  BY <1>0, NameWork
<1>2. /\ W[w].port \in Ports /\ W[w].port # ReplyPort /\ W[w].op = "copyout"
      /\ mem[l].type = "none" /\ mem[l].obj = NULL
      /\ \A q \in Ports : port[q].owner # w
  BY <1>0, <1>1 DEF WorkOK, WorkerOK, WithPort, OpAt, TablePcs
<1> PICK p \in Ports : p = W[w].port
  BY <1>2
<1>3. rights' = rights /\ port' = port /\ NoSender
  BY DEF CopyoutObject
<1>4. /\ PortsBy(w) /\ space \in Spaces
      /\ rights' \in [Names -> PortIds \cup {DEAD, NULL}] /\ rights'[n] = NULL
      /\ \A m \in Names \ {n} : rights'[m] = rights[m]
  BY <1>1, <1>2, <1>3, PortsSame DEF Typed, EntryOK
<1>5. CASE port[p].active
  <2>1. /\ mem' = [mem EXCEPT ![l].obj = p] /\ Goto(w, "c_bits")
        /\ space' = space /\ lock' = lock
    BY <1>5 DEF CopyoutObject
  <2>2. /\ mem' \in [Locs -> Entries] /\ \A k \in Locs \ {l} : mem'[k] = mem[k]
        /\ mem'[l].type = mem[l].type /\ mem'[l].idx = mem[l].idx
        /\ mem'[l].gen = mem[l].gen /\ mem'[l].obj = p
    BY <2>1, SetObj
  <2>3. /\ W' \in [Workers -> WorkerLocals] /\ \A v \in Workers \ {w} : W'[v] = W[v]
        /\ W'[w].pc = "c_bits" /\ W'[w].op = W[w].op /\ W'[w].name = n
        /\ W'[w].loc = l /\ W'[w].port = W[w].port
    BY <2>1, GotoMeans DEF WorkerPcs, WritePcs, NamePcs
  <2>4. W'[w].pc \in NamePcs /\ space' \in Spaces
    BY <1>4, <2>1, <2>3 DEF NamePcs
  <2>5. NameChange(w, n) /\ WorkerMove(w)
    BY <1>0, <1>3, <1>4, <2>1, <2>2, <2>3, <2>4, NameStep DEF NameChange
  <2>6. EntryStays(w, i, l) /\ lock'.writer = w
    BY <1>0, <1>1, <2>1, <2>5, InPlace
  <2>7. EntryAt(i)'
    <3> SUFFICES ASSUME NEW e, e = mem'[l] PROVE EntryOK(i, e)'
      BY <2>6 DEF EntryStays
    <3> QED
      BY <1>1, <1>2, <1>3, <2>2, <2>6, KindFacts DEF EntryOK, EntryStays
  <2>8. WorkOK(w)'
    BY <1>1, <1>2, <2>2, <2>3, <2>6 DEF WorkOK, EntryStays
  <2>9. WorkerOK(w)'
    BY <1>2, <1>3, <2>3 DEF WorkerOK, OpAt, WithPort
  <2>10. FreeList'
    BY <1>0, <2>1, <2>2, <2>3, <2>5, <2>6, FreeKept DEF EntryStays
  <2>11. ReplyLives'
    BY <1>3, <2>3, <2>5, ReplyFrame
  <2> QED
    BY <2>5, <2>7, <2>8, <2>9, <2>10, <2>11, NameKeeps
<1>6. CASE ~port[p].active
  <2>1. Dealloc(l, space) /\ WriteUnlock /\ Finish(w)
    BY <1>6 DEF CopyoutObject
  <2>2. /\ W' \in [Workers -> WorkerLocals] /\ \A v \in Workers \ {w} : W'[v] = W[v]
        /\ W'[w].pc = "idle" /\ W'[w].op = "none" /\ W'[w].port = NULL
    BY <2>1, FinishMeans
  <2>3. WorkerOK(w)'
    BY <1>2, <1>3, <2>2, KindFacts DEF WorkerOK, OpAt, WithPort
  <2> QED
    BY <1>0, <1>2, <1>3, <1>4, <2>1, <2>2, <2>3, DeallocKeeps
<1> QED
  BY <1>5, <1>6

\* A worker that takes the write lock for the name n.
LEMMA NameStart ==
  ASSUME Typed, Locks, MapInv, NEW w \in Workers, WriteLock(w), NoSender,
         W[w].pc = "idle", NEW n \in Names,
         mem' \in [Locs -> Entries],
         \A i \in Indices : i # Index(n) /\ Where(i) # NULL => mem'[Where(i)] = mem[Where(i)],
         rights' = rights, port' = port, space' \in Spaces,
         space'.is_table = space.is_table, space'.is_table_size = space.is_table_size,
         space'.is_seq = space.is_seq, space'.is_growing = space.is_growing,
         \A i \in Indices : i # Index(n) => space'.is_tree[i] = space.is_tree[i],
         W' \in [Workers -> WorkerLocals], \A v \in Workers \ {w} : W'[v] = W[v],
         W'[w].pc \in NamePcs, W'[w].name = n
  PROVE  NameChange(w, n) /\ WorkerMove(w) /\ lock'.writer = w
<1>1. lock.writer = NULL /\ lock.readers = {} /\ lock' = [lock EXCEPT !.writer = w]
  BY DEF WriteLock
<1>2. /\ lock' \in [writer : Workers \cup {NULL}, readers : SUBSET Senders]
      /\ lock'.readers = lock.readers /\ lock'.writer = w
  BY <1>1 DEF Typed
<1>3. W'[w].pc \in WritePcs /\ W'[w].pc \notin {"g_alloc", "g_free"}
  BY DEF NamePcs, WritePcs
<1>4. space.is_seq \in Nat /\ space.is_table \in Nat
  BY Sizes DEF Typed, Spaces
<1>5. PortsBy(w) /\ rights' \in [Names -> PortIds \cup {DEAD, NULL}]
  BY PortsSame DEF Typed
<1>6. WorkerMove(w)
  BY <1>1, <1>2, <1>3, <1>4, <1>5 DEF WorkerMove, NoSender
<1> QED
  BY <1>1, <1>2, <1>3, <1>6, KindFacts DEF NameChange

\* A lookup under the write lock.
LEMMA WriteMeans ==
  ASSUME Typed, Locks, MapInv, lock.writer = NULL, NEW n \in Names,
         NEW l, l = ipc_entry_lookup(n), l # NULL
  PROVE  /\ l \in Locs /\ l = Where(Index(n)) /\ EntryOK(Index(n), mem[l])
         /\ mem[l].gen = Gen(n) /\ mem[l].type # "none"
         /\ mem[l].type = "dead" => mem[l].obj = NULL
         /\ mem[l].type # "dead" => mem[l].type \in {"send", "receive"} /\ mem[l].obj \in Ports
<1> DEFINE i == Index(n)
<1>1. i \in Indices /\ n = <<i, Gen(n)>>
  BY NameFacts
<1>2. Phase \notin TablePcs /\ ~Busy(i)
  BY NoWriter
<1>3. l = Where(i) /\ Matches(n, l)
  BY <1>2, Steady DEF ipc_entry_lookup, MapInv
<1>4. EntryOK(i, mem[l]) /\ mem[l].gen = Gen(n)
  BY <1>1, <1>3 DEF EntryInv, EntryAt, Matches, MapInv
<1>5. l \in Locs
  BY <1>1, <1>3, WhereFacts DEF MapInv
<1>6. mem[l].type # "none"
  <2>1. CASE i < Limit
    <3>1. l \notin Ites
      BY <1>1, <1>2, <1>3, <2>1, WhereFacts, LocFacts DEF MapInv
    <3> QED
      BY <1>3, <3>1 DEF Matches, Type
  <2>2. CASE ~(i < Limit)
    BY <1>2, <1>4, <2>2 DEF EntryOK
  <2> QED
    BY <2>1, <2>2
<1>7. mem[l].type \in {"none", "send", "receive", "dead"} /\ mem[l].obj \in Ports \cup {NULL}
  BY <1>5 DEF Typed, Entries, Types
<1> QED
  BY <1>2, <1>3, <1>4, <1>5, <1>6, <1>7 DEF EntryOK

LEMMA RemoveLookupKeeps ==
  ASSUME Typed, Locks, MapInv, LookInv, NEW w \in Workers, NEW n \in Names,
         NEW op \in {"destroy", "move", "check"}, RemoveLookup(w, n, op)
  PROVE  Typed' /\ Locks' /\ MapInv' /\ LookInv'
<1> PICK l : l = ipc_entry_lookup(n)
  OBVIOUS
<1> PICK i \in Indices : i = Index(n)
  BY NameFacts
<1> DEFINE pc == IF Type(l) = "dead" THEN "free" ELSE "lock"
           g == IF op = "destroy" THEN space.is_generation + 1 ELSE space.is_generation
<1>1. /\ WriteLock(w) /\ NoSender /\ mem' = mem /\ port' = port /\ rights' = rights
      /\ l # NULL /\ (op # "destroy" => mem[l].type # "dead")
      /\ Begin(w, pc, op, n, l, mem[l].obj)
      /\ space' = [space EXCEPT !.is_generation = g]
  BY DEF RemoveLookup, Type
<1>2. lock.writer = NULL
  BY <1>1 DEF WriteLock
<1>3. /\ l \in Locs /\ l = Where(i) /\ EntryOK(i, mem[l]) /\ mem[l].gen = Gen(n)
      /\ mem[l].type # "none"
      /\ mem[l].type = "dead" => mem[l].obj = NULL
      /\ mem[l].type # "dead" => mem[l].type \in {"send", "receive"} /\ mem[l].obj \in Ports
  BY <1>1, <1>2, WriteMeans
<1>4. pc \in {"free", "lock"} /\ (pc = "free" <=> mem[l].type = "dead") /\ g \in Nat
  BY DEF Type, Typed, Spaces
<1> HIDE DEF pc, g
<1>5. /\ W[w].pc = "idle" /\ W' \in [Workers -> WorkerLocals]
      /\ \A v \in Workers \ {w} : W'[v] = W[v]
      /\ W'[w].pc = pc /\ W'[w].op = op /\ W'[w].name = n
      /\ W'[w].loc = l /\ W'[w].port = mem[l].obj
  <2>1. pc \in WorkerPcs /\ mem[l].obj \in Ports \cup {NULL}
    BY <1>3, <1>4 DEF WorkerPcs, WritePcs, NamePcs
  <2> QED
    BY <1>1, <1>3, <2>1, BeginMeans
<1>6. /\ space' \in Spaces /\ space'.is_table = space.is_table
      /\ space'.is_table_size = space.is_table_size
      /\ space'.is_seq = space.is_seq /\ space'.is_growing = space.is_growing
      /\ space'.is_tree = space.is_tree /\ space'.free = space.free
  BY <1>1, <1>4 DEF Typed, Spaces
<1>7. NameChange(w, n) /\ WorkerMove(w) /\ lock'.writer = w
  <2>1. W'[w].pc \in NamePcs /\ mem' \in [Locs -> Entries]
    BY <1>1, <1>4, <1>5 DEF NamePcs, Typed
  <2> QED
    BY <1>1, <1>5, <1>6, <2>1, NameStart
<1>8. /\ Home' = Home /\ Limit' = Limit /\ Busy(i)'
      /\ \A p \in Ports : Id(p)' = Id(p)
  BY <1>7, NameFrame
<1>9. Where(i)' = l /\ l # NULL
  BY <1>1, <1>3, <1>6, <1>8 DEF Where
<1>10. EntryAt(i)'
  <2>1. \A e : EntryOK(i, e) => EntryOK(i, e)'
    BY <1>1, <1>8 DEF EntryOK
  <2>2. EntryAt(i)
    BY DEF MapInv, EntryInv
  <2> QED
    BY <1>1, <1>3, <1>6, <1>8, <1>9, <2>1, <2>2 DEF EntryAt
<1>11. WorkOK(w)'
  BY <1>1, <1>3, <1>4, <1>5, <1>9 DEF WorkOK
<1>12. WorkerOK(w)'
  <2>1. \A p \in Ports : port[p].owner # w
    BY <1>5 DEF Locks, WorkerPorts, WorkerOK, WithPort
  <2> QED
    BY <1>1, <1>3, <1>4, <1>5, <2>1, KindFacts DEF WorkerOK, OpAt, WithPort
<1>13. FreeList'
  <2>1. i < Limit => mem[<<Home, i>>].type # "none"
    BY <1>3, WhereFacts DEF MapInv
  <2>2. i \notin FreeSlots /\ i \notin FreeSlots'
    BY <1>1, <1>8, <2>1 DEF FreeSlots
  <2> QED
    BY <1>6, <1>7, <2>2, FreeKept
<1>14. ReplyLives'
  BY <1>1, <1>4, <1>5, <1>7, ReplyFrame
<1> QED
  BY <1>7, <1>10, <1>11, <1>12, <1>13, <1>14, NameKeeps

\* An unused name gets an entry: a slot off the free list or a new tree entry.
LEMMA CopyoutStart ==
  ASSUME Typed, Locks, MapInv, LookInv, NEW w \in Workers, NEW p \in Ports \ {ReplyPort},
         NEW n \in Names, NEW i \in Indices, i = Index(n), NEW l \in Locs,
         WriteLock(w), NoSender, Begin(w, "c_obj", "copyout", n, l, p),
         rights' = rights, port' = port, \A g \in Gens : rights[<<i, g>>] = NULL,
         mem' \in [Locs -> Entries],
         \A j \in Indices : j # i /\ Where(j) # NULL => mem'[Where(j)] = mem[Where(j)],
         mem'[l].idx = i, mem'[l].gen = Gen(n), mem'[l].type = "none", mem'[l].obj = NULL,
         space' \in Spaces,
         space'.is_table = space.is_table, space'.is_table_size = space.is_table_size,
         space'.is_seq = space.is_seq, space'.is_growing = space.is_growing,
         \A j \in Indices : j # i => space'.is_tree[j] = space.is_tree[j],
         \/ /\ i < Limit /\ l = <<Home, i>> /\ space'.is_tree[i] = space.is_tree[i]
            /\ \E k \in DOMAIN space.free : /\ space.free[k] = i
                                            /\ space'.free = RemoveAt(space.free, k)
         \/ ~(i < Limit) /\ space'.is_tree[i] = l /\ space'.free = space.free
  PROVE  Typed' /\ Locks' /\ MapInv' /\ LookInv'
<1>1. /\ W[w].pc = "idle" /\ W' \in [Workers -> WorkerLocals]
      /\ \A v \in Workers \ {w} : W'[v] = W[v]
      /\ W'[w].pc = "c_obj" /\ W'[w].op = "copyout" /\ W'[w].name = n
      /\ W'[w].loc = l /\ W'[w].port = p
  <2>1. "c_obj" \in WorkerPcs /\ "copyout" \in {"destroy", "move", "check", "copyout", "grow"}
        /\ n \in Names \cup {NULL} /\ l \in Locs \cup {NULL} /\ p \in Ports \cup {NULL}
    BY DEF WorkerPcs, WritePcs, NamePcs
  <2> QED
    BY <2>1, BeginMeans
<1>2. W'[w].pc \in NamePcs
  BY <1>1 DEF NamePcs
<1>3. NameChange(w, n) /\ WorkerMove(w) /\ lock'.writer = w
  BY <1>1, <1>2, NameStart
<1>4. /\ Home' = Home /\ Limit' = Limit /\ Busy(i)'
      /\ \A q \in Ports : Id(q)' = Id(q)
  BY <1>3, NameFrame
<1>5. Where(i)' = l /\ l # NULL
  BY <1>4, LocFacts DEF Where
<1>6. EntryAt(i)'
  <2>1. \A e : e = mem'[l] => EntryOK(i, e)'
    BY <1>4, NameFacts, KindFacts DEF EntryOK
  <2>2. i < Limit => space'.is_tree[i] = NULL
    BY DEF MapInv, EntryInv, EntryAt
  <2> QED
    BY <1>4, <1>5, <2>1, <2>2 DEF EntryAt
<1>7. WorkOK(w)'
  BY <1>1, <1>5 DEF WorkOK
<1>8. WorkerOK(w)'
  <2>1. \A q \in Ports : port[q].owner # w
    BY <1>1 DEF Locks, WorkerPorts, WorkerOK, WithPort
  <2> QED
    BY <1>1, <2>1 DEF WorkerOK, OpAt, WithPort
<1>9. i \notin FreeSlots'
  <2>1. Phase' = "c_obj"
    BY <1>1, <1>3, KindFacts DEF Phase
  <2> QED
    BY <1>4, <2>1 DEF FreeSlots
<1>10. FreeList'
  <2>1. CASE i < Limit
    BY <1>3, <1>9, <2>1, FreeTake
  <2>2. CASE ~(i < Limit)
    <3>1. i \notin FreeSlots
      BY <2>2 DEF FreeSlots
    <3> QED
      BY <1>3, <1>9, <2>2, <3>1, FreeKept
  <2> QED
    BY <2>1, <2>2
<1>11. ReplyLives'
  BY <1>1, <1>3, ReplyFrame
<1> QED
  BY <1>3, <1>6, <1>7, <1>8, <1>10, <1>11, NameKeeps

\* A slot of the free list is unused.
LEMMA FreeMeans ==
  ASSUME Typed, Locks, MapInv, lock.writer = NULL, NEW i \in FreeSlots
  PROVE  /\ i \in Indices /\ i < Limit /\ Where(i) = <<Home, i>> /\ Where(i) \in Locs
         /\ mem[Where(i)].idx = i /\ mem[Where(i)].type = "none" /\ mem[Where(i)].obj = NULL
         /\ \A g \in Gens : rights[<<i, g>>] = NULL
<1>1. i \in Indices /\ i < Limit /\ mem[<<Home, i>>].type = "none"
  BY DEF FreeSlots
<1>2. Where(i) = <<Home, i>> /\ Where(i) \in Locs /\ Where(i) # NULL
  BY <1>1, WhereFacts, LocFacts DEF MapInv
<1>3. EntryOK(i, mem[Where(i)]) /\ ~Busy(i)
  BY <1>1, <1>2, NoWriter DEF MapInv, EntryInv, EntryAt
<1> QED
  BY <1>1, <1>2, <1>3 DEF EntryOK

\* The head of a list is its first element.
LEMMA TailRemoves ==
  ASSUME NEW T, NEW s \in Seq(T), s # <<>>
  PROVE  1 \in DOMAIN s /\ Head(s) = s[1] /\ Tail(s) = RemoveAt(s, 1)
<1>1. Len(s) \in Nat /\ Len(s) >= 1 /\ DOMAIN s = 1 .. Len(s)
  BY EmptySeq
<1>2. Head(s) = s[1] /\ 1 \in DOMAIN s
  BY <1>1
<1> DEFINE a == SubSeq(s, 1, 0)
           b == SubSeq(s, 2, Len(s))
<1>3. a = <<>>
  BY <1>1
<1>4. b = Tail(s)
  BY <1>1
<1>5. b \in Seq(T)
  BY <1>1
<1>6. a \o b = b
  <2> HIDE DEF a, b
  <2>1. <<>> \o b = b
    BY <1>5, ConcatEmptySeq, Zenon
  <2> QED
    BY <1>3, <2>1
<1>7. RemoveAt(s, 1) = SubSeq(s, 1, 1 - 1) \o SubSeq(s, 1 + 1, Len(s))
  BY DEF RemoveAt
<1> QED
  BY <1>1, <1>2, <1>4, <1>6, <1>7

LEMMA CopyoutGetKeeps ==
  ASSUME Typed, Locks, MapInv, LookInv, NEW w \in Workers, NEW p \in Ports \ {ReplyPort},
         CopyoutGet(w, p)
  PROVE  Typed' /\ Locks' /\ MapInv' /\ LookInv'
<1>1. lock.writer = NULL /\ WriteLock(w) /\ NoSender /\ space.free # <<>>
      /\ rights' = rights /\ port' = port
  BY DEF CopyoutGet, WriteLock
<1>2. space.free \in Seq(Indices)
  BY DEF Typed, Spaces
<1>3. /\ 1 \in DOMAIN space.free /\ Head(space.free) = space.free[1]
      /\ Tail(space.free) = RemoveAt(space.free, 1)
  BY <1>1, <1>2, TailRemoves
<1> PICK i : i = Head(space.free)
  OBVIOUS
<1>4. i \in FreeSlots
  BY <1>3 DEF MapInv, FreeList
<1>5. /\ i \in Indices /\ i < Limit /\ Where(i) = <<Home, i>> /\ Where(i) \in Locs
      /\ mem[Where(i)].idx = i /\ mem[Where(i)].type = "none" /\ mem[Where(i)].obj = NULL
      /\ \A g \in Gens : rights[<<i, g>>] = NULL
  BY <1>1, <1>4, FreeMeans
<1>6. Home = space.is_table
  BY <1>1, NoWriter, Steady DEF MapInv
<1> PICK l \in Locs : l = <<space.is_table, i>>
  BY <1>5, <1>6
<1>7. (mem[l].gen + 1) % GENS \in Gens
  <2>1. mem[l].gen \in Nat /\ GENS \in Nat /\ GENS > 1
    BY GensAssumption DEF Typed, Entries, Gens
  <2> QED
    BY <2>1 DEF Gens
<1>g. PICK g \in Gens : g = (mem[l].gen + 1) % GENS
  BY <1>7
<1> PICK n \in Names : n = <<i, g>>
  BY <1>5, NameFacts
<1>8. /\ mem' = [mem EXCEPT ![l].gen = g] /\ Begin(w, "c_obj", "copyout", n, l, p)
      /\ space' = [space EXCEPT !.free = Tail(space.free)]
  BY <1>g DEF CopyoutGet
<1>9. /\ mem' \in [Locs -> Entries] /\ \A k \in Locs \ {l} : mem'[k] = mem[k]
      /\ mem'[l].gen = g /\ mem'[l].idx = mem[l].idx /\ mem'[l].obj = mem[l].obj
      /\ mem'[l].type = mem[l].type
  BY <1>8, SetGen
<1>10. i = Index(n) /\ Gen(n) = g /\ l = Where(i)
  BY <1>5, <1>6, NameFacts
<1>11. \A j \in Indices : j # i /\ Where(j) # NULL => mem'[Where(j)] = mem[Where(j)]
  <2> SUFFICES ASSUME NEW j \in Indices, j # i, Where(j) # NULL
               PROVE  mem'[Where(j)] = mem[Where(j)]
    OBVIOUS
  <2>1. Where(j) \in Locs /\ Where(j) # l
    BY <1>5, <1>10, WhereFacts, WhereInjective DEF MapInv
  <2> QED
    BY <1>9, <2>1
<1>12. /\ space' \in Spaces
       /\ space'.is_table = space.is_table /\ space'.is_table_size = space.is_table_size
       /\ space'.is_seq = space.is_seq /\ space'.is_growing = space.is_growing
       /\ space'.is_tree = space.is_tree /\ space'.free = RemoveAt(space.free, 1)
  <2> DEFINE f == Tail(space.free)
  <2>1. f \in Seq(Indices) /\ f = RemoveAt(space.free, 1)
    BY <1>1, <1>2, <1>3
  <2>2. space' = [space EXCEPT !.free = f] /\ space \in Spaces
    BY <1>8 DEF Typed
  <2> HIDE DEF f
  <2>3. /\ space' \in Spaces
        /\ space'.is_table = space.is_table /\ space'.is_table_size = space.is_table_size
        /\ space'.is_seq = space.is_seq /\ space'.is_growing = space.is_growing
        /\ space'.is_tree = space.is_tree /\ space'.free = f
    BY <2>1, <2>2 DEF Spaces
  <2> QED
    BY <2>1, <2>3
<1>13. \E k \in DOMAIN space.free : /\ space.free[k] = i
                                    /\ space'.free = RemoveAt(space.free, k)
  BY <1>3, <1>12
<1>14. /\ i \in Indices /\ i < Limit /\ l = <<Home, i>>
       /\ mem'[l].idx = i /\ mem'[l].gen = Gen(n) /\ mem'[l].type = "none"
       /\ mem'[l].obj = NULL /\ \A x \in Gens : rights[<<i, x>>] = NULL
  BY <1>5, <1>6, <1>9, <1>10
<1> QED
  BY <1>1, <1>8, <1>9, <1>10, <1>11, <1>12, <1>13, <1>14, CopyoutStart

LEMMA CopyoutNameKeeps ==
  ASSUME Typed, Locks, MapInv, LookInv, NEW w \in Workers, NEW p \in Ports \ {ReplyPort},
         NEW n \in ChosenNames, CopyoutName(w, p, n)
  PROVE  Typed' /\ Locks' /\ MapInv' /\ LookInv'
<1>0. n \in Names
  BY NamesAssumption
<1> PICK i \in Indices : i = Index(n)
  BY <1>0, NameFacts
<1>1. lock.writer = NULL /\ WriteLock(w) /\ NoSender /\ rights' = rights /\ port' = port
  BY DEF CopyoutName, WriteLock
<1>2. Home = space.is_table /\ Limit = space.is_table_size
  BY <1>1, NoWriter, Steady DEF MapInv
<1>3. space.free \in Seq(Indices) /\ space \in Spaces /\ Gen(n) \in Gens
  BY <1>0, NameFacts DEF Typed, Spaces
<1>4. CASE i < Limit
  <2> PICK l \in Locs : l = <<space.is_table, i>>
    BY <1>2, <1>4, WhereFacts DEF MapInv
  <2>0. i \in Nat /\ Limit \in Nat /\ ~(i >= space.is_table_size)
    BY <1>2, <1>4, IndexFacts, WhereFacts DEF MapInv
  <2>1. /\ mem' = [mem EXCEPT ![l].gen = Gen(n)] /\ Begin(w, "c_obj", "copyout", n, l, p)
        /\ \E k \in DOMAIN space.free :
             /\ space.free[k] = i
             /\ space' = [space EXCEPT !.free = RemoveAt(space.free, k)]
    BY <2>0 DEF CopyoutName
  <2>2. PICK k \in DOMAIN space.free :
          /\ space.free[k] = i
          /\ space' = [space EXCEPT !.free = RemoveAt(space.free, k)]
    BY <2>1
  <2>3. i \in FreeSlots
    BY <2>2 DEF MapInv, FreeList
  <2>4. /\ Where(i) = <<Home, i>>
        /\ mem[Where(i)].idx = i /\ mem[Where(i)].type = "none" /\ mem[Where(i)].obj = NULL
        /\ \A g \in Gens : rights[<<i, g>>] = NULL
    BY <1>1, <2>3, FreeMeans
  <2>5. /\ mem' \in [Locs -> Entries] /\ \A m \in Locs \ {l} : mem'[m] = mem[m]
        /\ mem'[l].gen = Gen(n) /\ mem'[l].idx = mem[l].idx /\ mem'[l].obj = mem[l].obj
        /\ mem'[l].type = mem[l].type
    BY <1>3, <2>1, SetGen
  <2>6. \A j \in Indices : j # i /\ Where(j) # NULL => mem'[Where(j)] = mem[Where(j)]
    <3> SUFFICES ASSUME NEW j \in Indices, j # i, Where(j) # NULL
                 PROVE  mem'[Where(j)] = mem[Where(j)]
      OBVIOUS
    <3>1. Where(j) \in Locs /\ Where(j) # l
      BY <1>2, <2>4, WhereFacts, WhereInjective DEF MapInv
    <3> QED
      BY <2>5, <3>1
  <2>7. /\ space' \in Spaces
        /\ space'.is_table = space.is_table /\ space'.is_table_size = space.is_table_size
        /\ space'.is_seq = space.is_seq /\ space'.is_growing = space.is_growing
        /\ space'.is_tree = space.is_tree /\ space'.free = RemoveAt(space.free, k)
    <3> DEFINE f == RemoveAt(space.free, k)
    <3>1. f \in Seq(Indices)
      <4>1. \A a, b \in DOMAIN space.free : space.free[a] = space.free[b] => a = b
        BY DEF MapInv, FreeList
      <4> QED
        BY <1>3, <4>1, ListWithout, Zenon
    <3>2. space' = [space EXCEPT !.free = f]
      BY <2>2
    <3> HIDE DEF f
    <3>3. /\ space' \in Spaces
          /\ space'.is_table = space.is_table /\ space'.is_table_size = space.is_table_size
          /\ space'.is_seq = space.is_seq /\ space'.is_growing = space.is_growing
          /\ space'.is_tree = space.is_tree /\ space'.free = f
      BY <1>3, <3>1, <3>2 DEF Spaces
    <3> QED
      BY <3>3 DEF f
  <2>8. \E m \in DOMAIN space.free : /\ space.free[m] = i
                                     /\ space'.free = RemoveAt(space.free, m)
    BY <2>2, <2>7
  <2> QED
    BY <1>0, <1>1, <1>2, <1>4, <2>1, <2>4, <2>5, <2>6, <2>7, <2>8, CopyoutStart
<1>5. CASE ~(i < Limit)
  <2>0. i \in Nat /\ Limit \in Nat /\ ~(i < space.is_table_size)
    BY <1>2, <1>5, IndexFacts, WhereFacts DEF MapInv
  <2>1. PICK l \in Ites :
          /\ FreeIte(l)
          /\ mem' = [mem EXCEPT ![l] = [idx |-> i, gen |-> Gen(n),
                                        type |-> "none", obj |-> NULL]]
          /\ space' = [space EXCEPT !.is_tree[i] = l]
          /\ Begin(w, "c_obj", "copyout", n, l, p)
    BY <2>0 DEF CopyoutName
  <2>2. l \in Locs /\ space.is_tree[i] = NULL
    BY <2>0, LocFacts DEF CopyoutName
  <2> DEFINE e == [idx |-> i, gen |-> Gen(n), type |-> "none", obj |-> NULL]
  <2>3. e \in Entries /\ e.idx = i /\ e.gen = Gen(n) /\ e.type = "none" /\ e.obj = NULL
    BY <1>3 DEF Entries, Types
  <2>4. mem' = [mem EXCEPT ![l] = e]
    BY <2>1
  <2> HIDE DEF e
  <2>5. /\ mem' \in [Locs -> Entries] /\ \A m \in Locs \ {l} : mem'[m] = mem[m]
        /\ mem'[l] = e
    BY <2>2, <2>3, <2>4 DEF Typed
  <2>6. \A j \in Indices : j # i /\ Where(j) # NULL => mem'[Where(j)] = mem[Where(j)]
    <3> SUFFICES ASSUME NEW j \in Indices, j # i, Where(j) # NULL
                 PROVE  mem'[Where(j)] = mem[Where(j)]
      OBVIOUS
    <3>1. Where(j) \in Locs
      BY WhereFacts DEF MapInv
    <3>2. Where(j) # l
      <4>1. CASE j < Limit
        BY <4>1, WhereFacts, LocFacts DEF MapInv
      <4>2. CASE ~(j < Limit)
        BY <2>1, <4>2 DEF Where, FreeIte
      <4> QED
        BY <4>1, <4>2
    <3> QED
      BY <2>5, <3>1, <3>2
  <2>7. /\ space' \in Spaces
        /\ space'.is_table = space.is_table /\ space'.is_table_size = space.is_table_size
        /\ space'.is_seq = space.is_seq /\ space'.is_growing = space.is_growing
        /\ space'.free = space.free /\ space'.is_tree[i] = l
        /\ \A j \in Indices : j # i => space'.is_tree[j] = space.is_tree[j]
    <3> DEFINE tree == [space.is_tree EXCEPT ![i] = l]
    <3>1. space' = [space EXCEPT !.is_tree = tree]
      BY <1>3, <2>1 DEF Spaces
    <3>2. /\ tree \in [Indices -> Ites \cup {NULL}] /\ tree[i] = l
          /\ \A j \in Indices : j # i => tree[j] = space.is_tree[j]
      BY <1>3 DEF Spaces
    <3> HIDE DEF tree
    <3>3. /\ space' \in Spaces /\ space'.is_tree = tree
          /\ space'.is_table = space.is_table /\ space'.is_table_size = space.is_table_size
          /\ space'.is_seq = space.is_seq /\ space'.is_growing = space.is_growing
          /\ space'.free = space.free
      BY <1>3, <3>1, <3>2 DEF Spaces
    <3> QED
      BY <3>2, <3>3
  <2>8. \A g \in Gens : rights[<<i, g>>] = NULL
    <3>1. Where(i) = NULL
      BY <1>5, <2>2 DEF Where
    <3> QED
      BY <3>1 DEF MapInv, EntryInv, EntryAt
  <2> QED
    BY <1>0, <1>1, <1>5, <2>1, <2>2, <2>3, <2>5, <2>6, <2>7, <2>8, CopyoutStart
<1> QED
  BY <1>4, <1>5

\* A worker that does not hold the space lock.
LEMMA SideKeeps ==
  ASSUME Typed, Locks, MapInv, LookInv, NEW w \in Workers,
         W[w].pc \notin WritePcs, W'[w].pc \notin WritePcs \cup {"port", "g_free"},
         NoSender, lock' = lock, rights' = rights, PortsBy(w), mem' \in [Locs -> Entries],
         \A i \in Indices : Where(i) # NULL => mem'[Where(i)] = mem[Where(i)],
         \A i \in Indices : mem'[<<space.is_table, i>>] = mem[<<space.is_table, i>>],
         space' \in Spaces,
         space'.is_table = space.is_table, space'.is_table_size = space.is_table_size,
         space'.is_seq = space.is_seq, space'.is_tree = space.is_tree,
         space'.free = space.free,
         W' \in [Workers -> WorkerLocals], \A v \in Workers \ {w} : W'[v] = W[v],
         port'[ReplyPort].active = port[ReplyPort].active
           \/ rights[ReplyName] # Id(ReplyPort),
         \/ space'.is_growing = space.is_growing
         \/ \A v \in Workers \ {w} : W[v].pc # "g_alloc",
         W'[w].pc = "g_alloc" =>
           /\ space'.is_growing /\ space.is_table < Len(SIZES) /\ Phase \notin TablePcs
           /\ \A v \in Workers : W[v].pc # "g_alloc",
         WorkerOK(w)'
  PROVE  Typed' /\ Locks' /\ MapInv' /\ LookInv'
<1>1. WorkerMove(w)
  <2>1. space.is_seq \in Nat /\ space.is_table \in Nat
    BY Sizes DEF Typed, Spaces
  <2>2. lock.writer # w
    BY DEF Locks, SpaceLock
  <2> QED
    BY <2>1, <2>2 DEF WorkerMove, NoSender, Typed
<1>2. lock.writer # w /\ \A v \in Workers : W[v].pc \in WritePcs => W'[v] = W[v]
  BY DEF Locks, SpaceLock
<1>3. /\ Phase' = Phase /\ Home' = Home /\ Limit' = Limit
      /\ \A i : Busy(i)' = Busy(i)
      /\ \A i \in Indices : Where(i)' = Where(i)
  <2>1. lock.writer # NULL => lock.writer \in Workers /\ W'[lock.writer] = W[lock.writer]
    BY <1>2 DEF Typed
  <2>2. Phase' = Phase /\ \A i : Busy(i)' = Busy(i)
    BY <2>1 DEF Phase, Busy
  <2>3. Home' = Home /\ Limit' = Limit
    BY <2>2 DEF Home, Limit
  <2> QED
    BY <2>2, <2>3 DEF Where
<1>4. \A p \in Ports : Id(p)' = Id(p) /\ (port'[p].active => port[p].active)
  BY DEF PortsBy, Id
<1>5. TableInv'
  <2>1. \A v \in Workers : W'[v].pc = "g_alloc" =>
          /\ space'.is_growing /\ space'.is_table < Len(SIZES) /\ Phase' \notin TablePcs
          /\ \A u \in Workers : W'[u].pc = "g_alloc" => u = v
    <3> SUFFICES ASSUME NEW v \in Workers, W'[v].pc = "g_alloc"
                 PROVE  /\ space'.is_growing /\ space'.is_table < Len(SIZES)
                        /\ Phase' \notin TablePcs
                        /\ \A u \in Workers : W'[u].pc = "g_alloc" => u = v
      OBVIOUS
    <3>1. CASE v = w
      BY <1>3, <3>1
    <3>2. CASE v # w
      <4>1. W[v].pc = "g_alloc"
        BY <3>2
      <4>2. /\ space.is_growing /\ space.is_table < Len(SIZES) /\ Phase \notin TablePcs
            /\ \A u \in Workers : W[u].pc = "g_alloc" => u = v
        BY <4>1 DEF MapInv, TableInv
      <4>3. W'[w].pc # "g_alloc"
        BY <4>1
      <4> QED
        BY <1>3, <3>2, <4>1, <4>2, <4>3
    <3> QED
      BY <3>1, <3>2
  <2>2. \A v \in Workers : W'[v].pc = "g_free" => W'[v].tab \in Blocks /\ W'[v].tab < Home'
    BY <1>3 DEF MapInv, TableInv
  <2>3. /\ Phase \in {"g_size", "g_copy", "g_move"} => space.is_table > 1
        /\ space.is_table_size = (IF Phase = "g_size" THEN SIZES[space.is_table - 1]
                                  ELSE SIZES[space.is_table])
        /\ space.is_seq % 2 = (IF Phase \in TablePcs THEN 1 ELSE 0)
        /\ Phase = "g_table" => space.is_table < Len(SIZES)
    BY DEF MapInv, TableInv
  <2> QED
    BY <1>3, <2>1, <2>2, <2>3 DEF TableInv
<1>6. EntryInv'
  <2>1. \A i \in Indices : \A e : EntryOK(i, e) => EntryOK(i, e)'
    BY <1>3, <1>4 DEF EntryOK
  <2> QED
    BY <1>3, <2>1 DEF MapInv, EntryInv, EntryAt
<1>7. WorkInv'
  <2> SUFFICES ASSUME NEW v \in Workers, W'[v].pc \in NamePcs PROVE WorkOK(v)'
    BY DEF WorkInv
  <2>1. v # w /\ W'[v] = W[v] /\ W[v].pc \in NamePcs
    BY DEF WritePcs
  <2>2. WorkOK(v) /\ W[v].loc \in Locs /\ W[v].loc = Where(Index(W[v].name))
        /\ W[v].name \in Names /\ Index(W[v].name) \in Indices /\ W[v].loc # NULL
    BY <2>1, NameWork
  <2> PICK n \in Names, i \in Indices, l \in Locs :
        n = W[v].name /\ i = Index(n) /\ l = W[v].loc
    BY <2>2
  <2>3. mem'[l] = mem[l] /\ Where(i)' = Where(i)
    BY <1>3, <2>2
  <2> DEFINE e == mem[l]
  <2>4. /\ e.obj \in Ports /\ ~port[e.obj].active => ~port'[e.obj].active
        /\ \A p \in Ports : rights[n] = Id(p) /\ ~port[p].active
             => rights'[n] = Id(p)' /\ ~port'[p].active
        /\ \A p \in Ports : rights[n] = Id(p) => rights'[n] = Id(p)'
    BY <1>4
  <2>5. W[v].port \in Ports \cup {NULL}
    BY DEF Typed, WorkerLocals
  <2> HIDE DEF e
  <2>6. mem[l] = e /\ mem'[l] = e
    BY <2>3 DEF e
  <2> QED
    BY <2>1, <2>2, <2>3, <2>4, <2>5, <2>6 DEF WorkOK
<1>8. FreeList'
  <2>1. \A i \in Indices : i < Limit => mem'[<<Home, i>>] = mem[<<Home, i>>]
    BY WhereFacts, LocFacts DEF MapInv
  <2>2. FreeSlots' = FreeSlots
    BY <1>3, <2>1 DEF FreeSlots
  <2> QED
    BY <2>2 DEF MapInv, FreeList
<1>9. Cleared'
  BY <1>3 DEF MapInv, Cleared
<1>10. ReplyLives'
  <2>1. \A v \in Workers : W'[v].pc = "port" => W'[v] = W[v]
    OBVIOUS
  <2>2. Id(ReplyPort)' = Id(ReplyPort)
    BY <1>4, PortsAssumption
  <2>3. /\ rights[ReplyName] = Id(ReplyPort) => port[ReplyPort].active
        /\ \A v \in Workers : W[v].pc = "port" /\ W[v].port = ReplyPort
             => rights[ReplyName] # Id(ReplyPort)
    BY DEF MapInv, ReplyLives
  <2> QED
    BY <2>1, <2>2, <2>3 DEF ReplyLives
<1>11. MapInv'
  BY <1>5, <1>6, <1>7, <1>8, <1>9, <1>10 DEF MapInv
<1> QED
  BY <1>1, <1>11, WorkerMoveKeeps

LEMMA DestroyPortKeeps ==
  ASSUME Typed, Locks, MapInv, LookInv, NEW w \in Workers, DestroyPort(w)
  PROVE  Typed' /\ Locks' /\ MapInv' /\ LookInv'
<1>1. /\ W[w].pc = "port" /\ NoSender /\ lock' = lock /\ rights' = rights /\ mem' = mem
      /\ space' = space /\ Finish(w)
  BY DEF DestroyPort, At
<1>2. WorkerOK(w) /\ W[w].port \in Ports
  BY <1>1 DEF Locks, WorkerPorts, WorkerOK
<1> PICK q \in Ports : q = W[w].port
  BY <1>2
<1>3. port[q].owner = w
  BY <1>1, <1>2 DEF WorkerOK, WithPort
<1>4. /\ port' \in [Ports -> PortStates]
      /\ port'[q].owner = NULL /\ port'[q].inc = port[q].inc
      /\ port'[q].active = (port[q].active /\ q # ReplyPort)
      /\ \A p \in Ports \ {q} : port'[p] = port[p]
  <2> DEFINE r == [port[q] EXCEPT !.owner = NULL, !.active = @ /\ q # ReplyPort]
  <2>1. port[q] \in PortStates /\ port \in [Ports -> PortStates]
    BY DEF Typed
  <2>2. r \in PortStates /\ r.owner = NULL /\ r.inc = port[q].inc
        /\ r.active = (port[q].active /\ q # ReplyPort)
    BY <2>1 DEF PortStates
  <2>3. port' = [port EXCEPT ![q] = r]
    BY <2>1 DEF DestroyPort
  <2> HIDE DEF r
  <2> QED
    BY <2>1, <2>2, <2>3
<1>5. PortsBy(w)
  BY <1>3, <1>4 DEF PortsBy
<1>6. /\ W' \in [Workers -> WorkerLocals] /\ \A v \in Workers \ {w} : W'[v] = W[v]
      /\ W'[w].pc = "idle" /\ W'[w].op = "none" /\ W'[w].port = NULL
  BY <1>1, FinishMeans
<1>7. WorkerOK(w)'
  <2>1. \A p \in Ports : port'[p].owner # w
    BY <1>2, <1>4, KindFacts DEF WorkerOK
  <2> QED
    BY <1>6, <2>1 DEF WorkerOK, OpAt, WithPort, TablePcs
<1>8. port'[ReplyPort].active = port[ReplyPort].active \/ rights[ReplyName] # Id(ReplyPort)
  <2>1. q = ReplyPort => rights[ReplyName] # Id(ReplyPort)
    BY <1>1 DEF MapInv, ReplyLives
  <2> QED
    BY <1>4, <2>1, PortsAssumption
<1>9. /\ W[w].pc \notin WritePcs /\ W'[w].pc \notin WritePcs \cup {"port", "g_free"}
      /\ W'[w].pc # "g_alloc"
  BY <1>1, <1>6 DEF WritePcs, NamePcs, TablePcs
<1>10. mem' \in [Locs -> Entries] /\ space' \in Spaces
  BY <1>1 DEF Typed
<1> QED
  BY <1>1, <1>5, <1>6, <1>7, <1>8, <1>9, <1>10, SideKeeps

\* A worker that holds no port, and ports that stay.
LEMMA HoldsNone ==
  ASSUME Typed, Locks, NEW w \in Workers, W[w].pc \notin WithPort, port' = port
  PROVE  PortsBy(w) /\ \A p \in Ports : port'[p].owner # w
<1>1. \A p \in Ports : port[p].owner # w
  BY DEF Locks, WorkerPorts, WorkerOK
<1> QED
  BY <1>1 DEF PortsBy, Typed

LEMMA GrowStartKeeps ==
  ASSUME Typed, Locks, MapInv, LookInv, NEW w \in Workers, GrowStart(w)
  PROVE  Typed' /\ Locks' /\ MapInv' /\ LookInv'
<1>1. /\ NoSender /\ lock' = lock /\ rights' = rights /\ mem' = mem /\ port' = port
      /\ Begin(w, "g_alloc", "grow", NULL, NULL, NULL) /\ lock.writer = NULL
      /\ ~space.is_growing /\ space.is_table < Len(SIZES)
      /\ space' = [space EXCEPT !.is_growing = TRUE]
  BY DEF GrowStart
<1>2. /\ W[w].pc = "idle"
      /\ W' \in [Workers -> WorkerLocals] /\ \A v \in Workers \ {w} : W'[v] = W[v]
      /\ W'[w].pc = "g_alloc" /\ W'[w].op = "grow" /\ W'[w].port = NULL
  <2> DEFINE r == [pc |-> "g_alloc", op |-> "grow", name |-> NULL, loc |-> NULL,
                   port |-> NULL, tab |-> 0]
  <2>1. r \in WorkerLocals /\ r.pc = "g_alloc" /\ r.op = "grow" /\ r.port = NULL
    BY DEF WorkerLocals, WorkerPcs
  <2>2. W' = [W EXCEPT ![w] = r] /\ W[w].pc = "idle"
    BY <1>1 DEF Begin
  <2> HIDE DEF r
  <2> QED
    BY <2>1, <2>2 DEF Typed
<1>3. PortsBy(w) /\ \A p \in Ports : port'[p].owner # w
  BY <1>1, <1>2, HoldsNone DEF WithPort
<1>4. WorkerOK(w)'
  BY <1>2, <1>3 DEF WorkerOK, OpAt, WithPort, TablePcs
<1>5. /\ space' \in Spaces /\ space'.is_growing
      /\ space'.is_table = space.is_table /\ space'.is_table_size = space.is_table_size
      /\ space'.is_seq = space.is_seq /\ space'.is_tree = space.is_tree
      /\ space'.free = space.free
  BY <1>1 DEF Typed, Spaces
<1>6. Phase \notin TablePcs
  BY <1>1, NoWriter
<1>7. \A v \in Workers : W[v].pc # "g_alloc"
  BY <1>1 DEF MapInv, TableInv
<1>8. W[w].pc \notin WritePcs /\ W'[w].pc \notin WritePcs \cup {"port", "g_free"}
  BY <1>2 DEF WritePcs, NamePcs, TablePcs
<1>9. mem' \in [Locs -> Entries]
  BY <1>1 DEF Typed
<1> QED
  BY <1>1, <1>2, <1>3, <1>4, <1>5, <1>6, <1>7, <1>8, <1>9, SideKeeps

LEMMA GrowFailsKeeps ==
  ASSUME Typed, Locks, MapInv, LookInv, NEW w \in Workers, GrowFails(w)
  PROVE  Typed' /\ Locks' /\ MapInv' /\ LookInv'
<1>1. /\ NoSender /\ lock' = lock /\ rights' = rights /\ mem' = mem /\ port' = port
      /\ W[w].pc = "g_alloc" /\ Finish(w)
      /\ space' = [space EXCEPT !.is_growing = FALSE]
  BY DEF GrowFails, At
<1>2. /\ W' \in [Workers -> WorkerLocals] /\ \A v \in Workers \ {w} : W'[v] = W[v]
      /\ W'[w].pc = "idle" /\ W'[w].op = "none" /\ W'[w].port = NULL
  BY <1>1, FinishMeans
<1>3. PortsBy(w) /\ \A p \in Ports : port'[p].owner # w
  BY <1>1, HoldsNone DEF WithPort
<1>4. WorkerOK(w)'
  BY <1>2, <1>3 DEF WorkerOK, OpAt, WithPort, TablePcs
<1>5. /\ space' \in Spaces
      /\ space'.is_table = space.is_table /\ space'.is_table_size = space.is_table_size
      /\ space'.is_seq = space.is_seq /\ space'.is_tree = space.is_tree
      /\ space'.free = space.free
  BY <1>1 DEF Typed, Spaces
<1>6. \A v \in Workers \ {w} : W[v].pc # "g_alloc"
  BY <1>1 DEF MapInv, TableInv
<1>7. /\ W[w].pc \notin WritePcs /\ W'[w].pc \notin WritePcs \cup {"port", "g_free"}
      /\ W'[w].pc # "g_alloc"
  BY <1>1, <1>2 DEF WritePcs, NamePcs, TablePcs
<1>8. mem' \in [Locs -> Entries]
  BY <1>1 DEF Typed
<1> QED
  BY <1>1, <1>2, <1>3, <1>4, <1>5, <1>6, <1>7, <1>8, SideKeeps

LEMMA GrowFreeKeeps ==
  ASSUME Typed, Locks, MapInv, LookInv, NEW w \in Workers, GrowFree(w)
  PROVE  Typed' /\ Locks' /\ MapInv' /\ LookInv'
<1>1. /\ NoSender /\ lock' = lock /\ rights' = rights /\ space' = space /\ port' = port
      /\ W[w].pc = "g_free" /\ Finish(w)
  BY DEF GrowFree, At
<1>2. /\ W' \in [Workers -> WorkerLocals] /\ \A v \in Workers \ {w} : W'[v] = W[v]
      /\ W'[w].pc = "idle" /\ W'[w].op = "none" /\ W'[w].port = NULL
  BY <1>1, FinishMeans
<1>3. PortsBy(w) /\ \A p \in Ports : port'[p].owner # w
  BY <1>1, HoldsNone DEF WithPort
<1>4. WorkerOK(w)'
  BY <1>2, <1>3 DEF WorkerOK, OpAt, WithPort, TablePcs
<1>5. W[w].tab \in Blocks /\ W[w].tab < Home
  BY <1>1 DEF MapInv, TableInv
<1> PICK k \in Blocks : k = W[w].tab
  BY <1>5
<1>6. PICK p \in Aliens : mem' = [l \in Locs |-> IF l \in {k} \X Indices
                                                 THEN Pooled(l[2], p) ELSE mem[l]]
  BY DEF GrowFree
<1>7. mem' \in [Locs -> Entries]
  <2> SUFFICES ASSUME NEW l \in Locs PROVE mem'[l] \in Entries
    BY <1>6
  <2>1. CASE l \in {k} \X Indices
    <3>1. l[2] \in Indices /\ 0 \in Gens /\ p \in Ports
      BY <2>1, NameFacts DEF Aliens
    <3>2. Pooled(l[2], p) \in Entries
      BY <3>1 DEF Pooled, Entries, Types
    <3> QED
      BY <1>6, <2>1, <3>2
  <2>2. CASE l \notin {k} \X Indices
    BY <1>6, <2>2 DEF Typed
  <2> QED
    BY <2>1, <2>2
<1>8. \A l \in Locs : l \notin {k} \X Indices => mem'[l] = mem[l]
  BY <1>6
<1>9. /\ Home \in Blocks /\ Home \in Nat /\ k \in Nat /\ space.is_table \in Blocks
      /\ space.is_table \in Nat /\ k < space.is_table
  <2>1. Home \in Blocks /\ space.is_table \in Blocks
    BY WhereFacts DEF MapInv, Typed, Spaces
  <2>2. Home \in Nat /\ space.is_table \in Nat /\ k \in Nat
    BY <2>1, Sizes
  <2>3. Home <= space.is_table
    BY <2>2 DEF Home
  <2> QED
    BY <1>5, <2>1, <2>2, <2>3
<1>10. \A i \in Indices : Where(i) # NULL => mem'[Where(i)] = mem[Where(i)]
  <2> SUFFICES ASSUME NEW i \in Indices, Where(i) # NULL PROVE mem'[Where(i)] = mem[Where(i)]
    OBVIOUS
  <2>1. CASE i < Limit
    <3>1. Where(i) = <<Home, i>> /\ <<Home, i>> \in Locs
      BY <2>1, WhereFacts DEF MapInv
    <3>2. <<Home, i>> \notin {k} \X Indices
      BY <1>5, <1>9
    <3> QED
      BY <1>8, <3>1, <3>2
  <2>2. CASE ~(i < Limit)
    <3>1. Where(i) \in Ites /\ Where(i) \in Locs
      BY <2>2, WhereFacts, LocFacts DEF MapInv
    <3>2. Where(i) \notin {k} \X Indices
      BY <3>1, LocFacts
    <3> QED
      BY <1>8, <3>1, <3>2
  <2> QED
    BY <2>1, <2>2
<1>11. \A i \in Indices : mem'[<<space.is_table, i>>] = mem[<<space.is_table, i>>]
  <2> TAKE i \in Indices
  <2>1. <<space.is_table, i>> \in Locs /\ <<space.is_table, i>> \notin {k} \X Indices
    BY <1>9, LocFacts
  <2> QED
    BY <1>8, <2>1
<1>12. /\ W[w].pc \notin WritePcs /\ W'[w].pc \notin WritePcs \cup {"port", "g_free"}
      /\ W'[w].pc # "g_alloc"
  BY <1>1, <1>2 DEF WritePcs, NamePcs, TablePcs
<1>13. space' \in Spaces
  BY <1>1 DEF Typed
<1> QED
  BY <1>1, <1>2, <1>3, <1>4, <1>7, <1>10, <1>11, <1>12, <1>13, SideKeeps

-----------------------------------------------------------------------------
(* The writer that grows the table. *)

\* Opening, publishing and copying: the table moves, its contents stay.
LEMMA TableFrame ==
  ASSUME Typed, Locks, MapInv, LookInv, NEW w \in Workers, NoSender,
         port' = port, rights' = rights, lock.writer \in {w, NULL},
         W[w].pc \in TablePcs \cup {"g_alloc"},
         W' \in [Workers -> WorkerLocals], \A v \in Workers \ {w} : W'[v] = W[v],
         W'[w].pc \in TablePcs, W'[w].op = "grow", W'[w].port = W[w].port,
         lock' \in [writer : Workers \cup {NULL}, readers : SUBSET Senders],
         lock'.readers = lock.readers, lock'.writer = w,
         lock.writer = NULL => lock.readers = {},
         mem' \in [Locs -> Entries], space' \in Spaces,
         space'.is_tree = space.is_tree, space'.free = space.free,
         space'.is_seq >= space.is_seq, space'.is_table >= space.is_table,
         space'.is_seq = space.is_seq /\ space.is_seq % 2 = 0 =>
           space'.is_table = space.is_table /\ space'.is_table_size = space.is_table_size,
         Limit' = Limit,
         \A i \in Indices : i < Limit => mem'[<<Home', i>>] = mem[<<Home, i>>],
         \A e \in Ites : mem'[e] = mem[e],
         TableInv', Cleared'
  PROVE  Typed' /\ Locks' /\ MapInv' /\ LookInv'
<1>1. PortsBy(w) /\ \A p \in Ports : port'[p].owner # w
  <2>1. W[w].pc \notin WithPort
    BY DEF WithPort, TablePcs
  <2> QED
    BY <2>1, HoldsNone
<1>2. WorkerMove(w)
  <2>1. W'[w].pc \in WritePcs
    BY DEF WritePcs
  <2> QED
    BY <1>1, <2>1 DEF WorkerMove, NoSender, Typed
<1>3. WorkerOK(w)'
  BY <1>1 DEF WorkerOK, OpAt, WithPort, TablePcs
<1>4. \A v \in Workers : W'[v].pc \notin NamePcs
  <2>1. \A v \in Workers \ {w} : W'[v].pc \notin WritePcs
    BY <1>2, OnlyWriterWorks
  <2> QED
    BY <2>1 DEF WritePcs, NamePcs, TablePcs
<1>5. \A i : ~Busy(i) /\ ~Busy(i)'
  <2>1. W[w].pc \notin NamePcs /\ W'[w].pc \notin NamePcs
    BY DEF NamePcs, TablePcs
  <2> QED
    BY <2>1 DEF Busy
<1>6. \A p \in Ports : Id(p)' = Id(p)
  BY DEF Id
<1>7. \A i \in Indices : /\ Where(i) = NULL => Where(i)' = NULL
                         /\ Where(i) # NULL => /\ Where(i)' # NULL
                                               /\ mem'[Where(i)'] = mem[Where(i)]
  <2> TAKE i \in Indices
  <2>1. CASE i < Limit
    <3>1. Home \in Blocks /\ Home' \in Blocks
      <4>1. Home \in Blocks
        BY WhereFacts DEF MapInv
      <4>2. space'.is_table \in Blocks
        BY DEF Spaces
      <4>3. Home' \in Blocks
        BY <4>2, Sizes DEF TableInv, Home, Blocks
      <4> QED
        BY <4>1, <4>3
    <3>2. Where(i) = <<Home, i>> /\ Where(i)' = <<Home', i>>
      BY <2>1 DEF Where
    <3> QED
      BY <2>1, <3>1, <3>2, LocFacts
  <2>2. CASE ~(i < Limit)
    <3>1. Where(i) = space.is_tree[i] /\ Where(i)' = space.is_tree[i]
      BY <2>2 DEF Where
    <3>2. space.is_tree[i] \in Ites \cup {NULL}
      BY DEF Typed, Spaces
    <3> QED
      BY <3>1, <3>2
  <2> QED
    BY <2>1, <2>2
<1>8. EntryInv'
  <2>1. \A i \in Indices : \A e : EntryOK(i, e) => EntryOK(i, e)'
    BY <1>5, <1>6 DEF EntryOK
  <2> SUFFICES ASSUME NEW i \in Indices PROVE EntryAt(i)'
    BY DEF EntryInv
  <2>2. EntryAt(i)
    BY DEF MapInv, EntryInv
  <2> PICK e : e = mem[Where(i)]
    OBVIOUS
  <2>3. Where(i) # NULL => EntryOK(i, e)' /\ mem'[Where(i)'] = e
    BY <1>7, <2>1, <2>2 DEF EntryAt
  <2>4. (i < Limit)' => space'.is_tree[i] = NULL
    BY <2>2 DEF EntryAt
  <2> QED
    BY <1>7, <2>2, <2>3, <2>4 DEF EntryAt
<1>9. WorkInv'
  BY <1>4 DEF WorkInv
<1>10. FreeList'
  <2>1. FreeSlots' = FreeSlots
    BY <1>5 DEF FreeSlots
  <2> QED
    BY <2>1 DEF MapInv, FreeList
<1>11. ReplyLives'
  <2>1. \A v \in Workers : W'[v].pc = "port" => W'[v] = W[v]
    BY DEF TablePcs
  <2>2. Id(ReplyPort)' = Id(ReplyPort)
    BY <1>6, PortsAssumption
  <2>3. /\ rights[ReplyName] = Id(ReplyPort) => port[ReplyPort].active
        /\ \A v \in Workers : W[v].pc = "port" /\ W[v].port = ReplyPort
             => rights[ReplyName] # Id(ReplyPort)
    BY DEF MapInv, ReplyLives
  <2> QED
    BY <2>1, <2>2, <2>3 DEF ReplyLives
<1>12. MapInv'
  BY <1>8, <1>9, <1>10, <1>11 DEF MapInv
<1> QED
  BY <1>2, <1>3, <1>12, WorkerMoveKeeps

LEMMA GrowOpenKeeps ==
  ASSUME Typed, Locks, MapInv, LookInv, NEW w \in Workers, GrowOpen(w)
  PROVE  Typed' /\ Locks' /\ MapInv' /\ LookInv'
<1>1. /\ NoSender /\ rights' = rights /\ mem' = mem /\ port' = port
      /\ W[w].pc = "g_alloc" /\ Goto(w, "g_table") /\ lock.writer = NULL /\ lock.readers = {}
      /\ space' = [space EXCEPT !.is_growing = FALSE, !.is_seq = @ + 1]
      /\ lock' = [lock EXCEPT !.writer = w]
  BY DEF GrowOpen, WriteLock, At
<1>2. /\ W' \in [Workers -> WorkerLocals] /\ \A v \in Workers \ {w} : W'[v] = W[v]
      /\ W'[w].pc = "g_table" /\ W'[w].op = W[w].op /\ W'[w].port = W[w].port
  BY <1>1, GotoMeans DEF WorkerPcs, WritePcs, TablePcs
<1>3. W[w].op = "grow"
  BY <1>1 DEF Locks, WorkerPorts, WorkerOK, OpAt
<1>4. /\ lock' \in [writer : Workers \cup {NULL}, readers : SUBSET Senders]
      /\ lock'.writer = w /\ lock'.readers = lock.readers
  BY <1>1 DEF Typed
<1>5. /\ space' \in Spaces /\ space'.is_tree = space.is_tree /\ space'.free = space.free
      /\ space'.is_table = space.is_table /\ space'.is_table_size = space.is_table_size
      /\ space'.is_seq = space.is_seq + 1 /\ space.is_seq \in Nat
      /\ space.is_table \in Nat
  <2>1. space \in Spaces
    BY DEF Typed
  <2>2. space.is_table \in Nat /\ space.is_seq \in Nat /\ space.is_seq + 1 \in Nat
    BY <2>1, Sizes DEF Spaces
  <2> PICK s \in Nat : s = space.is_seq + 1
    BY <2>2
  <2>3. space' = [space EXCEPT !.is_growing = FALSE, !.is_seq = s]
    BY <1>1, <2>1 DEF Spaces
  <2>4. space' \in Spaces /\ space'.is_tree = space.is_tree /\ space'.free = space.free
        /\ space'.is_table = space.is_table /\ space'.is_table_size = space.is_table_size
        /\ space'.is_seq = s
    BY <2>1, <2>3 DEF Spaces
  <2> QED
    BY <2>2, <2>4
<1>6. Phase = "idle" /\ Phase' = "g_table"
  BY <1>1, <1>2, <1>4, KindFacts DEF Phase
<1>7. Home' = Home /\ Limit' = Limit
  BY <1>5, <1>6 DEF Home, Limit
<1>8. TableInv'
  <2>1. /\ space.is_table_size = SIZES[space.is_table] /\ space.is_seq % 2 = 0
        /\ space.is_table < Len(SIZES)
        /\ \A v \in Workers \ {w} : W[v].pc # "g_alloc"
        /\ \A v \in Workers : W[v].pc = "g_free" => W[v].tab \in Blocks /\ W[v].tab < Home
    BY <1>1, <1>6 DEF MapInv, TableInv, TablePcs
  <2>2. space'.is_seq % 2 = 1
    BY <1>5, <2>1
  <2>3. \A v \in Workers : W'[v].pc # "g_alloc"
    BY <1>2, <2>1
  <2>4. \A v \in Workers : W'[v].pc = "g_free" => W'[v].tab \in Blocks /\ W'[v].tab < Home'
    BY <1>2, <1>7, <2>1
  <2> QED
    BY <1>5, <1>6, <2>1, <2>2, <2>3, <2>4 DEF TableInv, TablePcs
<1>9. Cleared'
  BY <1>6 DEF Cleared
<1>10. W[w].pc \in TablePcs \cup {"g_alloc"} /\ W'[w].pc \in TablePcs /\ W'[w].op = "grow"
  BY <1>1, <1>2, <1>3 DEF TablePcs
<1>11. /\ space'.is_seq >= space.is_seq /\ space'.is_table >= space.is_table
       /\ mem' \in [Locs -> Entries]
       /\ \A i \in Indices : i < Limit => mem'[<<Home', i>>] = mem[<<Home, i>>]
  BY <1>1, <1>5, <1>7 DEF Typed
<1> QED
  BY <1>1, <1>2, <1>4, <1>5, <1>7, <1>8, <1>9, <1>10, <1>11, TableFrame

\* A worker at one of the steps of a growth.
LEMMA GrowFacts ==
  ASSUME Typed, Locks, MapInv, NEW w \in Workers, W[w].pc \in TablePcs
  PROVE  /\ lock.writer = w /\ lock.writer # NULL /\ Phase = W[w].pc /\ W[w].op = "grow"
         /\ \A v \in Workers : W[v].pc # "g_alloc"
         /\ space \in Spaces /\ space.is_table \in Blocks /\ space.is_table \in Nat
         /\ space.is_seq \in Nat /\ space.is_seq % 2 = 1
         /\ W[w].pc # "g_table" => space.is_table > 1 /\ space.is_table - 1 \in Blocks
         /\ \A v \in Workers : W[v].pc = "g_free" => W[v].tab \in Blocks /\ W[v].tab < Home
         /\ lock \in [writer : Workers \cup {NULL}, readers : SUBSET Senders]
<1>1. lock.writer = w /\ lock.writer # NULL /\ Phase = W[w].pc
  BY TheWriter DEF WritePcs
<1>2. W[w].op = "grow"
  BY DEF Locks, WorkerPorts, WorkerOK, OpAt, TablePcs
<1>3. /\ \A v \in Workers : W[v].pc # "g_alloc"
      /\ \A v \in Workers : W[v].pc = "g_free" => W[v].tab \in Blocks /\ W[v].tab < Home
      /\ space.is_seq % 2 = 1
      /\ W[w].pc # "g_table" => space.is_table > 1
  BY <1>1 DEF MapInv, TableInv, TablePcs
<1>4. space \in Spaces /\ space.is_table \in Blocks /\ space.is_seq \in Nat
  BY DEF Typed, Spaces
<1>5. space.is_table \in Nat
  BY <1>4, Sizes
<1>6. space.is_table > 1 => space.is_table - 1 \in Blocks
  BY <1>4, <1>5 DEF Blocks
<1> QED
  BY <1>1, <1>2, <1>3, <1>4, <1>5, <1>6 DEF Typed

LEMMA GrowPublishKeeps ==
  ASSUME Typed, Locks, MapInv, LookInv, NEW w \in Workers, GrowPublish(w)
  PROVE  Typed' /\ Locks' /\ MapInv' /\ LookInv'
<1>1. NoSender /\ rights' = rights /\ mem' = mem /\ port' = port /\ lock' = lock
  BY DEF GrowPublish
<1>2. W[w].pc \in {"g_table", "g_size"} /\ W[w].pc \in TablePcs
  BY DEF GrowPublish, At, TablePcs
<1>3. /\ lock.writer = w /\ lock.writer # NULL /\ Phase = W[w].pc /\ W[w].op = "grow"
      /\ \A v \in Workers : W[v].pc # "g_alloc"
      /\ space \in Spaces /\ space.is_table \in Blocks /\ space.is_table \in Nat
      /\ space.is_seq \in Nat /\ space.is_seq % 2 = 1
      /\ \A v \in Workers : W[v].pc = "g_free" => W[v].tab \in Blocks /\ W[v].tab < Home
      /\ lock \in [writer : Workers \cup {NULL}, readers : SUBSET Senders]
  BY <1>2, GrowFacts
<1>4. CASE W[w].pc = "g_table"
  <2>1. space' = [space EXCEPT !.is_table = @ + 1] /\ Goto(w, "g_size")
    BY <1>4 DEF GrowPublish, At
  <2>2. /\ W' \in [Workers -> WorkerLocals] /\ \A v \in Workers \ {w} : W'[v] = W[v]
        /\ W'[w].pc = "g_size" /\ W'[w].op = W[w].op /\ W'[w].port = W[w].port
    BY <2>1, GotoMeans DEF WorkerPcs, WritePcs, TablePcs
  <2>3. space.is_table < Len(SIZES) /\ space.is_table_size = SIZES[space.is_table]
    BY <1>3, <1>4 DEF MapInv, TableInv
  <2>4. space.is_table + 1 \in Blocks
    BY <1>3, <2>3, Sizes DEF Blocks
  <2>5. /\ space' \in Spaces /\ space'.is_tree = space.is_tree /\ space'.free = space.free
        /\ space'.is_table = space.is_table + 1
        /\ space'.is_table_size = space.is_table_size /\ space'.is_seq = space.is_seq
        /\ space'.is_table > 1 /\ space'.is_table - 1 = space.is_table
    <3> PICK k \in Blocks : k = space.is_table + 1
      BY <2>4
    <3>1. k > 1 /\ k - 1 = space.is_table
      BY <1>3, Sizes
    <3>2. space' = [space EXCEPT !.is_table = k]
      BY <1>3, <2>1 DEF Spaces
    <3>3. space' \in Spaces /\ space'.is_tree = space.is_tree /\ space'.free = space.free
          /\ space'.is_table_size = space.is_table_size /\ space'.is_seq = space.is_seq
          /\ space'.is_table = k
      BY <1>3, <3>2 DEF Spaces
    <3> QED
      BY <3>1, <3>3
  <2>6. Phase' = "g_size"
    BY <1>1, <1>3, <2>2 DEF Phase
  <2>7. Home' = Home /\ Limit' = Limit
    BY <1>3, <1>4, <2>5, <2>6 DEF Home, Limit
  <2>8. TableInv'
    <3>1. \A v \in Workers : W'[v].pc # "g_alloc"
      BY <1>3, <2>2
    <3>2. \A v \in Workers : W'[v].pc = "g_free" => W'[v].tab \in Blocks /\ W'[v].tab < Home'
      BY <1>3, <2>2, <2>7
    <3> QED
      BY <1>3, <2>3, <2>5, <2>6, <3>1, <3>2 DEF TableInv, TablePcs
  <2>9. Cleared'
    BY <2>6 DEF Cleared
  <2>10. W'[w].pc \in TablePcs /\ W'[w].op = "grow"
    BY <1>3, <2>2 DEF TablePcs
  <2>11. /\ space'.is_seq >= space.is_seq /\ space'.is_table >= space.is_table
         /\ mem' \in [Locs -> Entries]
         /\ \A i \in Indices : i < Limit => mem'[<<Home', i>>] = mem[<<Home, i>>]
    BY <1>1, <1>3, <2>5, <2>7 DEF Typed
  <2> QED
    BY <1>1, <1>2, <1>3, <2>2, <2>5, <2>7, <2>8, <2>9, <2>10, <2>11, TableFrame
<1>5. CASE W[w].pc = "g_size"
  <2>1. /\ space' = [space EXCEPT !.is_table_size = SIZES[space.is_table]]
        /\ Goto(w, "g_copy")
    BY <1>5 DEF GrowPublish, At
  <2>2. /\ W' \in [Workers -> WorkerLocals] /\ \A v \in Workers \ {w} : W'[v] = W[v]
        /\ W'[w].pc = "g_copy" /\ W'[w].op = W[w].op /\ W'[w].port = W[w].port
    BY <2>1, GotoMeans DEF WorkerPcs, WritePcs, TablePcs
  <2>3. space.is_table > 1
    BY <1>3, <1>5 DEF MapInv, TableInv
  <2>4. SIZES[space.is_table] \in Nat
    BY <1>3, Sizes
  <2>5. /\ space' \in Spaces /\ space'.is_tree = space.is_tree /\ space'.free = space.free
        /\ space'.is_table = space.is_table
        /\ space'.is_table_size = SIZES[space.is_table] /\ space'.is_seq = space.is_seq
    BY <1>3, <2>1, <2>4 DEF Spaces
  <2>6. Phase' = "g_copy"
    BY <1>1, <1>3, <2>2 DEF Phase
  <2>7. Home' = Home /\ Limit' = Limit
    BY <1>3, <1>5, <2>5, <2>6 DEF Home, Limit
  <2>8. TableInv'
    <3>1. \A v \in Workers : W'[v].pc # "g_alloc"
      BY <1>3, <2>2
    <3>2. \A v \in Workers : W'[v].pc = "g_free" => W'[v].tab \in Blocks /\ W'[v].tab < Home'
      BY <1>3, <2>2, <2>7
    <3> QED
      BY <1>3, <2>3, <2>5, <2>6, <3>1, <3>2 DEF TableInv, TablePcs
  <2>9. Cleared'
    BY <2>6 DEF Cleared
  <2>10. W'[w].pc \in TablePcs /\ W'[w].op = "grow"
    BY <1>3, <2>2 DEF TablePcs
  <2>11. /\ space'.is_seq >= space.is_seq /\ space'.is_table >= space.is_table
         /\ mem' \in [Locs -> Entries]
         /\ \A i \in Indices : i < Limit => mem'[<<Home', i>>] = mem[<<Home, i>>]
    BY <1>1, <1>3, <2>5, <2>7 DEF Typed
  <2>12. ~(space.is_seq % 2 = 0)
    BY <1>3
  <2> QED
    BY <1>1, <1>2, <1>3, <2>2, <2>5, <2>7, <2>8, <2>9, <2>10, <2>11, <2>12, TableFrame
<1> QED
  BY <1>2, <1>4, <1>5

\* An empty slot of a table.
Empty(i) == [idx |-> i, gen |-> GENS - 1, type |-> "none", obj |-> NULL]

LEMMA EmptyTyped ==
  ASSUME NEW i \in Indices
  PROVE  Empty(i) \in Entries
<1>1. GENS - 1 \in Gens
  BY GensAssumption DEF Gens
<1> QED
  BY <1>1 DEF Empty, Entries, Types

LEMMA GrowCopyKeeps ==
  ASSUME Typed, Locks, MapInv, LookInv, NEW w \in Workers, GrowCopy(w)
  PROVE  Typed' /\ Locks' /\ MapInv' /\ LookInv'
<1> PICK tab \in Blocks : tab = space.is_table
  BY DEF Typed, Spaces
<1>1. /\ NoSender /\ rights' = rights /\ port' = port /\ lock' = lock /\ space' = space
      /\ W[w].pc = "g_copy" /\ Goto(w, "g_move")
      /\ mem' = [l \in Locs |->
                   IF l \notin {tab} \X Indices THEN mem[l]
                   ELSE IF l[2] < SIZES[tab - 1] THEN mem[<<tab - 1, l[2]>>]
                   ELSE Empty(l[2])]
  BY DEF GrowCopy, At, Empty
<1>2. W[w].pc \in TablePcs
  BY <1>1 DEF TablePcs
<1>3. /\ lock.writer = w /\ lock.writer # NULL /\ Phase = W[w].pc /\ W[w].op = "grow"
      /\ \A v \in Workers : W[v].pc # "g_alloc"
      /\ space \in Spaces /\ tab \in Nat
      /\ space.is_seq \in Nat /\ space.is_seq % 2 = 1
      /\ tab > 1 /\ tab - 1 \in Blocks
      /\ \A v \in Workers : W[v].pc = "g_free" => W[v].tab \in Blocks /\ W[v].tab < Home
      /\ lock \in [writer : Workers \cup {NULL}, readers : SUBSET Senders]
  BY <1>1, <1>2, GrowFacts
<1>4. /\ W' \in [Workers -> WorkerLocals] /\ \A v \in Workers \ {w} : W'[v] = W[v]
      /\ W'[w].pc = "g_move" /\ W'[w].op = W[w].op /\ W'[w].port = W[w].port
  BY <1>1, GotoMeans DEF WorkerPcs, WritePcs, TablePcs
<1>5. Phase' = "g_move"
  BY <1>1, <1>3, <1>4 DEF Phase
<1>6. Home = tab - 1 /\ Home' = tab /\ Limit = SIZES[tab - 1] /\ Limit' = Limit
  BY <1>1, <1>3, <1>5 DEF Home, Limit
<1>7. /\ \A i \in Indices : i < SIZES[tab - 1] => mem'[<<tab, i>>] = mem[<<tab - 1, i>>]
      /\ \A i \in Indices : ~(i < SIZES[tab - 1]) => mem'[<<tab, i>>] = Empty(i)
      /\ \A l \in Locs : l \notin {tab} \X Indices => mem'[l] = mem[l]
  <2>1. \A i \in Indices : /\ <<tab, i>> \in Locs /\ <<tab, i>> \in {tab} \X Indices
                           /\ <<tab, i>>[2] = i
    BY LocFacts
  <2>2. \A i \in Indices : mem'[<<tab, i>>] = IF i < SIZES[tab - 1] THEN mem[<<tab - 1, i>>]
                                              ELSE Empty(i)
    BY <1>1, <2>1
  <2> QED
    BY <1>1, <2>2
<1>8. mem' \in [Locs -> Entries]
  <2> SUFFICES ASSUME NEW l \in Locs PROVE mem'[l] \in Entries
    BY <1>1
  <2>1. CASE l \in {tab} \X Indices
    <3> PICK i \in Indices : l = <<tab, i>>
      BY <2>1
    <3>1. mem[<<tab - 1, i>>] \in Entries /\ Empty(i) \in Entries
      BY <1>3, LocFacts, EmptyTyped DEF Typed
    <3> QED
      BY <1>7, <3>1
  <2>2. CASE l \notin {tab} \X Indices
    BY <1>7, <2>2 DEF Typed
  <2> QED
    BY <2>1, <2>2
<1>9. \A e \in Ites : mem'[e] = mem[e]
  BY <1>7, LocFacts
<1>10. SIZES[tab - 1] \in Nat /\ SIZES[tab] \in Nat
  BY <1>3, Sizes
<1>11. Cleared'
  <2>1. \A i \in Indices : SIZES[tab - 1] <= i => mem'[<<tab, i>>] = Empty(i)
    BY <1>7, <1>10, IndexFacts
  <2> QED
    BY <1>1, <1>6, <2>1 DEF Cleared, Empty
<1>12. TableInv'
  <2>1. \A v \in Workers : W'[v].pc # "g_alloc"
    BY <1>3, <1>4
  <2>2. \A v \in Workers : W'[v].pc = "g_free" => W'[v].tab \in Blocks /\ W'[v].tab < Home'
    <3> SUFFICES ASSUME NEW v \in Workers, W'[v].pc = "g_free"
                 PROVE  W'[v].tab \in Blocks /\ W'[v].tab < tab
      BY <1>6
    <3>1. W'[v] = W[v] /\ W[v].tab \in Blocks /\ W[v].tab < tab - 1
      BY <1>3, <1>4, <1>6
    <3>2. W[v].tab \in Nat
      BY <3>1, Sizes
    <3> QED
      BY <1>3, <3>1, <3>2
  <2>3. space.is_table_size = SIZES[tab]
    BY <1>1, <1>3 DEF MapInv, TableInv
  <2> QED
    BY <1>1, <1>3, <1>5, <2>1, <2>2, <2>3 DEF TableInv, TablePcs
<1>13. W'[w].pc \in TablePcs /\ W'[w].op = "grow"
  BY <1>3, <1>4 DEF TablePcs
<1>14. \A i \in Indices : i < Limit => mem'[<<Home', i>>] = mem[<<Home, i>>]
  BY <1>6, <1>7
<1>15. space'.is_seq >= space.is_seq /\ space'.is_table >= space.is_table /\ space' \in Spaces
  BY <1>1, <1>3
<1> QED
  BY <1>1, <1>2, <1>3, <1>4, <1>6, <1>8, <1>9, <1>11, <1>12, <1>13, <1>14, <1>15, TableFrame

\* A list of indices that names each element of a set once.
Lists(s, T) ==
  /\ s \in Seq(Indices)
  /\ \A i : (\E k \in DOMAIN s : s[k] = i) <=> i \in T
  /\ \A j, k \in DOMAIN s : s[j] = s[k] => j = k

\* Two lists without a common element, one after the other.
LEMMA ListJoin ==
  ASSUME NEW T, NEW a \in Seq(T), NEW b \in Seq(T),
         \A j, k \in DOMAIN a : a[j] = a[k] => j = k,
         \A j, k \in DOMAIN b : b[j] = b[k] => j = k,
         \A j \in DOMAIN a, k \in DOMAIN b : a[j] # b[k]
  PROVE  /\ a \o b \in Seq(T)
         /\ \A i : (\E k \in DOMAIN (a \o b) : (a \o b)[k] = i) <=>
              (\E k \in DOMAIN a : a[k] = i) \/ (\E k \in DOMAIN b : b[k] = i)
         /\ \A j, k \in DOMAIN (a \o b) : (a \o b)[j] = (a \o b)[k] => j = k
<1> PICK m \in Nat, n \in Nat : m = Len(a) /\ n = Len(b)
  OBVIOUS
<1>1. DOMAIN a = 1 .. m /\ DOMAIN b = 1 .. n
  OBVIOUS
<1> DEFINE c == a \o b
<1>2. c \in Seq(T) /\ Len(c) = m + n /\ DOMAIN c = 1 .. m + n
  OBVIOUS
<1>3. \A k \in 1 .. m + n : c[k] = IF k <= m THEN a[k] ELSE b[k - m]
  OBVIOUS
<1> HIDE DEF c
<1>4. \A k \in 1 .. m : k \in 1 .. m + n /\ c[k] = a[k]
  BY <1>3
<1>5. \A k \in 1 .. n : k + m \in 1 .. m + n /\ c[k + m] = b[k]
  <2> TAKE k \in 1 .. n
  <2>1. k + m \in 1 .. m + n /\ ~(k + m <= m) /\ (k + m) - m = k
    OBVIOUS
  <2> QED
    BY <1>3, <2>1
<1>6. \A k \in 1 .. m + n : k \in 1 .. m \/ (k - m \in 1 .. n /\ c[k] = b[k - m])
  BY <1>3
<1>7. ASSUME NEW i
      PROVE  (\E k \in DOMAIN c : c[k] = i) <=>
               (\E k \in DOMAIN a : a[k] = i) \/ (\E k \in DOMAIN b : b[k] = i)
  <2>1. ASSUME NEW k \in 1 .. m + n, c[k] = i
        PROVE  (\E j \in 1 .. m : a[j] = i) \/ (\E j \in 1 .. n : b[j] = i)
    BY <1>4, <1>6, <2>1
  <2>2. ASSUME NEW k \in 1 .. m, a[k] = i PROVE \E j \in 1 .. m + n : c[j] = i
    BY <1>4, <2>2
  <2>3. ASSUME NEW k \in 1 .. n, b[k] = i PROVE \E j \in 1 .. m + n : c[j] = i
    BY <1>5, <2>3
  <2> QED
    BY <1>1, <1>2, <2>1, <2>2, <2>3
<1>8. ASSUME NEW j \in 1 .. m + n, NEW k \in 1 .. m + n, c[j] = c[k]
      PROVE  j = k
  <2>1. CASE j \in 1 .. m /\ k \in 1 .. m
    BY <1>1, <1>4, <1>8, <2>1
  <2>2. CASE j \in 1 .. m /\ k \notin 1 .. m
    <3>1. a[j] = c[j] /\ k - m \in 1 .. n /\ c[k] = b[k - m]
      BY <1>4, <1>6, <2>2
    <3> QED
      BY <1>1, <1>8, <2>2, <3>1
  <2>3. CASE j \notin 1 .. m /\ k \in 1 .. m
    <3>1. a[k] = c[k] /\ j - m \in 1 .. n /\ c[j] = b[j - m]
      BY <1>4, <1>6, <2>3
    <3> QED
      BY <1>1, <1>8, <2>3, <3>1
  <2>4. CASE j \notin 1 .. m /\ k \notin 1 .. m
    <3>1. j - m \in 1 .. n /\ c[j] = b[j - m] /\ k - m \in 1 .. n /\ c[k] = b[k - m]
      BY <1>6, <2>4
    <3>2. j - m = k - m
      BY <1>1, <1>8, <3>1
    <3> QED
      BY <3>2
  <2> QED
    BY <2>1, <2>2, <2>3, <2>4
<1> QED
  BY <1>2, <1>7, <1>8 DEF c

LEMMA ListsJoin ==
  ASSUME NEW a, NEW b, NEW T, NEW U, Lists(a, T), Lists(b, U),
         \A i \in T : i \notin U
  PROVE  Lists(a \o b, T \cup U)
<1>1. /\ a \in Seq(Indices) /\ b \in Seq(Indices)
      /\ \A j, k \in DOMAIN a : a[j] = a[k] => j = k
      /\ \A j, k \in DOMAIN b : b[j] = b[k] => j = k
  BY DEF Lists
<1>2. /\ \A i : (\E k \in DOMAIN a : a[k] = i) <=> i \in T
      /\ \A i : (\E k \in DOMAIN b : b[k] = i) <=> i \in U
  BY DEF Lists
<1>3. \A j \in DOMAIN a, k \in DOMAIN b : a[j] # b[k]
  BY <1>2
<1>4. /\ a \o b \in Seq(Indices)
      /\ \A i : (\E k \in DOMAIN (a \o b) : (a \o b)[k] = i) <=>
           (\E k \in DOMAIN a : a[k] = i) \/ (\E k \in DOMAIN b : b[k] = i)
      /\ \A j, k \in DOMAIN (a \o b) : (a \o b)[j] = (a \o b)[k] => j = k
  BY <1>1, <1>3, ListJoin, Zenon
<1> QED
  BY <1>2, <1>4, Zenon DEF Lists

\* The new slots that join the free list.
LEMMA FreshLists ==
  ASSUME NEW tab \in Blocks, tab - 1 \in Blocks, NEW moved
  PROVE  /\ NewPart(tab) \subseteq Indices
         /\ \A i \in Indices : i \in NewPart(tab) <=> SIZES[tab - 1] <= i /\ i < SIZES[tab]
         /\ Lists(Fresh(tab, moved), NewPart(tab) \ moved)
<1>1. SIZES[tab - 1] \in Nat /\ SIZES[tab - 1] >= 3 /\ SIZES[tab] \in Nat /\ SIZES[tab] >= 3
  BY Sizes
<1>2. NewPart(tab) \subseteq Indices
  <2> SUFFICES ASSUME NEW i \in NewPart(tab) PROVE i \in Indices
    OBVIOUS
  <2>1. i \in Nat \ {0} /\ i < SIZES[tab]
    BY <1>1 DEF NewPart
  <2> QED
    BY <2>1, IndexFacts
<1>3. \A i \in Indices : i \in NewPart(tab) <=> SIZES[tab - 1] <= i /\ i < SIZES[tab]
  BY <1>1, IndexFacts DEF NewPart
<1> DEFINE T == NewPart(tab) \ moved
<1>4. T \in SUBSET Nat /\ T \subseteq Indices
  BY <1>2, IndexFacts
<1>5. IsFiniteSet(T)
  <2>1. IsFiniteSet(NewPart(tab))
    <3>1. SIZES[tab - 1] \in Int /\ SIZES[tab] - 1 \in Int
      BY <1>1
    <3> QED
      BY <3>1, FS_Interval DEF NewPart
  <2>2. T \in SUBSET NewPart(tab)
    OBVIOUS
  <2> QED
    BY <2>1, <2>2, FS_Subset, Zenon
<1> HIDE DEF T
<1>6. /\ Ascending(T) \in Seq(T)
      /\ Len(Ascending(T)) = Cardinality(T)
      /\ \A j, k \in 1 .. Cardinality(T) : Ascending(T)[j] = Ascending(T)[k] => j = k
      /\ \A i \in T : \E k \in 1 .. Cardinality(T) : Ascending(T)[k] = i
  BY <1>4, <1>5, AscendingLists
<1> PICK a, n : a = Ascending(T) /\ n = Cardinality(T)
  OBVIOUS
<1>7. a \in Seq(T) /\ Len(a) = n /\ DOMAIN a = 1 .. n /\ \A k \in DOMAIN a : a[k] \in T
  BY <1>6
<1>8. a \in Seq(Indices)
  <2>1. n \in Nat
    BY <1>7
  <2>2. a \in [1 .. n -> T]
    BY <1>7
  <2>3. a \in [1 .. n -> Indices]
    BY <1>4, <2>2
  <2> QED
    BY <2>1, <2>3
<1>9. Fresh(tab, moved) = a
  BY DEF Fresh, T
<1>10. \A i : (\E k \in DOMAIN a : a[k] = i) <=> i \in T
  BY <1>6, <1>7
<1>11. \A j, k \in DOMAIN a : a[j] = a[k] => j = k
  BY <1>6, <1>7
<1>12. T = NewPart(tab) \ moved
  BY DEF T
<1> QED
  BY <1>2, <1>3, <1>8, <1>9, <1>10, <1>11, <1>12 DEF Lists

LEMMA GrowMoveKeeps ==
  ASSUME Typed, Locks, MapInv, LookInv, NEW w \in Workers, GrowMove(w)
  PROVE  Typed' /\ Locks' /\ MapInv' /\ LookInv'
<1> PICK tab \in Blocks : tab = space.is_table
  BY DEF Typed, Spaces
<1> PICK moved : moved = {i \in NewPart(tab) : space.is_tree[i] # NULL}
  OBVIOUS
<1> PICK fresh : fresh = Fresh(tab, moved)
  OBVIOUS
<1>1. /\ NoSender /\ rights' = rights /\ port' = port /\ W[w].pc = "g_move"
      /\ mem' = [l \in Locs |-> IF l \in {tab} \X moved
                                THEN mem[space.is_tree[l[2]]] ELSE mem[l]]
      /\ space' = [space EXCEPT !.is_tree = [i \in Indices |->
                                               IF i \in moved THEN NULL ELSE @[i]],
                                !.free = fresh \o @,
                                !.is_seq = @ + 1]
      /\ lock' = [lock EXCEPT !.writer = NULL]
      /\ W' = [W EXCEPT ![w].pc = "g_free", ![w].tab = tab - 1]
  BY DEF GrowMove, At, WriteUnlock
<1>2. W[w].pc \in TablePcs
  BY <1>1 DEF TablePcs
<1>3. /\ lock.writer = w /\ lock.writer # NULL /\ Phase = W[w].pc /\ W[w].op = "grow"
      /\ \A v \in Workers : W[v].pc # "g_alloc"
      /\ space \in Spaces /\ tab \in Nat
      /\ space.is_seq \in Nat /\ space.is_seq % 2 = 1
      /\ tab > 1 /\ tab - 1 \in Blocks
      /\ \A v \in Workers : W[v].pc = "g_free" => W[v].tab \in Blocks /\ W[v].tab < Home
      /\ lock \in [writer : Workers \cup {NULL}, readers : SUBSET Senders]
  BY <1>1, <1>2, GrowFacts
<1>4. /\ W' \in [Workers -> WorkerLocals] /\ \A v \in Workers \ {w} : W'[v] = W[v]
      /\ W'[w].pc = "g_free" /\ W'[w].op = "grow" /\ W'[w].port = W[w].port
      /\ W'[w].tab = tab - 1
  <2> DEFINE r == [W[w] EXCEPT !.pc = "g_free", !.tab = tab - 1]
  <2>1. W[w] \in WorkerLocals
    BY DEF Typed
  <2> PICK k \in Blocks : k = tab - 1
    BY <1>3
  <2>2. r = [W[w] EXCEPT !.pc = "g_free", !.tab = k]
    OBVIOUS
  <2>3. r \in WorkerLocals /\ r.pc = "g_free" /\ r.op = W[w].op /\ r.port = W[w].port
        /\ r.tab = tab - 1
    BY <2>1, <2>2 DEF WorkerLocals, WorkerPcs
  <2>4. W' = [W EXCEPT ![w] = r]
    BY <1>1, <2>1 DEF Typed
  <2> HIDE DEF r
  <2> QED
    BY <1>3, <2>3, <2>4 DEF Typed
<1>5. /\ lock' \in [writer : Workers \cup {NULL}, readers : SUBSET Senders]
      /\ lock'.writer = NULL /\ lock'.readers = lock.readers
  BY <1>1, <1>3
<1>6. Phase' = "idle" /\ \A i : ~Busy(i) /\ ~Busy(i)'
  BY <1>1, <1>3, <1>5 DEF Phase, Busy, NamePcs
<1>7. /\ NewPart(tab) \subseteq Indices
      /\ \A i \in Indices : i \in NewPart(tab) <=> SIZES[tab - 1] <= i /\ i < SIZES[tab]
      /\ Lists(fresh, NewPart(tab) \ moved) /\ fresh \in Seq(Indices)
  <2>1. tab - 1 \in Blocks
    BY <1>3
  <2>2. /\ NewPart(tab) \subseteq Indices
        /\ \A i \in Indices : i \in NewPart(tab) <=> SIZES[tab - 1] <= i /\ i < SIZES[tab]
        /\ Lists(Fresh(tab, moved), NewPart(tab) \ moved)
    BY <2>1, FreshLists
  <2>3. Lists(fresh, NewPart(tab) \ moved)
    BY <2>2
  <2>4. fresh \in Seq(Indices)
    BY <2>3 DEF Lists
  <2> QED
    BY <2>2, <2>3, <2>4
<1>8. /\ space' \in Spaces /\ space'.is_table = tab
      /\ space'.is_table_size = space.is_table_size
      /\ space'.is_growing = space.is_growing
      /\ space'.is_seq = space.is_seq + 1 /\ space'.free = fresh \o space.free
      /\ \A i \in Indices : space'.is_tree[i] = IF i \in moved THEN NULL ELSE space.is_tree[i]
  <2> DEFINE tree == [i \in Indices |-> IF i \in moved THEN NULL ELSE space.is_tree[i]]
  <2>1. tree \in [Indices -> Ites \cup {NULL}] /\ space.free \in Seq(Indices)
    BY <1>3 DEF Spaces
  <2>2. \A i \in Indices : tree[i] = IF i \in moved THEN NULL ELSE space.is_tree[i]
    OBVIOUS
  <2>3. fresh \o space.free \in Seq(Indices) /\ space.is_seq + 1 \in Nat
    BY <1>3, <1>7, <2>1
  <2> HIDE DEF tree
  <2> PICK f \in Seq(Indices), s \in Nat : f = fresh \o space.free /\ s = space.is_seq + 1
    BY <2>3
  <2>4. space' = [space EXCEPT !.is_tree = tree, !.free = f, !.is_seq = s]
    BY <1>1, <1>3 DEF Spaces, tree
  <2>5. space' \in Spaces /\ space'.is_table = space.is_table
        /\ space'.is_table_size = space.is_table_size
        /\ space'.is_growing = space.is_growing
        /\ space'.is_seq = s /\ space'.free = f /\ space'.is_tree = tree
    BY <1>3, <2>1, <2>4 DEF Spaces
  <2> QED
    BY <2>2, <2>5
<1> PICK lo \in Nat, hi \in Nat : lo = SIZES[tab - 1] /\ hi = SIZES[tab]
  BY <1>3, Sizes
<1>9. lo < hi /\ \A i \in Indices : i \in Nat
  <2>1. tab - 1 < tab
    BY <1>3
  <2> QED
    BY <1>3, <2>1, Sizes, IndexFacts
<1>10. Home = tab /\ Home' = tab /\ Limit = lo /\ Limit' = hi
  BY <1>1, <1>3, <1>6, <1>8 DEF Home, Limit
<1>11. /\ moved \subseteq Indices
       /\ \A i \in moved : lo <= i /\ i < hi /\ space.is_tree[i] \in Ites
       /\ \A i \in Indices : lo <= i /\ i < hi /\ i \notin moved => space.is_tree[i] = NULL
  BY <1>3, <1>7 DEF Spaces
<1>12. /\ \A i \in moved : mem'[<<tab, i>>] = mem[space.is_tree[i]]
       /\ \A i \in Indices : i \notin moved => mem'[<<tab, i>>] = mem[<<tab, i>>]
       /\ \A e \in Ites : mem'[e] = mem[e]
       /\ mem' \in [Locs -> Entries]
  <2>1. \A i \in moved : <<tab, i>> \in Locs /\ <<tab, i>> \in {tab} \X moved /\ <<tab, i>>[2] = i
    BY <1>11, LocFacts
  <2>2. \A i \in Indices : i \notin moved =>
          <<tab, i>> \in Locs /\ <<tab, i>> \notin {tab} \X moved
    BY LocFacts
  <2>3. \A e \in Ites : e \in Locs /\ e \notin {tab} \X moved
    BY <1>11, LocFacts
  <2>4. \A l \in Locs : mem'[l] \in Entries
    <3> TAKE l \in Locs
    <3>1. CASE l \in {tab} \X moved
      <4>1. l[2] \in moved
        BY <3>1
      <4>2. mem[space.is_tree[l[2]]] \in Entries
        BY <1>11, <4>1, LocFacts DEF Typed
      <4> QED
        BY <1>1, <3>1, <4>2
    <3>2. CASE l \notin {tab} \X moved
      BY <1>1, <3>2 DEF Typed
    <3> QED
      BY <3>1, <3>2
  <2> QED
    BY <1>1, <2>1, <2>2, <2>3, <2>4
<1>13. \A i \in Indices : lo <= i /\ i < hi => mem[<<tab, i>>] = Empty(i)
  BY <1>1, <1>3, <1>10 DEF MapInv, Cleared, Empty
<1>14. TableInv'
  <2>1. \A v \in Workers : W'[v].pc # "g_alloc"
    BY <1>3, <1>4
  <2>2. \A v \in Workers : W'[v].pc = "g_free" => W'[v].tab \in Blocks /\ W'[v].tab < Home'
    <3> TAKE v \in Workers
    <3>1. CASE v = w
      BY <1>3, <1>4, <1>10, <3>1
    <3>2. CASE v # w
      BY <1>3, <1>4, <1>10, <3>2
    <3> QED
      BY <3>1, <3>2
  <2>3. space.is_table_size = hi
    BY <1>1, <1>3 DEF MapInv, TableInv
  <2>4. space'.is_seq % 2 = 0
    BY <1>3, <1>8
  <2> QED
    BY <1>6, <1>8, <2>1, <2>2, <2>3, <2>4 DEF TableInv, TablePcs
<1>15. \A p \in Ports : Id(p)' = Id(p)
  BY <1>1 DEF Id
<1>16. \A i \in Indices : \A e : EntryOK(i, e) => EntryOK(i, e)'
  <2> SUFFICES ASSUME NEW i \in Indices, NEW e, EntryOK(i, e) PROVE EntryOK(i, e)'
    OBVIOUS
  <2>1. i < Limit => i < Limit'
    BY <1>9, <1>10
  <2>2. rights' = rights /\ ~Busy(i) /\ ~Busy(i)'
    BY <1>1, <1>6
  <2> QED
    BY <1>15, <2>1, <2>2 DEF EntryOK
<1>17. EntryInv'
  <2> SUFFICES ASSUME NEW i \in Indices PROVE EntryAt(i)'
    BY DEF EntryInv
  <2>0. EntryAt(i) /\ i \in Nat
    BY <1>9 DEF MapInv, EntryInv
  <2>1. CASE i < lo
    <3>1. i < hi /\ i \notin moved
      BY <1>9, <1>11, <2>0, <2>1
    <3>2. Where(i) = <<tab, i>> /\ Where(i)' = <<tab, i>> /\ <<tab, i>> # NULL
      BY <1>10, <2>1, <3>1, LocFacts DEF Where
    <3>3. mem'[<<tab, i>>] = mem[<<tab, i>>] /\ space'.is_tree[i] = space.is_tree[i]
      BY <1>8, <1>12, <3>1
    <3>4. EntryOK(i, mem[<<tab, i>>]) /\ space.is_tree[i] = NULL
      BY <1>10, <2>0, <2>1, <3>2 DEF EntryAt
    <3> PICK e : e = mem[<<tab, i>>]
      OBVIOUS
    <3>5. EntryOK(i, e)'
      BY <1>16, <3>4
    <3> QED
      BY <3>2, <3>3, <3>4, <3>5 DEF EntryAt
  <2>2. CASE lo <= i /\ i < hi /\ i \in moved
    <3>1. Where(i) = space.is_tree[i] /\ Where(i)' = <<tab, i>> /\ <<tab, i>> # NULL
          /\ Where(i) # NULL
      BY <1>10, <1>11, <2>0, <2>2, LocFacts DEF Where
    <3> PICK e : e = mem[Where(i)]
      OBVIOUS
    <3>2. EntryOK(i, e)'
      BY <1>16, <2>0, <3>1 DEF EntryAt
    <3>3. mem'[<<tab, i>>] = e /\ space'.is_tree[i] = NULL
      BY <1>8, <1>12, <2>2, <3>1
    <3> QED
      BY <3>1, <3>2, <3>3 DEF EntryAt
  <2>3. CASE lo <= i /\ i < hi /\ i \notin moved
    <3>1. Where(i) = NULL /\ Where(i)' = <<tab, i>> /\ <<tab, i>> # NULL
      BY <1>10, <1>11, <2>0, <2>3, LocFacts DEF Where
    <3>2. \A g \in Gens : rights[<<i, g>>] = NULL
      BY <2>0, <3>1 DEF EntryAt
    <3> PICK e : e = Empty(i)
      OBVIOUS
    <3>3. /\ mem'[<<tab, i>>] = e
          /\ e.idx = i /\ e.gen \in Gens /\ e.type = "none" /\ e.obj = NULL
      <4>1. Empty(i) \in Entries
        BY EmptyTyped
      <4> QED
        BY <1>12, <1>13, <2>3, <4>1 DEF Entries, Empty
    <3>4. EntryOK(i, e)'
      <4>1. rights' = rights /\ rights[<<i, e.gen>>] = NULL /\ i < Limit'
        BY <1>1, <1>10, <2>3, <3>2, <3>3
      <4> QED
        BY <3>2, <3>3, <4>1, KindFacts DEF EntryOK
    <3>5. space'.is_tree[i] = NULL
      BY <1>8, <1>11, <2>3
    <3> QED
      BY <3>1, <3>3, <3>4, <3>5 DEF EntryAt
  <2>4. CASE ~(i < hi)
    <3>1. i \notin moved /\ ~(i < lo)
      BY <1>9, <1>11, <2>0, <2>4
    <3>2. space'.is_tree[i] = space.is_tree[i]
      BY <1>8, <3>1
    <3>3. Where(i) = space.is_tree[i] /\ Where(i)' = space.is_tree[i]
      BY <1>10, <2>4, <3>1, <3>2 DEF Where
    <3>4. space.is_tree[i] \in Ites \cup {NULL}
      BY <1>3 DEF Spaces
    <3> PICK e : e = mem[space.is_tree[i]]
      OBVIOUS
    <3>5. Where(i) # NULL => EntryOK(i, e)' /\ mem'[space.is_tree[i]] = e
      BY <1>12, <1>16, <2>0, <3>3, <3>4 DEF EntryAt
    <3>6. Where(i) = NULL => \A g \in Gens : rights'[<<i, g>>] = NULL
      BY <1>1, <2>0 DEF EntryAt
    <3> QED
      BY <1>10, <2>4, <3>3, <3>5, <3>6 DEF EntryAt
  <2> QED
    BY <1>9, <2>0, <2>1, <2>2, <2>3, <2>4
<1>18. FreeList'
  <2>1. /\ {space.free[k] : k \in DOMAIN space.free} = FreeSlots
        /\ \A j, k \in DOMAIN space.free : space.free[j] = space.free[k] => j = k
        /\ space.free \in Seq(Indices)
    BY <1>3 DEF MapInv, FreeList, Spaces
  <2>2. FreeSlots = {i \in Indices : i < lo /\ mem[<<tab, i>>].type = "none"}
    BY <1>1, <1>3, <1>10 DEF FreeSlots
  <2>3. FreeSlots' = {i \in Indices : i < hi /\ mem'[<<tab, i>>].type = "none"}
    BY <1>6, <1>10 DEF FreeSlots
  <2>4. \A i \in Indices : i \in FreeSlots' <=> i \in FreeSlots \/ i \in NewPart(tab) \ moved
    <3> TAKE i \in Indices
    <3>1. i \in NewPart(tab) <=> lo <= i /\ i < hi
      BY <1>7
    <3>2. CASE i < lo
      <4>1. i \notin moved /\ i < hi
        BY <1>9, <1>11, <3>2
      <4> QED
        BY <1>9, <1>12, <2>2, <2>3, <3>1, <3>2, <4>1
    <3>3. CASE lo <= i /\ i < hi /\ i \in moved
      <4>1. Where(i) = space.is_tree[i] /\ Where(i) # NULL /\ ~(i < Limit)
        BY <1>9, <1>10, <1>11, <3>3, LocFacts DEF Where
      <4>2. EntryOK(i, mem[Where(i)])
        BY <4>1 DEF MapInv, EntryInv, EntryAt
      <4>3. mem[Where(i)].type # "none"
        BY <1>6, <4>1, <4>2 DEF EntryOK
      <4> QED
        BY <1>9, <1>12, <2>2, <2>3, <3>3, <4>1, <4>3
    <3>4. CASE lo <= i /\ i < hi /\ i \notin moved
      <4>1. mem'[<<tab, i>>].type = "none"
        <5>1. mem'[<<tab, i>>] = Empty(i)
          BY <1>12, <1>13, <3>4
        <5>2. Empty(i).type = "none"
          BY DEF Empty
        <5> QED
          BY <5>1, <5>2
      <4> QED
        BY <2>3, <3>1, <3>4, <4>1
    <3>5. CASE ~(i < hi)
      BY <1>9, <2>2, <2>3, <3>1, <3>5
    <3> QED
      BY <1>9, <3>2, <3>3, <3>4, <3>5
  <2>5. Lists(space.free, FreeSlots)
    BY <2>1 DEF Lists
  <2>6. \A i \in NewPart(tab) \ moved : i \notin FreeSlots
    BY <1>7, <1>9, <2>2
  <2>7. Lists(space'.free, (NewPart(tab) \ moved) \cup FreeSlots)
    BY <1>7, <1>8, <2>5, <2>6, ListsJoin
  <2>8. (NewPart(tab) \ moved) \cup FreeSlots = FreeSlots'
    BY <1>7, <2>2, <2>3, <2>4
  <2> PICK g, F : g = space'.free /\ F = FreeSlots'
    OBVIOUS
  <2>9. Lists(g, F)
    BY <2>7, <2>8
  <2>10. {g[k] : k \in DOMAIN g} = F /\ \A j, k \in DOMAIN g : g[j] = g[k] => j = k
    BY <2>9 DEF Lists
  <2> QED
    BY <2>10 DEF FreeList
<1>19. \A v \in Workers \ {w} : W'[v].pc \notin WritePcs
  BY <1>3, <1>4, TheWriter DEF Locks, SpaceLock
<1>20. WorkInv'
  BY <1>4, <1>19 DEF WorkInv, WritePcs, NamePcs
<1>21. Cleared'
  BY <1>6 DEF Cleared
<1>22. ReplyLives'
  <2>1. \A v \in Workers : W'[v].pc = "port" => W'[v] = W[v]
    BY <1>4
  <2>2. Id(ReplyPort)' = Id(ReplyPort)
    BY <1>15, PortsAssumption
  <2>3. /\ rights[ReplyName] = Id(ReplyPort) => port[ReplyPort].active
        /\ \A v \in Workers : W[v].pc = "port" /\ W[v].port = ReplyPort
             => rights[ReplyName] # Id(ReplyPort)
    BY DEF MapInv, ReplyLives
  <2> QED
    BY <1>1, <2>1, <2>2, <2>3 DEF ReplyLives
<1>23. MapInv'
  BY <1>14, <1>17, <1>18, <1>20, <1>21, <1>22 DEF MapInv
<1>24. PortsBy(w) /\ \A p \in Ports : port'[p].owner # w
  BY <1>1, HoldsNone DEF WithPort
<1>25. WorkerOK(w)'
  BY <1>4, <1>24 DEF WorkerOK, OpAt, WithPort, TablePcs
<1>26. WorkerMove(w)
  <2>1. W'[w].pc \notin WritePcs /\ lock'.writer # w
    BY <1>4, <1>5, KindFacts DEF WritePcs, NamePcs, TablePcs
  <2>2. space'.is_seq >= space.is_seq /\ space'.is_table >= space.is_table
        /\ space'.is_seq # space.is_seq
    BY <1>3, <1>8
  <2> QED
    BY <1>1, <1>3, <1>4, <1>5, <1>8, <1>12, <1>24, <2>1, <2>2
       DEF WorkerMove, NoSender, Typed
<1> QED
  BY <1>23, <1>25, <1>26, WorkerMoveKeeps

-----------------------------------------------------------------------------
(* The invariant of the specification. *)

-----------------------------------------------------------------------------
(* Another space takes a tree entry that is in nobody's tree. *)

LEMMA IteReusedKeeps ==
  ASSUME Typed, Locks, MapInv, LookInv, NEW e \in Ites, IteReused(e)
  PROVE  Typed' /\ Locks' /\ MapInv' /\ LookInv'
<1>1. UNCHANGED <<space, lock, port, W, rights, S, cache>> /\ Observe /\ FreeIte(e)
  BY DEF IteReused, NoSender
<1>2. PICK i \in Indices, p \in Aliens : mem' = [mem EXCEPT ![e] = Pooled(i, p)]
  BY DEF IteReused
<1>3. mem' \in [Locs -> Entries] /\ \A l \in Locs \ {e} : mem'[l] = mem[l]
  <2>1. Pooled(i, p) \in Entries
    BY NameFacts DEF Pooled, Entries, Types, Aliens
  <2> QED
    BY <1>2, <2>1 DEF Typed
<1>4. \A j \in Indices : Where(j) # NULL => mem'[Where(j)] = mem[Where(j)]
  <2> SUFFICES ASSUME NEW j \in Indices, Where(j) # NULL PROVE mem'[Where(j)] = mem[Where(j)]
    OBVIOUS
  <2>1. Where(j) \in Locs
    BY WhereFacts DEF MapInv
  <2>2. Where(j) # e
    <3>1. Where(j) \in Blocks \X Indices \/ Where(j) = space.is_tree[j]
      BY WhereFacts DEF MapInv, Where
    <3> QED
      BY <1>1, <3>1, LocFacts, KindFacts, KindsAssumption DEF FreeIte
  <2> QED
    BY <1>3, <2>1, <2>2
<1>5. \A k \in Blocks, j \in Indices : mem'[<<k, j>>] = mem[<<k, j>>]
  <2> TAKE k \in Blocks, j \in Indices
  <2> PICK l : l = <<k, j>>
    OBVIOUS
  <2>1. l \in Locs /\ l # e
    BY LocFacts
  <2> QED
    BY <1>3, <2>1
<1>6. Home \in Blocks /\ space.is_table \in Blocks
  BY WhereFacts DEF MapInv, Typed, Spaces
<1>7. /\ Phase' = Phase /\ Home' = Home /\ Limit' = Limit
      /\ \A j : Busy(j)' = Busy(j) /\ Where(j)' = Where(j)
      /\ \A q : Id(q)' = Id(q)
  BY <1>1 DEF Phase, Home, Limit, Busy, Where, Id
<1>8. Typed'
  <2>1. look' \in [Senders -> SUBSET BOOLEAN]
    BY <1>1, ObserveTyped DEF Typed
  <2> QED
    BY <1>1, <1>3, <2>1 DEF Typed
<1>9. Locks'
  BY <1>1 DEF Locks, SpaceLock, SenderPorts, SenderOK, WorkerPorts, WorkerOK
<1>10. MapInv'
  <2>1. TableInv' /\ ReplyLives'
    BY <1>1, <1>7 DEF MapInv, TableInv, ReplyLives
  <2>2. EntryInv'
    <3> SUFFICES ASSUME NEW j \in Indices PROVE EntryAt(j)'
      BY DEF EntryInv
    <3>1. EntryAt(j)
      BY DEF MapInv, EntryInv
    <3>2. \A x : EntryOK(j, x)' <=> EntryOK(j, x)
      BY <1>1, <1>7 DEF EntryOK
    <3> QED
      BY <1>1, <1>4, <1>7, <3>1, <3>2 DEF EntryAt
  <2>3. WorkInv'
    <3> SUFFICES ASSUME NEW w \in Workers, W[w].pc \in NamePcs PROVE WorkOK(w)'
      BY <1>1 DEF WorkInv
    <3>1. WorkOK(w) /\ W'[w] = W[w]
      BY <1>1 DEF MapInv, WorkInv
    <3>2. mem'[W[w].loc] = mem[W[w].loc]
      BY <1>4, <3>1, NameFacts, LocFacts DEF WorkOK
    <3> QED
      BY <1>1, <1>7, <3>1, <3>2 DEF WorkOK
  <2>4. FreeList'
    <3>1. FreeSlots' = FreeSlots
      BY <1>5, <1>6, <1>7 DEF FreeSlots
    <3> QED
      BY <1>1, <3>1 DEF MapInv, FreeList
  <2>5. Cleared'
    BY <1>1, <1>5, <1>6, <1>7 DEF MapInv, Cleared
  <2> QED
    BY <2>1, <2>2, <2>3, <2>4, <2>5 DEF MapInv
<1>11. LookInv'
  <2> SUFFICES ASSUME NEW u \in Senders PROVE LookOK(u)'
    BY DEF LookInv
  <2>1. S[u].pc \in Looking => look[u] \subseteq look'[u]
    <3> SUFFICES ASSUME S[u].pc \in Looking PROVE look[u] \subseteq look'[u]
      OBVIOUS
    <3>1. S'[u].pc \in Looking /\ S[u].pc \notin {"snap_seq", "obj"}
      BY <1>1 DEF Looking
    <3> QED
      BY <1>1, <3>1, ObserveAt
  <2>2. LookOK(u)
    BY DEF LookInv
  <2> QED
    BY <1>1, <2>1, <2>2 DEF LookOK, Looking
<1> QED
  BY <1>8, <1>9, <1>10, <1>11

-----------------------------------------------------------------------------
(* All the steps. *)

LEMMA WorkerKeeps ==
  ASSUME Typed, Locks, MapInv, LookInv, NEW w \in Workers,
         WorkerStep(w) \/ WorkerStart(w)
  PROVE  Typed' /\ Locks' /\ MapInv' /\ LookInv'
<1>1. CASE WorkerStep(w)
  BY <1>1, RemoveLockKeeps, CheckDeadKeeps, RemoveObjectKeeps, DestroyFreeKeeps,
     DestroyPortKeeps, MoveBitsKeeps, MoveBumpKeeps, CopyoutObjectKeeps,
     CopyoutBitsKeeps, GrowOpenKeeps, GrowFailsKeeps, GrowPublishKeeps,
     GrowCopyKeeps, GrowMoveKeeps, GrowFreeKeeps DEF WorkerStep
<1>2. CASE WorkerStart(w)
  <2>1. ASSUME NEW n \in Names, NEW op \in {"destroy", "move", "check"},
               RemoveLookup(w, n, op)
        PROVE  Typed' /\ Locks' /\ MapInv' /\ LookInv'
    BY <2>1, RemoveLookupKeeps
  <2>2. ASSUME NEW p \in Ports \ {ReplyPort}, CopyoutGet(w, p)
        PROVE  Typed' /\ Locks' /\ MapInv' /\ LookInv'
    BY <2>2, CopyoutGetKeeps
  <2>3. ASSUME NEW p \in Ports \ {ReplyPort}, NEW n \in ChosenNames, CopyoutName(w, p, n)
        PROVE  Typed' /\ Locks' /\ MapInv' /\ LookInv'
    BY <2>3, CopyoutNameKeeps
  <2> QED
    BY <1>2, <2>1, <2>2, <2>3, GrowStartKeeps DEF WorkerStart
<1> QED
  BY <1>1, <1>2

\* What holds at every moment.
Inv == Typed /\ Locks /\ MapInv /\ LookInv

LEMMA StutterKeeps ==
  ASSUME Inv, UNCHANGED vars
  PROVE  Inv'
<1>1. /\ mem' = mem /\ space' = space /\ lock' = lock /\ port' = port /\ S' = S
      /\ cache' = cache /\ W' = W /\ rights' = rights /\ look' = look
  BY DEF vars
<1>2. Typed'
  BY <1>1 DEF Inv, Typed
<1>3. Locks'
  BY <1>1 DEF Inv, Locks, SpaceLock, SenderPorts, SenderOK, WorkerPorts, WorkerOK
<1>4. /\ Phase' = Phase /\ Home' = Home /\ Limit' = Limit
      /\ \A i : Busy(i)' = Busy(i) /\ Where(i)' = Where(i)
      /\ \A p : Id(p)' = Id(p)
  BY <1>1 DEF Phase, Home, Limit, Busy, Where, Id
<1>5. TableInv' /\ FreeList' /\ Cleared' /\ ReplyLives'
  BY <1>1, <1>4 DEF Inv, MapInv, TableInv, FreeList, FreeSlots, Cleared, ReplyLives
<1>6. EntryInv'
  BY <1>1, <1>4 DEF Inv, MapInv, EntryInv, EntryAt, EntryOK
<1>7. WorkInv'
  BY <1>1, <1>4 DEF Inv, MapInv, WorkInv, WorkOK
<1>8. LookInv'
  BY <1>1 DEF Inv, LookInv, LookOK
<1> QED
  BY <1>2, <1>3, <1>5, <1>6, <1>7, <1>8 DEF Inv, MapInv

LEMMA Invariant == Spec => []Inv
<1>1. Init => Inv
  BY InitTyped, InitLocks, InitMap, InitSenders DEF Inv
<1>2. Inv /\ [Next]_vars => Inv'
  <2> SUFFICES ASSUME Inv, [Next]_vars PROVE Inv'
    OBVIOUS
  <2>1. ASSUME NEW w \in Workers, WorkerStep(w) \/ WorkerStart(w) PROVE Inv'
    BY <2>1, WorkerKeeps DEF Inv
  <2>2. ASSUME NEW t \in Senders, SenderStep(t) \/ \E d \in Dests : ProbeCache(t, d)
        PROVE  Inv'
    BY <2>2, SenderKeeps DEF Inv
  <2>3. ASSUME NEW p \in Ports, PortDies(p) PROVE Inv'
    BY <2>3, PortDiesKeeps DEF Inv
  <2>4. ASSUME NEW e \in Ites, IteReused(e) PROVE Inv'
    BY <2>4, IteReusedKeeps DEF Inv
  <2>5. CASE UNCHANGED vars
    BY <2>5, StutterKeeps
  <2> QED
    BY <2>1, <2>2, <2>3, <2>4, <2>5 DEF Next
<1> QED
  BY <1>1, <1>2, PTL DEF Spec

-----------------------------------------------------------------------------
(* Theorems. *)

LEMMA TypedMeans == ASSUME Inv PROVE TypeOK
<1>1. space \in Spaces /\ Typed /\ TableInv
  BY DEF Inv, Typed, MapInv
<1>2. \E k \in Blocks : space.is_table_size = SIZES[k]
  <2>1. space.is_table \in Blocks
    BY <1>1 DEF Spaces
  <2>2. space.is_table > 1 => space.is_table - 1 \in Blocks
    BY <2>1, Sizes DEF Blocks
  <2> QED
    BY <1>1, <2>1, <2>2 DEF TableInv
<1>3. /\ space.is_tree \in [Indices -> Ites \cup {NULL}]
      /\ space.is_table \in Blocks /\ space.is_seq \in Nat /\ space.is_generation \in Nat
      /\ space.is_growing \in BOOLEAN /\ space.free \in Seq(Indices)
  BY <1>1 DEF Spaces
<1>4. \A t \in Senders :
       /\ S[t].which \in {"reply", "dest"} /\ S[t].dest \in Names \cup {NULL}
       /\ S[t].rp \in Ports \cup {NULL} /\ S[t].dp \in Ports \cup {NULL}
       /\ S[t].ent \in Locs \cup {NULL} /\ S[t].tries \in 0 .. MAX_TRIES
  BY <1>1 DEF Typed, SenderLocals
<1>5. \A w \in Workers :
       /\ W[w].loc \in Locs \cup {NULL} /\ W[w].port \in Ports \cup {NULL}
  BY <1>1 DEF Typed, WorkerLocals
<1>6. port \in [Ports -> [active : BOOLEAN, inc : 0 .. MAX_REBIRTH,
                          owner : Workers \cup Senders \cup {NULL}]]
  BY <1>1 DEF Typed, PortStates
<1>7. /\ mem \in [Locs -> Entries] /\ rights \in [Names -> PortIds \cup {DEAD, NULL}]
      /\ lock \in [writer : Workers \cup {NULL}, readers : SUBSET Senders]
  BY <1>1 DEF Typed
<1> QED
  BY <1>2, <1>3, <1>4, <1>5, <1>6, <1>7 DEF TypeOK

\* The entries, the radix overflow, the locks and the locals of every thread
\* stay in their types, however often the table grows.
THEOREM TypeCorrect == Spec => []TypeOK
  BY Invariant, TypedMeans, PTL

\* No path of mach_msg_overwrite_trap leaves with a lock: a sender owns a port
\* only inside a copyin for it and reads the space only while it looks names up.
THEOREM NoLockIsLeft == Spec => []NoLockLeft
<1>1. Inv => NoLockLeft
  BY DEF Inv, Locks, SpaceLock, SenderPorts, SenderOK, NoLockLeft, OneHeld, TwoHeld, Reading
<1> QED
  BY <1>1, Invariant, PTL

LEMMA LookMeans == ASSUME Inv PROVE LookupSound
<1>1. InBounds
  <2> SUFFICES ASSUME NEW t \in Senders, S[t].pc = "l_entry",
                      Index(Target(S[t])) < S[t].size
               PROVE  Index(Target(S[t])) < SIZES[S[t].tab]
    BY DEF InBounds
  <2>1. S[t].size <= SIZES[S[t].tab]
    BY DEF Inv, LookInv, LookOK
  <2>2. S[t].size \in Nat /\ S[t].tab \in Blocks
    BY DEF Inv, Typed, SenderLocals
  <2>3. SIZES[S[t].tab] \in Nat
    BY <2>2, Sizes
  <2>4. Target(S[t]) \in Names
    <3>1. S[t].dest \in Names
      BY NamesAssumption DEF Inv, Locks, SenderPorts, SenderOK
    <3> QED
      BY <3>1, NameFacts DEF Target
  <2>5. Index(Target(S[t])) \in Nat
    BY <2>4, NameFacts, IndexFacts
  <2> QED
    BY <2>1, <2>2, <2>3, <2>5
<1>2. LookupLinearizable
  BY DEF Inv, LookInv, LookOK, LookupLinearizable
<1> QED
  BY <1>1, <1>2 DEF LookupSound

\* ipc_entry_lookup_lockfree reads inside the block it holds and answers for a
\* moment while it ran, for any number of growths and removals meanwhile.
THEOREM LookupIsSound == Spec => []LookupSound
  BY Invariant, LookMeans, PTL

LEMMA MapMeans == ASSUME Inv PROVE MapIntact
<1> SUFFICES ASSUME lock.writer = NULL
             PROVE  /\ \A n \in Names :
                         LET l == ipc_entry_lookup(n)
                         IN  rights[n] = IF l = NULL THEN NULL
                                         ELSE IF Type(l) = "dead" THEN DEAD
                                         ELSE Id(mem[l].obj)
                    /\ {space.free[k] : k \in DOMAIN space.free}
                         = {i \in Indices : i < space.is_table_size
                                              /\ Type(<<space.is_table, i>>) = "none"}
                    /\ \A j, k \in DOMAIN space.free :
                         space.free[j] = space.free[k] => j = k
  BY DEF MapIntact
<1>1. Typed /\ Locks /\ MapInv /\ TableInv /\ EntryInv
  BY DEF Inv, MapInv
<1>2. Phase = "idle" /\ Phase \notin TablePcs /\ \A i : ~Busy(i)
  BY <1>1, NoWriter
<1>3. Home = space.is_table /\ Limit = space.is_table_size
  BY <1>1, <1>2 DEF Home, Limit, TableInv
<1>4. ASSUME NEW n \in Names, NEW l, l = ipc_entry_lookup(n)
      PROVE  rights[n] = IF l = NULL THEN NULL
                         ELSE IF Type(l) = "dead" THEN DEAD ELSE Id(mem[l].obj)
  <2>0. Index(n) \in Indices /\ Gen(n) \in Gens /\ n = <<Index(n), Gen(n)>>
    BY NameFacts
  <2> PICK k : k = Where(Index(n))
    OBVIOUS
  <2>1. l = IF Matches(n, k) THEN k ELSE NULL
    BY <1>3, <1>4 DEF ipc_entry_lookup, Slot, Where
  <2>2. CASE ~Matches(n, k)
    BY <1>1, <2>1, <2>2, MatchMeans
  <2>3. CASE Matches(n, k)
    <3>1. l = k /\ l # NULL /\ mem[l].gen = Gen(n)
      BY <2>1, <2>3 DEF Matches
    <3>2. EntryOK(Index(n), mem[l])
      BY <1>1, <2>0, <3>1 DEF EntryInv, EntryAt
    <3>3. l \in Locs /\ mem[l] \in Entries /\ mem[l].type \in Types
      <4>1. l \in Locs
        BY <1>1, <2>0, <3>1, WhereFacts
      <4> QED
        BY <1>1, <4>1 DEF Typed, Entries
    <3>4. CASE Type(l) = "none"
      <4>1. Index(n) < Limit
        BY <1>2, <3>2, <3>4 DEF EntryOK, Type
      <4>2. l \notin Ites
        BY <1>1, <2>0, <3>1, <4>1, WhereFacts, LocFacts
      <4> QED
        BY <2>3, <3>1, <3>4, <4>2 DEF Matches
    <3>5. CASE Type(l) = "dead"
      BY <2>0, <3>1, <3>2, <3>5 DEF EntryOK, Type
    <3>6. CASE Type(l) \in {"send", "receive"}
      <4>1. PICK p \in Ports : rights[n] = Id(p) /\ mem[l].obj \in {p, NULL}
        BY <2>0, <3>1, <3>2, <3>6 DEF EntryOK, Type
      <4>2. mem[l].obj # NULL
        BY <1>2, <3>2, <3>6 DEF EntryOK, Type
      <4> QED
        BY <3>1, <3>6, <4>1, <4>2
    <3> QED
      BY <3>3, <3>4, <3>5, <3>6 DEF Types, Type
  <2> QED
    BY <2>2, <2>3
<1>5. FreeSlots = {i \in Indices : i < space.is_table_size
                                     /\ Type(<<space.is_table, i>>) = "none"}
  BY <1>2, <1>3 DEF FreeSlots, Type
<1> QED
  BY <1>1, <1>4, <1>5 DEF MapInv, FreeList

\* Whenever the space is unlocked, every name is found exactly when it is in
\* use, with the right it denotes, and the free list names each unused slot of
\* the table once: no removal, copyout or growth loses or doubles an entry.
THEOREM MapStaysIntact == Spec => []MapIntact
  BY Invariant, MapMeans, PTL

-----------------------------------------------------------------------------
(* Resolving: what the steps of the workers do to what a resolver knows. *)

\* The table stays while is_seq stands at an even number.
TableStays ==
  space'.is_seq = space.is_seq /\ space.is_seq % 2 = 0 => space'.is_table = space.is_table

\* Rights as they are while no removal shows: only those to dead ports change.
Lasting ==
  \A n \in Names :
    \/ rights'[n] = rights[n] \/ rights[n] = NULL
    \/ rights'[n] # NULL /\ \E p \in Ports : rights[n] = Id(p) /\ ~port[p].active

\* What becomes of the rights: a right goes away under the lock of its port or
\* after its port died, and unless a removal shows in the generation they last.
Effect(w) ==
  /\ space'.is_generation >= space.is_generation /\ space'.is_seq >= space.is_seq
  /\ TableStays
  /\ \A p \in Ports : Id(p)' = Id(p) /\ (port'[p].active => port[p].active)
  /\ lock.readers # {} => rights' = rights
  /\ \A n \in Names :
       \/ rights'[n] = rights[n] \/ rights[n] \in {NULL, DEAD}
       \/ \E p \in Ports : rights[n] = Id(p) /\ (~port[p].active \/ port[p].owner = w)
  /\ space'.is_generation = space.is_generation =>
       /\ NoDestroy => NoDestroy'
       /\ NoBump' => NoBump
  /\ space'.is_generation = space.is_generation /\ NoDestroy /\ NoBump' => Lasting

\* A worker's removal is half done after the step only if it was before.
LEMMA FlagsKept ==
  ASSUME NEW w \in Workers, \A v \in Workers \ {w} : W'[v] = W[v],
         W'[w].op = "destroy" /\ W'[w].pc # "port" => W[w].op = "destroy" /\ W[w].pc # "port",
         W[w].pc = "bump" => W'[w].pc = "bump"
  PROVE  (NoDestroy => NoDestroy') /\ (NoBump' => NoBump)
<1>1. NoDestroy => NoDestroy'
  BY DEF NoDestroy
<1>2. NoBump' => NoBump
  BY DEF NoBump
<1> QED
  BY <1>1, <1>2

\* Outside a growth.
LEMMA SteadyBoth ==
  ASSUME Inv, Inv', space'.is_seq = space.is_seq, space.is_seq % 2 = 0,
         space'.is_table = space.is_table
  PROVE  /\ Limit' = Limit /\ Home' = Home /\ Limit \in Nat /\ Limit >= SIZES[1]
         /\ \A i \in Indices : i < Limit => Where(i)' = <<Home, i>> /\ Where(i) = <<Home, i>>
<1>1. Phase \notin TablePcs /\ Phase' \notin TablePcs
  <2>1. /\ space.is_seq % 2 = IF Phase \in TablePcs THEN 1 ELSE 0
        /\ space'.is_seq % 2 = IF Phase' \in TablePcs THEN 1 ELSE 0
    BY DEF Inv, MapInv, TableInv
  <2> QED
    BY <2>1
<1>2. Home = space.is_table /\ Home' = space'.is_table
  BY <1>1 DEF Home, TablePcs
<1>3. Limit = SIZES[space.is_table] /\ Limit' = SIZES[space'.is_table]
  BY <1>1 DEF Limit, TablePcs
<1>4. space.is_table \in Blocks
  BY DEF Inv, Typed, Spaces
<1>5. Limit \in Nat /\ Limit >= SIZES[1]
  BY <1>3, <1>4, Sizes
<1>6. Limit' = Limit /\ Home' = Home
  BY <1>2, <1>3
<1> QED
  BY <1>5, <1>6 DEF Where

\* A step that changes no right.
LEMMA EffectQuiet ==
  ASSUME NEW w \in Workers, NoSender, rights' = rights,
         space'.is_generation >= space.is_generation, space'.is_seq >= space.is_seq,
         \A p \in Ports : Id(p)' = Id(p) /\ (port'[p].active => port[p].active),
         space'.is_generation = space.is_generation =>
           (NoDestroy => NoDestroy') /\ (NoBump' => NoBump),
         TableStays
  PROVE  Effect(w)
  BY DEF Effect, Lasting

\* The same for a step that leaves the space, apart from its counters.
LEMMA EffectLocal ==
  ASSUME Inv, Inv', NEW w \in Workers, NoSender, rights' = rights,
         space'.is_generation >= space.is_generation, space'.is_seq >= space.is_seq,
         \A p \in Ports : Id(p)' = Id(p) /\ (port'[p].active => port[p].active),
         \A v \in Workers \ {w} : W'[v] = W[v],
         space'.is_generation = space.is_generation =>
           /\ W'[w].op = "destroy" /\ W'[w].pc # "port"
                => W[w].op = "destroy" /\ W[w].pc # "port"
           /\ W[w].pc = "bump" => W'[w].pc = "bump",
         space'.is_seq = space.is_seq /\ space.is_seq % 2 = 0 =>
           space'.is_table = space.is_table
  PROVE  Effect(w)
<1>1. space'.is_generation = space.is_generation =>
        (NoDestroy => NoDestroy') /\ (NoBump' => NoBump)
  BY FlagsKept
<1> QED
  BY <1>1, EffectQuiet DEF TableStays

\* Ports that stay.
LEMMA PortsStay ==
  ASSUME port' = port
  PROVE  \A p \in Ports : Id(p)' = Id(p) /\ (port'[p].active => port[p].active)
  BY DEF Id

LEMMA SpaceNumbers ==
  ASSUME Inv
  PROVE  space.is_seq \in Nat /\ space.is_generation \in Nat /\ space.is_table \in Nat
         /\ space \in Spaces
<1>1. space \in Spaces
  BY DEF Inv, Typed
<1>2. space.is_table \in Blocks /\ space.is_seq \in Nat /\ space.is_generation \in Nat
  BY <1>1 DEF Spaces
<1> QED
  BY <1>1, <1>2, Sizes

LEMMA RemoveLookupEffect ==
  ASSUME Inv, Inv', NEW w \in Workers, NEW n \in Names,
         NEW op \in {"destroy", "move", "check"}, RemoveLookup(w, n, op)
  PROVE  Effect(w)
<1> PICK l : l = ipc_entry_lookup(n)
  OBVIOUS
<1> PICK pc : pc = IF Type(l) = "dead" THEN "free" ELSE "lock"
  OBVIOUS
<1>1. /\ NoSender /\ rights' = rights /\ mem' = mem /\ port' = port
      /\ Begin(w, pc, op, n, l, mem[l].obj)
      /\ space' = [space EXCEPT !.is_generation = IF op = "destroy" THEN @ + 1 ELSE @]
  BY DEF RemoveLookup
<1>2. space.is_seq \in Nat /\ space.is_generation \in Nat /\ space \in Spaces
  BY SpaceNumbers
<1>3. /\ space'.is_seq = space.is_seq /\ space'.is_table = space.is_table
      /\ space'.is_tree = space.is_tree
      /\ space'.is_generation = IF op = "destroy" THEN space.is_generation + 1
                                ELSE space.is_generation
  BY <1>1, <1>2 DEF Spaces
<1>4. /\ \A v \in Workers \ {w} : W'[v] = W[v]
      /\ W'[w].op = op /\ W[w].pc = "idle"
  BY <1>1 DEF Begin, Inv, Typed
<1>5. space'.is_generation >= space.is_generation
      /\ (space'.is_generation = space.is_generation => op # "destroy")
  BY <1>2, <1>3
<1>6. space'.is_seq >= space.is_seq
  BY <1>2, <1>3
<1> QED
  BY <1>1, <1>3, <1>4, <1>5, <1>6, PortsStay, EffectLocal

LEMMA RemoveLockEffect ==
  ASSUME Inv, Inv', NEW w \in Workers, RemoveLock(w)
  PROVE  Effect(w)
<1>1. /\ NoSender /\ rights' = rights /\ mem' = mem /\ space' = space /\ W[w].pc = "lock"
  BY DEF RemoveLock, At
<1>2. space.is_seq \in Nat /\ space.is_generation \in Nat
  BY SpaceNumbers
<1>3. W[w].op \in {"destroy", "move", "check"} /\ W[w].port \in Ports /\ Typed
  BY <1>1 DEF Inv, Locks, WorkerPorts, WorkerOK, OpAt, TablePcs
<1> PICK p \in Ports : p = W[w].port
  BY <1>3
<1>4. \/ W' = [W EXCEPT ![w] = IdleWorker]
      \/ W' = [W EXCEPT ![w].pc = "obj"]
      \/ W' = [W EXCEPT ![w].port = NULL,
                        ![w].pc = IF W[w].op = "destroy" THEN "obj" ELSE "dead"]
  BY DEF RemoveLock, Finish, Goto
<1>5. \A v \in Workers \ {w} : W'[v] = W[v]
  BY <1>3, <1>4 DEF Typed
<1>6. W'[w].op = "destroy" => W[w].op = "destroy"
  BY <1>3, <1>4 DEF Typed, WorkerLocals, IdleWorker
<1>7. port' = port \/ port' = [port EXCEPT ![p].owner = w]
  BY DEF RemoveLock
<1>8. \A q \in Ports : Id(q)' = Id(q) /\ (port'[q].active => port[q].active)
  BY <1>3, <1>7 DEF Typed, PortStates, Id
<1> QED
  BY <1>1, <1>2, <1>5, <1>6, <1>8, EffectLocal

LEMMA RemoveObjectEffect ==
  ASSUME Inv, Inv', NEW w \in Workers, RemoveObject(w)
  PROVE  Effect(w)
<1>1. /\ NoSender /\ rights' = rights /\ space' = space /\ port' = port /\ W[w].pc = "obj"
  BY DEF RemoveObject, At
<1>2. space.is_seq \in Nat /\ space.is_generation \in Nat /\ Typed
  BY SpaceNumbers DEF Inv
<1>3. \/ W' = [W EXCEPT ![w] = IdleWorker]
      \/ \E pc : W' = [W EXCEPT ![w].pc = pc]
  BY DEF RemoveObject, Finish, Goto
<1>4. \A v \in Workers \ {w} : W'[v] = W[v]
  BY <1>2, <1>3 DEF Typed
<1>5. W'[w].op = "destroy" => W[w].op = "destroy"
  BY <1>2, <1>3 DEF Typed, WorkerLocals, IdleWorker
<1> QED
  BY <1>1, <1>2, <1>4, <1>5, PortsStay, EffectLocal

LEMMA DestroyPortEffect ==
  ASSUME Inv, Inv', NEW w \in Workers, DestroyPort(w)
  PROVE  Effect(w)
<1>1. /\ NoSender /\ rights' = rights /\ space' = space /\ mem' = mem /\ W[w].pc = "port"
      /\ W' = [W EXCEPT ![w] = IdleWorker]
      /\ port' = [port EXCEPT ![W[w].port].owner = NULL,
                              ![W[w].port].active = @ /\ W[w].port # ReplyPort]
  BY DEF DestroyPort, At, Finish
<1>2. space.is_seq \in Nat /\ space.is_generation \in Nat /\ Typed
  BY SpaceNumbers DEF Inv
<1>3. (\A v \in Workers \ {w} : W'[v] = W[v]) /\ W'[w].op = "none"
  BY <1>1, <1>2 DEF Typed, IdleWorker
<1>4. \A q \in Ports : Id(q)' = Id(q) /\ (port'[q].active => port[q].active)
  <2> SUFFICES ASSUME NEW q \in Ports
               PROVE  port'[q].inc = port[q].inc /\ (port'[q].active => port[q].active)
    BY DEF Id
  <2>1. port[q] \in PortStates
    BY <1>2 DEF Typed
  <2>2. \/ port'[q] = port[q]
        \/ port'[q] = [port[q] EXCEPT !.owner = NULL, !.active = @ /\ q # ReplyPort]
    BY <1>1, <1>2 DEF Typed
  <2> QED
    BY <2>1, <2>2 DEF PortStates
<1>5. /\ NoSender /\ rights' = rights /\ space' = space /\ mem' = mem /\ W[w].pc = "port"
      /\ space'.is_generation >= space.is_generation /\ space'.is_seq >= space.is_seq
  BY <1>1, <1>2
<1> QED
  BY <1>3, <1>4, <1>5, EffectLocal

LEMMA GrowStartEffect ==
  ASSUME Inv, Inv', NEW w \in Workers, GrowStart(w)
  PROVE  Effect(w)
<1>1. /\ NoSender /\ rights' = rights /\ mem' = mem /\ port' = port
      /\ Begin(w, "g_alloc", "grow", NULL, NULL, NULL)
      /\ space' = [space EXCEPT !.is_growing = TRUE]
  BY DEF GrowStart
<1>2. space.is_seq \in Nat /\ space.is_generation \in Nat /\ space \in Spaces /\ Typed
  BY SpaceNumbers DEF Inv
<1>3. /\ space'.is_seq = space.is_seq /\ space'.is_table = space.is_table
      /\ space'.is_tree = space.is_tree /\ space'.is_generation = space.is_generation
  BY <1>1, <1>2 DEF Spaces
<1>4. (\A v \in Workers \ {w} : W'[v] = W[v]) /\ W'[w].op = "grow" /\ W[w].pc = "idle"
  BY <1>1, <1>2 DEF Begin, Typed
<1>5. space'.is_generation >= space.is_generation /\ space'.is_seq >= space.is_seq
  BY <1>2, <1>3
<1> QED
  BY <1>1, <1>3, <1>4, <1>5, PortsStay, EffectLocal

LEMMA GrowFailsEffect ==
  ASSUME Inv, Inv', NEW w \in Workers, GrowFails(w)
  PROVE  Effect(w)
<1>1. /\ NoSender /\ rights' = rights /\ mem' = mem /\ port' = port /\ W[w].pc = "g_alloc"
      /\ W' = [W EXCEPT ![w] = IdleWorker]
      /\ space' = [space EXCEPT !.is_growing = FALSE]
  BY DEF GrowFails, At, Finish
<1>2. space.is_seq \in Nat /\ space.is_generation \in Nat /\ space \in Spaces /\ Typed
  BY SpaceNumbers DEF Inv
<1>3. /\ space'.is_seq = space.is_seq /\ space'.is_table = space.is_table
      /\ space'.is_tree = space.is_tree /\ space'.is_generation = space.is_generation
  BY <1>1, <1>2 DEF Spaces
<1>4. (\A v \in Workers \ {w} : W'[v] = W[v]) /\ W'[w].op = "none"
  BY <1>1, <1>2 DEF IdleWorker, Typed
<1>5. space'.is_generation >= space.is_generation /\ space'.is_seq >= space.is_seq
  BY <1>2, <1>3
<1> QED
  BY <1>1, <1>3, <1>4, <1>5, PortsStay, EffectLocal

LEMMA GrowFreeEffect ==
  ASSUME Inv, Inv', NEW w \in Workers, GrowFree(w)
  PROVE  Effect(w)
<1>1. /\ NoSender /\ rights' = rights /\ space' = space /\ port' = port /\ W[w].pc = "g_free"
      /\ W' = [W EXCEPT ![w] = IdleWorker]
  BY DEF GrowFree, At, Finish
<1>2. space.is_seq \in Nat /\ space.is_generation \in Nat /\ Typed
  BY SpaceNumbers DEF Inv
<1>3. (\A v \in Workers \ {w} : W'[v] = W[v]) /\ W'[w].op = "none"
  BY <1>1, <1>2 DEF IdleWorker, Typed
<1> QED
  BY <1>1, <1>2, <1>3, PortsStay, EffectLocal

\* The steps of a growth show in is_seq, or happen while it is odd.
LEMMA GrowthEffect ==
  ASSUME Inv, Inv', NEW w \in Workers,
         GrowOpen(w) \/ GrowPublish(w) \/ GrowCopy(w) \/ GrowMove(w)
  PROVE  Effect(w)
<1>1. NoSender /\ rights' = rights /\ port' = port
  BY DEF GrowOpen, GrowPublish, GrowCopy, GrowMove
<1>2. space.is_seq \in Nat /\ space.is_generation \in Nat /\ space \in Spaces /\ Typed
  BY SpaceNumbers DEF Inv
<1>3. W[w].pc \in TablePcs \cup {"g_alloc"}
  BY DEF GrowOpen, GrowPublish, GrowCopy, GrowMove, At, TablePcs
<1>4. W[w].op = "grow" /\ W[w].pc # "bump"
  BY <1>3 DEF Inv, Locks, WorkerPorts, WorkerOK, OpAt, TablePcs
<1>5. /\ space'.is_generation = space.is_generation
      /\ space'.is_seq = space.is_seq \/ space'.is_seq = space.is_seq + 1
      /\ space'.is_seq = space.is_seq => W[w].pc \in TablePcs
  <2>1. CASE GrowOpen(w)
    BY <1>2, <2>1 DEF GrowOpen, Spaces
  <2>2. CASE GrowPublish(w)
    BY <1>2, <2>2 DEF GrowPublish, Spaces, At, TablePcs
  <2>3. CASE GrowCopy(w)
    BY <1>2, <2>3 DEF GrowCopy, At, TablePcs
  <2>4. CASE GrowMove(w)
    BY <1>2, <2>4 DEF GrowMove, Spaces
  <2> QED
    BY <2>1, <2>2, <2>3, <2>4
<1>6. (\A v \in Workers \ {w} : W'[v] = W[v]) /\ W'[w].op = W[w].op
  <2>1. \/ \E pc : W' = [W EXCEPT ![w].pc = pc]
        \/ \E k : W' = [W EXCEPT ![w].pc = "g_free", ![w].tab = k]
    BY DEF GrowOpen, GrowPublish, GrowCopy, GrowMove, Goto
  <2> QED
    BY <1>2, <2>1 DEF Typed, WorkerLocals
<1>7. ~(space'.is_seq = space.is_seq /\ space.is_seq % 2 = 0)
  <2>1. W[w].pc \in TablePcs => space.is_seq % 2 = 1
    BY GrowFacts DEF Inv
  <2> QED
    BY <1>2, <1>5, <2>1
<1>8. space'.is_generation >= space.is_generation /\ space'.is_seq >= space.is_seq
  BY <1>2, <1>5
<1> QED
  BY <1>1, <1>4, <1>6, <1>7, <1>8, PortsStay, EffectLocal

\* A step of the writer that changes the right of its name.
LEMMA EffectRight ==
  ASSUME Inv, NEW w \in Workers, W[w].pc \in NamePcs, NEW n \in Names, NoSender,
         \A m \in Names \ {n} : rights'[m] = rights[m],
         space' = space \/ (space'.is_generation >= space.is_generation /\ space'.is_seq >= space.is_seq),
         \A p \in Ports : Id(p)' = Id(p) /\ (port'[p].active => port[p].active),
         \/ rights[n] \in {NULL, DEAD}
         \/ \E p \in Ports : rights[n] = Id(p) /\ (~port[p].active \/ port[p].owner = w),
         NoDestroy => NoDestroy', NoBump' => NoBump,
         NoDestroy /\ NoBump' =>
           \/ rights[n] = NULL
           \/ rights'[n] # NULL /\ \E p \in Ports : rights[n] = Id(p) /\ ~port[p].active,
         TableStays
  PROVE  Effect(w)
<1>1. lock.readers = {}
  BY TheWriter DEF Inv, Locks, SpaceLock, WritePcs
<1>2. space'.is_generation >= space.is_generation /\ space'.is_seq >= space.is_seq
  BY SpaceNumbers
<1>3. \A m \in Names :
        \/ rights'[m] = rights[m] \/ rights[m] \in {NULL, DEAD}
        \/ \E p \in Ports : rights[m] = Id(p) /\ (~port[p].active \/ port[p].owner = w)
  OBVIOUS
<1>4. NoDestroy /\ NoBump' => Lasting
  BY DEF Lasting
<1> QED
  BY <1>1, <1>2, <1>3, <1>4 DEF Effect

LEMMA CheckDeadEffect ==
  ASSUME Inv, Inv', NEW w \in Workers, CheckDead(w)
  PROVE  Effect(w)
<1>0. W[w].pc = "dead" /\ W[w].pc \in NamePcs /\ Typed
  BY DEF CheckDead, At, NamePcs, Inv
<1> PICK n \in Names, i \in Indices, l \in Locs : n = W[w].name /\ i = Index(n) /\ l = W[w].loc
  BY <1>0, NameWork DEF Inv
<1>1. /\ rights' = [rights EXCEPT ![n] = DEAD]
      /\ Goto(w, "obj") /\ space' = space /\ port' = port /\ NoSender
  BY DEF CheckDead
<1>2. /\ WorkOK(w) /\ WorkerOK(w) /\ n = <<i, Gen(n)>> /\ mem[l].gen = Gen(n)
      /\ EntryOK(i, mem[l])
  BY <1>0, NameWork DEF Inv
<1>4. rights'[n] = DEAD /\ \A m \in Names \ {n} : rights'[m] = rights[m]
  BY <1>0, <1>1 DEF Typed
<1>5. (\A v \in Workers \ {w} : W'[v] = W[v]) /\ W'[w].op = W[w].op
  BY <1>0, <1>1, GotoMeans DEF WorkerPcs, WritePcs, NamePcs
<1>6. W[w].op # "destroy"
  BY <1>0, <1>2 DEF WorkerOK, OpAt, TablePcs
<1>7. \E p \in Ports : rights[n] = Id(p) /\ ~port[p].active
  <2>1. mem[l].type \in {"send", "receive"} /\ mem[l].obj \in Ports /\ ~port[mem[l].obj].active
    BY <1>0, <1>2 DEF WorkOK
  <2> QED
    BY <1>2, <2>1, KindFacts DEF EntryOK
<1>8. (NoDestroy => NoDestroy') /\ (NoBump' => NoBump)
  BY <1>0, <1>5, <1>6, FlagsKept
<1>10. TableStays
  BY <1>1 DEF TableStays
<1>11. \A p \in Ports : Id(p)' = Id(p) /\ (port'[p].active => port[p].active)
  BY <1>1, PortsStay
<1> QED
  BY <1>0, <1>1, <1>4, <1>7, <1>8, <1>10, <1>11, KindFacts, EffectRight

LEMMA CopyoutBitsEffect ==
  ASSUME Inv, Inv', NEW w \in Workers, CopyoutBits(w)
  PROVE  Effect(w)
<1>0. W[w].pc = "c_bits" /\ W[w].pc \in NamePcs /\ Typed
  BY DEF CopyoutBits, At, NamePcs, Inv
<1> PICK n \in Names, i \in Indices, l \in Locs : n = W[w].name /\ i = Index(n) /\ l = W[w].loc
  BY <1>0, NameWork DEF Inv
<1>1. /\ rights' = [rights EXCEPT ![n] = Id(W[w].port)]
      /\ Finish(w) /\ space' = space /\ port' = port /\ NoSender
  BY DEF CopyoutBits
<1>2. /\ WorkOK(w) /\ WorkerOK(w) /\ n = <<i, Gen(n)>> /\ mem[l].gen = Gen(n)
      /\ EntryOK(i, mem[l])
  BY <1>0, NameWork DEF Inv
<1>4. \A m \in Names \ {n} : rights'[m] = rights[m]
  BY <1>0, <1>1 DEF Typed
<1>5. (\A v \in Workers \ {w} : W'[v] = W[v]) /\ W'[w].op = "none"
  BY <1>0, <1>1, FinishMeans
<1>6. rights[n] = NULL
  BY <1>0, <1>2 DEF WorkOK, EntryOK
<1>7. (NoDestroy => NoDestroy') /\ (NoBump' => NoBump)
  BY <1>0, <1>5, FlagsKept
<1>9. TableStays
  BY <1>1 DEF TableStays
<1>10. \A p \in Ports : Id(p)' = Id(p) /\ (port'[p].active => port[p].active)
  BY <1>1, PortsStay
<1> QED
  BY <1>0, <1>1, <1>4, <1>6, <1>7, <1>9, <1>10, EffectRight

LEMMA MoveBitsEffect ==
  ASSUME Inv, Inv', NEW w \in Workers, MoveBits(w)
  PROVE  Effect(w)
<1>0. W[w].pc = "bits" /\ W[w].pc \in NamePcs /\ Typed
  BY DEF MoveBits, At, NamePcs, Inv
<1> PICK n \in Names, i \in Indices, l \in Locs : n = W[w].name /\ i = Index(n) /\ l = W[w].loc
  BY <1>0, NameWork DEF Inv
<1>1. /\ rights' = [rights EXCEPT ![n] = NULL]
      /\ port' = (IF W[w].port = NULL THEN port ELSE [port EXCEPT ![W[w].port].owner = NULL])
      /\ Goto(w, "bump") /\ space' = space /\ NoSender
  BY DEF MoveBits
<1>2. /\ W[w] \in WorkerLocals /\ WorkOK(w) /\ WorkerOK(w) /\ n = <<i, Gen(n)>>
      /\ mem[l].gen = Gen(n) /\ EntryOK(i, mem[l])
  BY <1>0, NameWork DEF Inv
<1>3. \A m \in Names \ {n} : rights'[m] = rights[m]
  BY <1>0, <1>1 DEF Typed
<1>4. (\A v \in Workers \ {w} : W'[v] = W[v]) /\ W'[w].op = W[w].op /\ W'[w].pc = "bump"
  BY <1>0, <1>1, GotoMeans DEF WorkerPcs, WritePcs, NamePcs
<1>5. W[w].op # "destroy"
  BY <1>0, <1>2 DEF WorkerOK, OpAt, TablePcs
<1>6. \/ rights[n] \in {NULL, DEAD}
      \/ \E p \in Ports : rights[n] = Id(p) /\ port[p].owner = w
  <2>1. mem[l].type = "dead" => rights[n] = DEAD
    BY <1>2 DEF EntryOK
  <2>2. mem[l].type # "dead" => W[w].port \in Ports /\ rights[n] = Id(W[w].port)
    BY <1>0, <1>2, <1>5 DEF WorkOK, WorkerLocals
  <2>3. \A p \in Ports : W[w].port = p => port[p].owner = w
    BY <1>0, <1>2 DEF WorkerOK, WithPort
  <2> QED
    BY <2>1, <2>2, <2>3
<1>7. (NoDestroy => NoDestroy') /\ (NoBump' => NoBump) /\ ~NoBump'
  <2>1. ~NoBump'
    BY <1>4 DEF NoBump
  <2> QED
    BY <1>0, <1>4, <1>5, <2>1, FlagsKept
<1>8. \A p \in Ports : Id(p)' = Id(p) /\ (port'[p].active => port[p].active)
  <2>1. CASE W[w].port = NULL
    BY <1>1, <2>1, PortsStay
  <2>2. CASE W[w].port # NULL
    <3>1. PICK p \in Ports : p = W[w].port
      BY <1>2, <2>2 DEF WorkerLocals
    <3>2. port' = [port EXCEPT ![p].owner = NULL]
      BY <1>1, <2>2, <3>1
    <3> QED
      BY <1>0, <3>2 DEF Typed, PortStates, Id
  <2> QED
    BY <2>1, <2>2
<1>9. TableStays
  BY <1>1 DEF TableStays
<1> QED
  BY <1>0, <1>1, <1>3, <1>6, <1>7, <1>8, <1>9, EffectRight

LEMMA DestroyFreeEffect ==
  ASSUME Inv, Inv', NEW w \in Workers, DestroyFree(w)
  PROVE  Effect(w)
<1>0. W[w].pc = "free" /\ W[w].pc \in NamePcs /\ Typed
  BY DEF DestroyFree, At, NamePcs, Inv
<1> PICK n \in Names, i \in Indices, l \in Locs : n = W[w].name /\ i = Index(n) /\ l = W[w].loc
  BY <1>0, NameWork DEF Inv
<1>1. /\ Dealloc(l, space) /\ rights' = [rights EXCEPT ![n] = NULL]
      /\ IF W[w].port = NULL THEN Finish(w) ELSE Goto(w, "port")
      /\ port' = port /\ NoSender
  BY DEF DestroyFree
<1>2. /\ W[w] \in WorkerLocals /\ WorkOK(w) /\ WorkerOK(w) /\ n = <<i, Gen(n)>>
      /\ mem[l].gen = Gen(n) /\ EntryOK(i, mem[l])
  BY <1>0, NameWork DEF Inv
<1>3. \A m \in Names \ {n} : rights'[m] = rights[m]
  BY <1>0, <1>1 DEF Typed
<1>4. /\ \A v \in Workers \ {w} : W'[v] = W[v]
      /\ W'[w].op = "destroy" => W'[w].pc = "port"
  <2>1. CASE W[w].port = NULL
    BY <1>0, <1>1, <2>1, FinishMeans
  <2>2. CASE W[w].port # NULL
    BY <1>0, <1>1, <2>2, GotoMeans DEF WorkerPcs
  <2> QED
    BY <2>1, <2>2
<1>5. W[w].op = "destroy"
  BY <1>0, <1>2 DEF WorkerOK, OpAt, TablePcs
<1>6. \/ rights[n] \in {NULL, DEAD}
      \/ \E p \in Ports : rights[n] = Id(p) /\ (~port[p].active \/ port[p].owner = w)
  <2>1. mem[l].type = "dead" => rights[n] = DEAD
    BY <1>2 DEF EntryOK
  <2>2. mem[l].type # "dead" => \/ W[w].port \in Ports /\ rights[n] = Id(W[w].port)
                                \/ \E p \in Ports : rights[n] = Id(p) /\ ~port[p].active
    BY <1>0, <1>2 DEF WorkOK, WorkerLocals
  <2>3. \A p \in Ports : W[w].port = p => port[p].owner = w
    BY <1>0, <1>2 DEF WorkerOK, WithPort
  <2> QED
    BY <2>1, <2>2, <2>3
<1>7. (NoDestroy => NoDestroy') /\ (NoBump' => NoBump) /\ ~NoDestroy
  <2>1. ~NoDestroy
    BY <1>0, <1>5 DEF NoDestroy
  <2> QED
    BY <1>0, <1>4, <2>1, FlagsKept
<1>8. \A p \in Ports : Id(p)' = Id(p) /\ (port'[p].active => port[p].active)
  BY <1>1, PortsStay
<1> PICK sp \in Spaces : sp = space
  BY SpaceNumbers
<1>9. /\ space'.is_generation = space.is_generation /\ space'.is_seq = space.is_seq
      /\ space'.is_table = space.is_table
  <2>1. Dealloc(l, sp) /\ Locks /\ MapInv
    BY <1>1 DEF Inv
  <2>2. /\ sp.is_table = space.is_table /\ sp.is_table_size = space.is_table_size
        /\ sp.is_seq = space.is_seq /\ sp.is_growing = space.is_growing
        /\ sp.is_tree = space.is_tree /\ sp.free = space.free
    OBVIOUS
  <2>3. /\ space'.is_generation = sp.is_generation /\ space'.is_seq = space.is_seq
        /\ space'.is_table = space.is_table
    BY <1>0, <2>1, <2>2, DeallocMeans
  <2> QED
    BY <2>3
<1>10. space'.is_generation >= space.is_generation /\ space'.is_seq >= space.is_seq
  BY <1>9, SpaceNumbers
<1>11. TableStays
  BY <1>9 DEF TableStays
<1> QED
  BY <1>0, <1>1, <1>3, <1>6, <1>7, <1>8, <1>10, <1>11, EffectRight

LEMMA MoveBumpEffect ==
  ASSUME Inv, Inv', NEW w \in Workers, MoveBump(w)
  PROVE  Effect(w)
<1>0. W[w].pc = "bump" /\ W[w].pc \in NamePcs /\ Typed
  BY DEF MoveBump, At, NamePcs, Inv
<1> PICK n \in Names, i \in Indices, l \in Locs : n = W[w].name /\ i = Index(n) /\ l = W[w].loc
  BY <1>0, NameWork DEF Inv
<1> PICK g \in Nat : g = space.is_generation + 1
  BY SpaceNumbers
<1> DEFINE sp == [space EXCEPT !.is_generation = g]
<1>1. Dealloc(l, sp) /\ port' = port /\ rights' = rights /\ NoSender
  BY DEF MoveBump
<1>2. /\ sp \in Spaces /\ sp.is_table = space.is_table
      /\ sp.is_table_size = space.is_table_size /\ sp.is_seq = space.is_seq
      /\ sp.is_growing = space.is_growing /\ sp.is_tree = space.is_tree
      /\ sp.free = space.free /\ sp.is_generation = g
  BY SpaceNumbers DEF Spaces
<1> HIDE DEF sp
<1>3. /\ space'.is_generation = g /\ space'.is_seq = space.is_seq
      /\ space'.is_table = space.is_table
  BY <1>0, <1>1, <1>2, DeallocMeans DEF Inv
<1>4. /\ space'.is_generation >= space.is_generation /\ space'.is_seq >= space.is_seq
      /\ space'.is_generation # space.is_generation
  BY <1>3, SpaceNumbers
<1>5. \A p \in Ports : Id(p)' = Id(p) /\ (port'[p].active => port[p].active)
  BY <1>1, PortsStay
<1>6. TableStays
  BY <1>3 DEF TableStays
<1> QED
  BY <1>1, <1>4, <1>5, <1>6, EffectQuiet

LEMMA CopyoutObjectEffect ==
  ASSUME Inv, Inv', NEW w \in Workers, CopyoutObject(w)
  PROVE  Effect(w)
<1>0. W[w].pc = "c_obj" /\ W[w].pc \in NamePcs /\ Typed
  BY DEF CopyoutObject, At, NamePcs, Inv
<1> PICK n \in Names, i \in Indices, l \in Locs : n = W[w].name /\ i = Index(n) /\ l = W[w].loc
  BY <1>0, NameWork DEF Inv
<1>1. /\ WorkOK(w) /\ WorkerOK(w) /\ l = Where(i)
      /\ i < Limit => l \notin Ites
      /\ ~(i < Limit) => l \in Ites
  BY <1>0, NameWork DEF Inv
<1>2. W[w].port \in Ports /\ mem[l].type = "none" /\ W[w].op = "copyout"
  BY <1>0, <1>1 DEF WorkOK, WorkerOK, OpAt, TablePcs
<1> PICK p \in Ports : p = W[w].port
  BY <1>2
<1>3. rights' = rights /\ port' = port /\ NoSender
  BY DEF CopyoutObject
<1>4. \A q \in Ports : Id(q)' = Id(q) /\ (port'[q].active => port[q].active)
  BY <1>3, PortsStay
<1>5. space.is_seq \in Nat /\ space.is_generation \in Nat /\ space \in Spaces
  BY SpaceNumbers
<1>6. CASE port[p].active
  <2>1. Goto(w, "c_bits") /\ space' = space
    BY <1>6 DEF CopyoutObject
  <2>3. (\A v \in Workers \ {w} : W'[v] = W[v]) /\ W'[w].op = W[w].op
    BY <1>0, <2>1, GotoMeans DEF WorkerPcs, WritePcs, NamePcs
  <2> QED
    BY <1>0, <1>2, <1>3, <1>4, <1>5, <2>1, <2>3, EffectLocal
<1>7. CASE ~port[p].active
  <2>9. Dealloc(l, space) /\ Finish(w) /\ Locks /\ MapInv
    BY <1>7 DEF CopyoutObject, Inv
  <2> PICK sp \in Spaces :
         /\ Dealloc(l, sp) /\ sp.is_generation = space.is_generation
         /\ sp.is_table = space.is_table /\ sp.is_table_size = space.is_table_size
         /\ sp.is_seq = space.is_seq /\ sp.is_growing = space.is_growing
         /\ sp.is_tree = space.is_tree /\ sp.free = space.free
    BY <1>5, <2>9
  <2>1. Dealloc(l, sp) /\ Finish(w) /\ Locks /\ MapInv
    BY <2>9
  <2>2. /\ space'.is_table = space.is_table /\ space'.is_seq = space.is_seq
        /\ space'.is_generation = sp.is_generation
    BY <1>0, <2>1, DeallocMeans
  <2>3. (\A v \in Workers \ {w} : W'[v] = W[v]) /\ W'[w].op = "none"
    BY <1>0, <2>1, FinishMeans
  <2>4. (NoDestroy => NoDestroy') /\ (NoBump' => NoBump)
    BY <1>0, <2>3, FlagsKept
  <2>5. TableStays
    BY <2>2 DEF TableStays
  <2>6. space'.is_generation >= space.is_generation /\ space'.is_seq >= space.is_seq
    BY <1>5, <2>2
  <2> QED
    BY <1>3, <1>4, <2>4, <2>5, <2>6, EffectQuiet
<1> QED
  BY <1>6, <1>7

LEMMA CopyoutGetEffect ==
  ASSUME Inv, Inv', NEW w \in Workers, NEW p \in Ports \ {ReplyPort}, CopyoutGet(w, p)
  PROVE  Effect(w)
<1>1. lock.writer = NULL /\ NoSender /\ rights' = rights /\ port' = port /\ space.free # <<>>
  BY DEF CopyoutGet, WriteLock
<1>2. space \in Spaces /\ space.is_seq \in Nat /\ space.is_generation \in Nat /\ Typed
  BY SpaceNumbers DEF Inv
<1>3. space.free \in Seq(Indices)
  BY <1>2 DEF Spaces
<1> PICK f : f = Tail(space.free)
  OBVIOUS
<1> PICK i : i = Head(space.free)
  OBVIOUS
<1> PICK l : l = <<space.is_table, i>>
  OBVIOUS
<1> PICK g : g = (mem[l].gen + 1) % GENS
  OBVIOUS
<1>4. /\ mem' = [mem EXCEPT ![l].gen = g] /\ Begin(w, "c_obj", "copyout", <<i, g>>, l, p)
      /\ space' = [space EXCEPT !.free = f]
  BY DEF CopyoutGet
<1>5. /\ space'.is_seq = space.is_seq /\ space'.is_table = space.is_table
      /\ space'.is_tree = space.is_tree /\ space'.is_generation = space.is_generation
  BY <1>2, <1>4 DEF Spaces
<1>9. (\A v \in Workers \ {w} : W'[v] = W[v]) /\ W'[w].op = "copyout" /\ W[w].pc = "idle"
  BY <1>2, <1>4 DEF Begin, Typed
<1>10. space'.is_generation >= space.is_generation /\ space'.is_seq >= space.is_seq
  BY <1>2, <1>5
<1> QED
  BY <1>1, <1>5, <1>9, <1>10, PortsStay, EffectLocal

LEMMA CopyoutNameEffect ==
  ASSUME Inv, Inv', NEW w \in Workers, NEW p \in Ports \ {ReplyPort},
         NEW n \in ChosenNames, CopyoutName(w, p, n)
  PROVE  Effect(w)
<1>0. n \in Names
  BY NamesAssumption
<1> PICK i \in Indices : i = Index(n)
  BY <1>0, NameFacts
<1>1. lock.writer = NULL /\ NoSender /\ rights' = rights /\ port' = port
  BY DEF CopyoutName, WriteLock
<1>2. Home = space.is_table /\ Limit = space.is_table_size
  BY <1>1, NoWriter, Steady DEF Inv, MapInv
<1>3. /\ space \in Spaces /\ space.is_seq \in Nat /\ space.is_generation \in Nat /\ Typed
      /\ space.free \in Seq(Indices) /\ i \in Nat /\ Limit \in Nat /\ Home \in Blocks
  BY SpaceNumbers, IndexFacts, WhereFacts DEF Inv, MapInv, Spaces
<1>4. \A q \in Ports : Id(q)' = Id(q) /\ (port'[q].active => port[q].active)
  BY <1>1, PortsStay
<1>5. CASE i < Limit
  <2> PICK l : l = <<space.is_table, i>>
    OBVIOUS
  <2>1. /\ mem' = [mem EXCEPT ![l].gen = Gen(n)] /\ Begin(w, "c_obj", "copyout", n, l, p)
        /\ \E k \in DOMAIN space.free : space' = [space EXCEPT !.free = RemoveAt(space.free, k)]
    BY <1>2, <1>3, <1>5 DEF CopyoutName
  <2>2. PICK f : space' = [space EXCEPT !.free = f]
    BY <2>1
  <2>3. /\ space'.is_seq = space.is_seq /\ space'.is_table = space.is_table
        /\ space'.is_tree = space.is_tree /\ space'.is_generation = space.is_generation
    BY <1>3, <2>2 DEF Spaces
  <2>6. (\A v \in Workers \ {w} : W'[v] = W[v]) /\ W'[w].op = "copyout" /\ W[w].pc = "idle"
    BY <1>3, <2>1 DEF Begin, Typed
  <2>7. space'.is_generation >= space.is_generation /\ space'.is_seq >= space.is_seq
    BY <1>3, <2>3
  <2> QED
    BY <1>1, <1>4, <2>3, <2>6, <2>7, EffectLocal
<1>6. CASE ~(i < Limit)
  <2>1. PICK l \in Ites :
          /\ space' = [space EXCEPT !.is_tree[i] = l]
          /\ Begin(w, "c_obj", "copyout", n, l, p)
    BY <1>2, <1>3, <1>6 DEF CopyoutName
  <2>4. /\ space'.is_seq = space.is_seq /\ space'.is_table = space.is_table
        /\ space'.is_generation = space.is_generation
    BY <1>3, <2>1 DEF Spaces
  <2>5. (\A v \in Workers \ {w} : W'[v] = W[v]) /\ W'[w].op = "copyout" /\ W[w].pc = "idle"
    BY <1>3, <2>1 DEF Begin, Typed
  <2>6. space'.is_generation >= space.is_generation /\ space'.is_seq >= space.is_seq
    BY <1>3, <2>4
  <2> QED
    BY <1>1, <1>4, <2>4, <2>5, <2>6, EffectLocal
<1> QED
  BY <1>5, <1>6

LEMMA WorkerEffect ==
  ASSUME Inv, Inv', NEW w \in Workers, WorkerStep(w) \/ WorkerStart(w)
  PROVE  Effect(w)
<1>1. CASE WorkerStep(w)
  BY <1>1, RemoveLockEffect, CheckDeadEffect, RemoveObjectEffect, DestroyFreeEffect,
     DestroyPortEffect, MoveBitsEffect, MoveBumpEffect, CopyoutObjectEffect,
     CopyoutBitsEffect, GrowFailsEffect, GrowFreeEffect, GrowthEffect DEF WorkerStep
<1>2. CASE WorkerStart(w)
  BY <1>2, RemoveLookupEffect, CopyoutGetEffect, CopyoutNameEffect, GrowStartEffect
     DEF WorkerStart
<1> QED
  BY <1>1, <1>2

\* A dense name is in the table.
LEMMA DenseWhere ==
  ASSUME Inv, Inv', space'.is_seq = space.is_seq, space.is_seq % 2 = 0, TableStays,
         NEW n \in Names, Dense(n)
  PROVE  Where(Index(n))' = Where(Index(n)) /\ Where(Index(n)) # NULL
<1> PICK i \in Indices : i = Index(n)
  BY NameFacts
<1>1. /\ Limit \in Nat /\ Limit >= SIZES[1]
      /\ i < Limit => Where(i)' = Where(i) /\ Where(i) = <<Home, i>>
  BY SteadyBoth DEF TableStays
<1>2. i < Limit
  BY <1>1, IndexFacts, Sizes DEF Dense
<1>3. Home \in Blocks
  BY WhereFacts DEF Inv, MapInv
<1> QED
  BY <1>1, <1>2, <1>3, LocFacts

\* A dense name in use keeps its entry and the generation in it.
LEMMA FoundStays ==
  ASSUME Inv, Inv', Lasting, space.is_seq % 2 = 0, space'.is_seq = space.is_seq, TableStays,
         NEW n \in Names, Dense(n), NEW l, Found(n, l)
  PROVE  Found(n, l)'
<1> PICK i \in Indices : i = Index(n)
  BY NameFacts
<1>1. n = <<i, Gen(n)>> /\ Gen(n) \in Gens
  BY NameFacts
<1>2. Where(i)' = l /\ l # NULL
  BY DenseWhere DEF Found
<1>3. rights'[n] # NULL
  BY DEF Lasting, Found
<1>4. \A e : e = mem'[l] => EntryOK(i, e)'
  BY <1>2 DEF Inv, MapInv, EntryInv, EntryAt
<1>5. PICK e : e = mem'[l]
  OBVIOUS
<1>6. \A g \in Gens : g # e.gen => rights'[<<i, g>>] = NULL
  BY <1>4, <1>5 DEF EntryOK
<1> QED
  BY <1>1, <1>2, <1>3, <1>5, <1>6 DEF Found

\* A port that a name denoted, and the reply port.
LEMMA DenotedStays ==
  ASSUME Inv, Lasting, NEW n \in Names, NEW q \in Ports, Denoted(n, q),
         \A p \in Ports : Id(p)' = Id(p) /\ (port'[p].active => port[p].active)
  PROVE  Denoted(n, q)'
<1>1. CASE ~port[q].active
  BY <1>1 DEF Denoted
<1>2. CASE rights[n] = Id(q)
  <2>1. Id(q) # NULL /\ \A p \in Ports : Id(p) = Id(q) => p = q
    BY IdFacts DEF Inv
  <2>2. rights'[n] = rights[n] \/ ~port[q].active
    BY <1>2, <2>1 DEF Lasting
  <2> QED
    BY <1>2, <2>2 DEF Denoted
<1> QED
  BY <1>1, <1>2 DEF Denoted

LEMMA ReplyStays ==
  ASSUME Inv, Lasting, rights[ReplyName] = Id(ReplyPort),
         \A p \in Ports : Id(p)' = Id(p) /\ (port'[p].active => port[p].active)
  PROVE  rights'[ReplyName] = Id(ReplyPort) /\ Id(ReplyPort)' = Id(ReplyPort)
<1>1. ReplyPort \in Ports /\ ReplyName \in Names
  BY PortsAssumption, NameFacts
<1>2. port[ReplyPort].active
  BY DEF Inv, MapInv, ReplyLives
<1>3. Id(ReplyPort) # NULL /\ \A p \in Ports : Id(p) = Id(ReplyPort) => p = ReplyPort
  BY <1>1, IdFacts DEF Inv
<1> QED
  BY <1>1, <1>2, <1>3 DEF Lasting

\* What a resolver knows it still knows.
LEMMA KnowsStays ==
  ASSUME Inv, Inv', Lasting, NEW t \in Senders, NEW r \in SenderLocals, r = S[t],
         r.pc \in Resolving, Dense(r.dest), Knows(r),
         \A p \in Ports : Id(p)' = Id(p) /\ (port'[p].active => port[p].active),
         space'.is_seq = space.is_seq, TableStays
  PROVE  Knows(r)'
<1>1. /\ SenderOK(t) /\ r.dest \in Dests /\ r.dest \in Names
      /\ Target(r) \in Names
  BY SenderFacts DEF Resolving, Target, Inv
<1> PICK n \in Names : n = Target(r)
  BY <1>1
<1>9. Dense(n)
  BY NameFacts, Sizes DEF Target, Dense
<1>2. r.which = "dest" => ReplyKnown(r)'
  BY ReplyStays DEF Knows, ReplyKnown
<1>3. r.pc \in {"lock", "try", "verify"} => r.which = "dest" /\ Denoted(r.dest, r.dp)'
  <2> SUFFICES ASSUME r.pc \in {"lock", "try", "verify"}
               PROVE  r.which = "dest" /\ Denoted(r.dest, r.dp)'
    OBVIOUS
  <2>1. r.dp \in Ports
    BY <1>1 DEF SenderOK, OneHeld, TwoHeld
  <2> QED
    BY <1>1, <2>1, DenotedStays DEF Knows
<1>4. r.pc \in {"l_check", "got"} /\ r.ent # NULL =>
        space'.is_seq % 2 = 0 /\ Found(n, r.ent)'
  BY <1>9, FoundStays DEF Knows
<1>5. r.pc = "obj" =>
        /\ space'.is_seq % 2 = 0 /\ Found(n, r.ent)'
        /\ r.which = "reply" => rights'[ReplyName] = Id(ReplyPort)'
  BY <1>9, FoundStays, ReplyStays DEF Knows
<1> QED
  BY <1>2, <1>3, <1>4, <1>5 DEF Knows, Target

\* What a step of another thread x leaves of a sender's knowledge.
LEMMA ResolveFrame ==
  ASSUME Inv, Inv', NEW x, Effect(x), NEW t \in Senders, t # x,
         NEW r \in SenderLocals, r = S[t], ResolveOK(r)
  PROVE  ResolveOK(r)'
<1>0. SenderOK(t) /\ (t \in lock.readers <=> r.pc \in Reading)
  BY DEF Inv, Locks, SpaceLock, SenderPorts
<1>1. /\ space.is_generation \in Nat /\ space.is_seq \in Nat
      /\ space'.is_generation \in Nat /\ space'.is_seq \in Nat
      /\ space'.is_generation >= space.is_generation /\ space'.is_seq >= space.is_seq
      /\ r.gen0 \in Nat /\ r.seq0 \in Nat
  BY DEF Effect, Inv, Typed, Spaces, SenderLocals
<1>2. /\ \A p \in Ports : Id(p)' = Id(p) /\ (port'[p].active => port[p].active)
      /\ space'.is_generation = space.is_generation =>
           (NoDestroy => NoDestroy') /\ (NoBump' => NoBump)
      /\ space'.is_generation = space.is_generation /\ NoDestroy /\ NoBump' => Lasting
      /\ TableStays
  BY DEF Effect
<1>3. r.pc \in {"snap_gen", "snap_seq"} => r.which = "reply"
  BY DEF ResolveOK
<1>4. r.pc \in Resolving => r.gen0 <= space'.is_generation
  BY <1>1 DEF ResolveOK
<1>5. ASSUME r.pc \in Resolving, Current(r)'
      PROVE  /\ space'.is_generation = space.is_generation /\ Current(r)
             /\ NoDestroy /\ NoDestroy'
  <2>1. r.settled /\ r.gen0 = space'.is_generation /\ r.gen0 <= space.is_generation
    BY <1>5 DEF Current, ResolveOK
  <2>2. space'.is_generation = space.is_generation
    BY <1>1, <2>1
  <2>3. Current(r)
    BY <2>1, <2>2 DEF Current
  <2> QED
    BY <1>2, <1>5, <2>2, <2>3 DEF ResolveOK
<1>6. r.pc \in Resolving \ {"snap_seq"} => r.seq0 <= space'.is_seq
  BY <1>1 DEF ResolveOK
<1>7. r.pc \in Walking => r.seq0 <= r.s
  BY DEF ResolveOK
<1>8. ASSUME r.pc \in Resolving \ {"snap_seq"}, Valid(r)' PROVE Knows(r)'
  <2>1. Current(r)' /\ r.seq0 = space'.is_seq /\ NoBump' /\ Dense(r.dest)
    BY <1>8 DEF Valid, Dense
  <2>2. /\ space'.is_generation = space.is_generation /\ Current(r) /\ NoDestroy
    BY <1>5, <1>8, <2>1
  <2>3. r.seq0 <= space.is_seq
    BY <1>8 DEF ResolveOK
  <2>4. space'.is_seq = space.is_seq
    BY <1>1, <2>1, <2>3
  <2>5. Valid(r)
    BY <1>2, <2>1, <2>2, <2>4 DEF Valid
  <2>6. Knows(r)
    BY <1>8, <2>5 DEF ResolveOK
  <2>7. Lasting
    BY <1>2, <2>1, <2>2
  <2> QED
    BY <1>2, <1>8, <2>1, <2>4, <2>6, <2>7, KnowsStays
<1>9. ASSUME (r.pc = "fill" /\ r.settled /\ Dense(r.dest)) \/ r.pc \in {"r_port", "r_try"}
      PROVE  /\ rights'[r.dest] = Id(r.dp)' /\ r.rp = ReplyPort
             /\ rights'[ReplyName] = Id(ReplyPort)'
  <2>1. rights[r.dest] = Id(r.dp) /\ r.rp = ReplyPort /\ rights[ReplyName] = Id(ReplyPort)
    BY <1>9 DEF ResolveOK
  <2>2. r.dp \in Ports /\ ReplyPort \in Ports /\ r.dest \in Names /\ ReplyName \in Names
    BY <1>0, <1>9, PortsAssumption, NamesAssumption, NameFacts DEF SenderOK, OneHeld, TwoHeld
  <2>3. Id(r.dp)' = Id(r.dp) /\ Id(ReplyPort)' = Id(ReplyPort)
    BY <1>2, <2>2
  <2>4. CASE r.pc \in {"r_port", "r_try"}
    <3>1. rights' = rights
      BY <1>0, <2>4 DEF Reading, Effect
    <3> QED
      BY <2>1, <2>3, <3>1
  <2>5. CASE r.pc = "fill"
    <3>1. port[r.dp].owner = t /\ port[r.rp].owner = t /\ port[r.dp].active
      BY <1>0, <2>1, <2>2, <2>5 DEF SenderOK, TwoHeld
    <3>2. port[ReplyPort].active
      BY <2>1 DEF Inv, MapInv, ReplyLives
    <3>3. /\ \A p \in Ports : Id(p) = Id(r.dp) => p = r.dp
          /\ \A p \in Ports : Id(p) = Id(ReplyPort) => p = ReplyPort
          /\ Id(r.dp) \notin {NULL, DEAD} /\ Id(ReplyPort) \notin {NULL, DEAD}
      BY <2>2, IdFacts DEF Inv
    <3>4. rights'[r.dest] = rights[r.dest] /\ rights'[ReplyName] = rights[ReplyName]
      BY <2>1, <2>2, <3>1, <3>2, <3>3 DEF Effect
    <3> QED
      BY <2>1, <2>3, <3>4
  <2> QED
    BY <1>9, <2>4, <2>5
<1>10. Dense(r.dest)' <=> Dense(r.dest)
  BY DEF Dense
<1> QED
  BY <1>3, <1>4, <1>5, <1>6, <1>7, <1>8, <1>9, <1>10 DEF ResolveOK

\* A step that leaves the space and its rights.
LEMMA StillEffect ==
  ASSUME Inv, space' = space, W' = W, rights' = rights, NEW x,
         \A p \in Ports : port'[p].inc = port[p].inc /\ (port'[p].active => port[p].active)
  PROVE  Effect(x)
<1>3. TableStays
  BY DEF TableStays
<1>4. (NoDestroy' <=> NoDestroy) /\ (NoBump' <=> NoBump)
  BY DEF NoDestroy, NoBump
<1>5. space'.is_generation >= space.is_generation /\ space'.is_seq >= space.is_seq
  BY SpaceNumbers
<1>6. \A p \in Ports : Id(p)' = Id(p)
  BY DEF Id
<1> QED
  BY <1>3, <1>4, <1>5, <1>6 DEF Effect, Lasting

-----------------------------------------------------------------------------
(* Resolving: the steps of the senders. *)

\* What a sender knows after its step, of the space that the step left alone.
Learns(t) == \A q \in {S'[t]} : ResolveOK(q)

LEMMA SetsLearns ==
  ASSUME Inv, NEW t \in Senders, NEW q, Sets(t, q), ResolveOK(q)
  PROVE  Learns(t)
<1>1. S'[t] = q
  BY DEF Sets, Inv, Typed
<1> QED
  BY <1>1 DEF Learns

\* Outside the resolver there is nothing to know.
LEMMA OutsideResolves ==
  ASSUME NEW q, q.pc \notin Resolving \cup {"snap_gen", "fill", "r_port", "r_try"}
  PROVE  ResolveOK(q)
  BY DEF ResolveOK, Resolving, Walking

LEMMA IdleLearns ==
  ASSUME Inv, NEW t \in Senders, NEW d, Sets(t, IdleSender) \/ Sets(t, Locked(d))
  PROVE  Learns(t)
<1>1. ResolveOK(IdleSender) /\ ResolveOK(Locked(d))
  <2>1. IdleSender.pc = "idle" /\ Locked(d).pc = "r_lock"
    BY DEF IdleSender, Locked
  <2> QED
    BY <2>1, OutsideResolves DEF Resolving
<1> QED
  BY <1>1, SetsLearns

\* A step inside the resolver with the same snapshot.
LEMMA Carried ==
  ASSUME NEW q \in SenderLocals, NEW r \in SenderLocals, ResolveOK(r),
         r.pc \in Resolving \ {"snap_seq"}, q.pc \in Resolving \ {"snap_seq"},
         q.gen0 = r.gen0, q.seq0 = r.seq0, q.settled = r.settled, q.dest = r.dest,
         q.pc \in Walking => q.seq0 <= q.s,
         Valid(r) /\ Knows(r) => Knows(q)
  PROVE  ResolveOK(q)
<1>1. (Current(q) <=> Current(r)) /\ (Valid(q) <=> Valid(r))
  BY DEF Current, Valid
<1>2. /\ r.gen0 <= space.is_generation /\ (Current(r) => NoDestroy)
      /\ r.seq0 <= space.is_seq /\ (Valid(r) => Knows(r))
  BY DEF ResolveOK
<1> QED
  BY <1>1, <1>2 DEF ResolveOK, Resolving

LEMMA ProbeCacheLearns ==
  ASSUME Inv, NEW t \in Senders, NEW d \in Dests, ProbeCache(t, d)
  PROVE  Learns(t)
<1> DEFINE a == [IdleSender EXCEPT !.pc = "c_lock", !.dest = d,
                                   !.rp = cache[t].rp, !.dp = cache[t].dp]
           b == [IdleSender EXCEPT !.pc = "snap_gen", !.dest = d]
<1>1. Sets(t, a) \/ Sets(t, b)
  BY DEF ProbeCache
<1>2. a.pc = "c_lock" /\ b.pc = "snap_gen" /\ b.which = "reply"
  BY DEF IdleSender
<1> HIDE DEF a, b
<1>3. ResolveOK(a)
  BY <1>2, OutsideResolves DEF Resolving
<1>4. ResolveOK(b)
  BY <1>2 DEF ResolveOK, Resolving, Walking
<1> QED
  BY <1>1, <1>3, <1>4, SetsLearns

LEMMA LockDestLearns ==
  ASSUME Inv, NEW t \in Senders, LockDest(t), NEW r \in SenderLocals, r = S[t], ResolveOK(r)
  PROVE  Learns(t)
<1>1. PICK pc \in {"c_try", "try", "r_try"} :
        /\ Sets(t, [r EXCEPT !.pc = pc])
        /\ \/ pc = "c_try" /\ r.pc = "c_lock"
           \/ pc = "try" /\ r.pc = "lock"
           \/ pc = "r_try" /\ r.pc = "r_port"
  <2> DEFINE next == [c_lock |-> "c_try", lock |-> "try", r_port |-> "r_try"]
  <2>1. r.pc \in DOMAIN next /\ Sets(t, [r EXCEPT !.pc = next[r.pc]])
    BY DEF LockDest, Pc
  <2>2. \/ r.pc = "c_lock" /\ next[r.pc] = "c_try"
        \/ r.pc = "lock" /\ next[r.pc] = "try"
        \/ r.pc = "r_port" /\ next[r.pc] = "r_try"
    BY <2>1
  <2> HIDE DEF next
  <2> QED
    BY <2>1, <2>2
<1> DEFINE q == [r EXCEPT !.pc = pc]
<1>2. /\ q \in SenderLocals /\ q.pc = pc /\ q.which = r.which /\ q.dest = r.dest
      /\ q.gen0 = r.gen0 /\ q.seq0 = r.seq0 /\ q.settled = r.settled /\ q.rp = r.rp
      /\ q.dest = r.dest
      /\ q.dp = r.dp /\ Sets(t, q)
  BY <1>1 DEF SenderLocals, SenderPcs
<1> HIDE DEF q
<1>3. CASE pc = "c_try"
  BY <1>2, <1>3, OutsideResolves, SetsLearns DEF Resolving
<1>4. CASE pc = "r_try" /\ r.pc = "r_port"
  <2>1. ResolveOK(q)
    BY <1>2, <1>4 DEF ResolveOK, Resolving, Walking
  <2> QED
    BY <1>2, <2>1, SetsLearns
<1>5. CASE pc = "try" /\ r.pc = "lock"
  <2>1. Knows(r) => Knows(q)
    BY <1>2, <1>5 DEF Knows, ReplyKnown
  <2>2. ResolveOK(q)
    BY <1>2, <1>5, <2>1, Carried DEF Resolving, Walking
  <2> QED
    BY <1>2, <2>2, SetsLearns
<1> QED
  BY <1>1, <1>3, <1>4, <1>5

LEMMA CacheTryLearns ==
  ASSUME Inv, NEW t \in Senders, CacheTry(t)
  PROVE  Learns(t)
<1> DEFINE q == [S[t] EXCEPT !.pc = "send"]
<1>1. Sets(t, q) \/ Sets(t, IdleSender)
  BY DEF CacheTry
<1>2. q.pc = "send"
  BY DEF Inv, Typed, SenderLocals
<1> HIDE DEF q
<1> QED
  BY <1>1, <1>2, OutsideResolves, SetsLearns, IdleLearns DEF Resolving

\* With no removal half done.
LEMMA SettledMeans ==
  ASSUME Inv, Settled PROVE NoDestroy /\ NoBump
<1>1. NoDestroy
  BY DEF Settled, NoDestroy
<1>2. NoBump
  BY DEF Settled, NoBump, Inv, Locks, WorkerPorts, WorkerOK, OpAt, TablePcs
<1> QED
  BY <1>1, <1>2

LEMMA SnapshotLearns ==
  ASSUME Inv, NEW t \in Senders, Snapshot(t), NEW r \in SenderLocals, r = S[t], ResolveOK(r)
  PROVE  Learns(t)
<1>1. space.is_generation \in Nat /\ space.is_seq \in Nat
  BY SpaceNumbers
<1>2. CASE r.pc = "snap_gen"
  <2>1. PICK b \in BOOLEAN : b <=> Settled
    BY DEF Settled
  <2> DEFINE q == [r EXCEPT !.pc = "snap_seq", !.gen0 = space.is_generation, !.settled = b]
  <2>2. Sets(t, q)
    <3>1. Settled \in BOOLEAN
      BY DEF Settled
    <3>2. b = Settled
      BY <2>1, <3>1
    <3> QED
      BY <1>2, <3>2 DEF Snapshot, Pc
  <2>3. q.pc = "snap_seq" /\ q.gen0 = space.is_generation /\ q.settled = b /\ q.which = r.which
    BY DEF SenderLocals
  <2> HIDE DEF q
  <2>4. ResolveOK(q)
    BY <1>1, <1>2, <2>1, <2>3, SettledMeans DEF ResolveOK, Current, Resolving, Walking
  <2> QED
    BY <2>2, <2>4, SetsLearns
<1>3. CASE r.pc = "snap_seq"
  <2> DEFINE q == [r EXCEPT !.pc = "l_seq", !.seq0 = space.is_seq]
  <2>1. Sets(t, q)
    BY <1>3 DEF Snapshot, Pc
  <2>2. /\ q.pc = "l_seq" /\ q.seq0 = space.is_seq /\ q.gen0 = r.gen0 /\ q.settled = r.settled
        /\ q.which = r.which
    BY DEF SenderLocals
  <2> HIDE DEF q
  <2>3. Knows(q)
    BY <1>3, <2>2 DEF Knows, ResolveOK
  <2>4. ResolveOK(q)
    BY <1>1, <1>3, <2>2, <2>3 DEF ResolveOK, Current, Resolving, Walking
  <2> QED
    BY <2>1, <2>4, SetsLearns
<1> QED
  BY <1>2, <1>3 DEF Snapshot, Pc

LEMMA LookupSeqLearns ==
  ASSUME Inv, NEW t \in Senders, LookupSeq(t), NEW r \in SenderLocals, r = S[t], ResolveOK(r)
  PROVE  Learns(t)
<1>1. /\ space.is_seq \in Nat /\ r.tries \in 0 .. MAX_TRIES /\ MAX_TRIES \in Nat
      /\ r.pc = "l_seq"
  BY SpaceNumbers, TriesAssumption DEF SenderLocals, LookupSeq, Pc
<1>2. CASE GivesUp(r)
  <2> DEFINE q == [r EXCEPT !.pc = "got", !.ent = NULL]
  <2>1. Sets(t, q)
    BY <1>2 DEF LookupSeq
  <2>2. /\ q \in SenderLocals /\ q.pc = "got" /\ q.which = r.which /\ q.ent = NULL
        /\ q.gen0 = r.gen0 /\ q.seq0 = r.seq0 /\ q.settled = r.settled /\ q.rp = r.rp
        /\ q.dest = r.dest
    BY DEF SenderLocals, SenderPcs
  <2> HIDE DEF q
  <2>3. Knows(r) => Knows(q)
    BY <1>1, <2>2 DEF Knows, ReplyKnown
  <2>4. ResolveOK(q)
    BY <1>1, <2>2, <2>3, Carried DEF Resolving, Walking
  <2> QED
    BY <2>1, <2>4, SetsLearns
<1>3. CASE ~GivesUp(r) /\ space.is_seq % 2 = 1
  <2> PICK k \in 0 .. MAX_TRIES : k = r.tries + 1
    BY <1>1, <1>3 DEF GivesUp
  <2> DEFINE q == [r EXCEPT !.tries = k]
  <2>1. Sets(t, q)
    BY <1>3 DEF LookupSeq
  <2>2. /\ q \in SenderLocals /\ q.pc = "l_seq" /\ q.which = r.which
        /\ q.gen0 = r.gen0 /\ q.seq0 = r.seq0 /\ q.settled = r.settled /\ q.rp = r.rp
        /\ q.dest = r.dest
    BY <1>1 DEF SenderLocals, SenderPcs
  <2> HIDE DEF q
  <2>3. Knows(r) => Knows(q)
    BY <1>1, <2>2 DEF Knows, ReplyKnown
  <2>4. ResolveOK(q)
    BY <1>1, <2>2, <2>3, Carried DEF Resolving, Walking
  <2> QED
    BY <2>1, <2>4, SetsLearns
<1>4. CASE ~GivesUp(r) /\ space.is_seq % 2 # 1
  <2> PICK k \in 0 .. MAX_TRIES : k = r.tries + 1
    BY <1>1, <1>4 DEF GivesUp
  <2> DEFINE q == [r EXCEPT !.pc = "l_size", !.s = space.is_seq, !.tries = k, !.ent = NULL]
  <2>1. Sets(t, q)
    BY <1>4 DEF LookupSeq
  <2>2. /\ q \in SenderLocals /\ q.pc = "l_size" /\ q.which = r.which /\ q.s = space.is_seq
        /\ q.gen0 = r.gen0 /\ q.seq0 = r.seq0 /\ q.settled = r.settled /\ q.rp = r.rp
        /\ q.dest = r.dest
    BY <1>1 DEF SenderLocals, SenderPcs
  <2> HIDE DEF q
  <2>3. Knows(r) => Knows(q)
    BY <1>1, <2>2 DEF Knows, ReplyKnown
  <2>4. q.seq0 <= q.s
    BY <1>1, <2>2 DEF ResolveOK, Resolving
  <2>5. ResolveOK(q)
    BY <1>1, <2>2, <2>3, <2>4, Carried DEF Resolving
  <2> QED
    BY <2>1, <2>5, SetsLearns
<1> QED
  BY <1>2, <1>3, <1>4

LEMMA LookupTableLearns ==
  ASSUME Inv, NEW t \in Senders, LookupTable(t), NEW r \in SenderLocals, r = S[t], ResolveOK(r)
  PROVE  Learns(t)
<1>1. space.is_table_size \in Nat /\ space.is_table \in Blocks
  BY DEF Inv, Typed, Spaces
<1> DEFINE a == [r EXCEPT !.pc = "l_table", !.size = space.is_table_size]
           b == [r EXCEPT !.pc = "l_entry", !.tab = space.is_table]
<1>2. \/ Sets(t, a) /\ r.pc = "l_size"
      \/ Sets(t, b) /\ r.pc = "l_table"
  BY DEF LookupTable, Pc
<1>3. /\ a \in SenderLocals /\ a.pc = "l_table" /\ a.which = r.which /\ a.s = r.s
      /\ a.gen0 = r.gen0 /\ a.seq0 = r.seq0 /\ a.settled = r.settled /\ a.rp = r.rp
      /\ a.dest = r.dest
  BY <1>1 DEF SenderLocals, SenderPcs
<1>4. /\ b \in SenderLocals /\ b.pc = "l_entry" /\ b.which = r.which /\ b.s = r.s
      /\ b.gen0 = r.gen0 /\ b.seq0 = r.seq0 /\ b.settled = r.settled /\ b.rp = r.rp
      /\ b.dest = r.dest
  BY <1>1 DEF SenderLocals, SenderPcs
<1> HIDE DEF a, b
<1>5. PICK q \in {a, b} : /\ Sets(t, q) /\ r.pc \in {"l_size", "l_table"}
  BY <1>2
<1>6. /\ q \in SenderLocals /\ q.pc \in {"l_table", "l_entry"} /\ q.which = r.which
      /\ q.s = r.s
      /\ q.gen0 = r.gen0 /\ q.seq0 = r.seq0 /\ q.settled = r.settled /\ q.rp = r.rp
      /\ q.dest = r.dest
  BY <1>3, <1>4
<1>7. Knows(r) => Knows(q)
  BY <1>5, <1>6 DEF Knows, ReplyKnown
<1>8. r.seq0 <= r.s
  BY <1>5 DEF ResolveOK, Walking
<1>9. ResolveOK(q)
  BY <1>5, <1>6, <1>7, <1>8, Carried DEF Resolving
<1> QED
  BY <1>5, <1>9, SetsLearns

LEMMA EntrySet ==
  ASSUME NEW r \in SenderLocals, NEW k \in Locs \cup {NULL}, NEW size \in Nat, NEW tab \in Blocks
  PROVE  [r EXCEPT !.pc = "l_check", !.ent = k, !.size = size, !.tab = tab] \in SenderLocals
  BY DEF SenderLocals, SenderPcs

LEMMA CheckSet ==
  ASSUME NEW r \in SenderLocals, NEW pc \in SenderPcs, NEW s \in Nat
  PROVE  [r EXCEPT !.pc = pc, !.s = s] \in SenderLocals
  BY DEF SenderLocals

LEMMA LookupEntryLearns ==
  ASSUME Inv, NEW t \in Senders, LookupEntry(t), NEW r \in SenderLocals, r = S[t], ResolveOK(r)
  PROVE  Learns(t)
<1>0. r.pc = "l_entry" /\ LookOK(t) /\ Target(r) \in Names
  BY SenderFacts DEF LookupEntry, Pc, Inv, LookInv
<1> PICK n \in Names, i \in Indices : n = Target(r) /\ i = Index(n)
  BY <1>0, NameFacts
<1> PICK l : l = Slot(i, r.tab, r.size)
  OBVIOUS
<1> PICK k : k = IF Matches(n, l) THEN l ELSE NULL
  OBVIOUS
<1>1. k \in Locs \cup {NULL}
  <2>1. r.tab \in Blocks /\ space.is_tree[i] \in Ites \cup {NULL}
    BY DEF SenderLocals, Inv, Typed, Spaces
  <2> QED
    BY <2>1, LocFacts DEF Slot
<1> DEFINE q == [r EXCEPT !.pc = "l_check", !.ent = k, !.size = 0, !.tab = 1]
<1>2. Sets(t, q)
  BY DEF LookupEntry
<1>3. /\ q \in SenderLocals /\ q.pc = "l_check" /\ q.which = r.which /\ q.s = r.s /\ q.ent = k
      /\ q.gen0 = r.gen0 /\ q.seq0 = r.seq0 /\ q.settled = r.settled /\ q.rp = r.rp
      /\ q.dest = r.dest
  <2>1. q \in SenderLocals
    BY <1>1, Sizes, EntrySet
  <2>2. /\ q.pc = "l_check" /\ q.which = r.which /\ q.s = r.s /\ q.ent = k
        /\ q.gen0 = r.gen0 /\ q.seq0 = r.seq0 /\ q.settled = r.settled /\ q.rp = r.rp
        /\ q.dest = r.dest
    BY DEF SenderLocals
  <2> QED
    BY <2>1, <2>2
<1> HIDE DEF q
<1>4. r.seq0 <= r.s
  BY <1>0 DEF ResolveOK, Walking
<1>5. ASSUME Valid(r), k # NULL PROVE space.is_seq % 2 = 0 /\ Found(n, k)
  <2>1. r.s = space.is_seq /\ space.is_seq % 2 = 0
    <3>1. r.s <= space.is_seq /\ r.s % 2 = 0
      BY <1>0 DEF LookOK, Walking
    <3>2. r.seq0 = space.is_seq /\ r.s \in Nat /\ space.is_seq \in Nat
      BY <1>5, SpaceNumbers DEF Valid, SenderLocals
    <3>3. r.s = space.is_seq
      BY <1>4, <3>1, <3>2
    <3> QED
      BY <3>1, <3>3
  <2>2. r.tab = space.is_table /\ r.size = space.is_table_size
    BY <1>0, <2>1 DEF LookOK
  <2>3. Phase \notin TablePcs
    BY <2>1 DEF Inv, MapInv, TableInv
  <2>4. l = Where(i)
    BY <2>2, <2>3, Steady DEF Inv, MapInv
  <2>5. Matches(n, l) /\ k = l
    BY <1>5
  <2>6. mem[l].gen = Gen(n) /\ (l \notin Ites => rights[n] # NULL)
    BY <2>4, <2>5, MatchMeans DEF Inv, MapInv
  <2>7. l \notin Ites
    <3>1. Limit \in Nat /\ Limit >= SIZES[1]
      BY <2>3, Steady, Sizes DEF Inv, MapInv
    <3>2. i < SIZES[1]
      BY <1>5, NameFacts, Sizes DEF Valid, Dense, Target
    <3>3. i < Limit
      BY <3>1, <3>2, IndexFacts, Sizes
    <3> QED
      BY <2>4, <3>3, WhereFacts, LocFacts DEF Inv, MapInv
  <2> QED
    BY <2>1, <2>4, <2>5, <2>6, <2>7 DEF Found
<1>6. Target(q) = n
  BY <1>3 DEF Target
<1>7. Valid(r) /\ Knows(r) => Knows(q)
  BY <1>0, <1>3, <1>5, <1>6 DEF Knows, ReplyKnown
<1>8. ResolveOK(q)
  BY <1>0, <1>3, <1>4, <1>7, Carried DEF Resolving
<1> QED
  BY <1>2, <1>8, SetsLearns

LEMMA LookupCheckLearns ==
  ASSUME Inv, NEW t \in Senders, LookupCheck(t), NEW r \in SenderLocals, r = S[t], ResolveOK(r)
  PROVE  Learns(t)
<1> PICK pc \in {"got", "l_seq"} : pc = IF SameTable(r) THEN "got" ELSE "l_seq"
  OBVIOUS
<1> DEFINE q == [r EXCEPT !.pc = pc, !.s = 0]
<1>1. Sets(t, q) /\ r.pc = "l_check"
  BY DEF LookupCheck, Pc
<1>2. /\ q \in SenderLocals /\ q.pc = pc /\ q.which = r.which /\ q.ent = r.ent
      /\ q.gen0 = r.gen0 /\ q.seq0 = r.seq0 /\ q.settled = r.settled /\ q.rp = r.rp
      /\ q.dest = r.dest
  <2>1. q \in SenderLocals
    BY CheckSet DEF SenderPcs
  <2>2. /\ q.pc = pc /\ q.which = r.which /\ q.ent = r.ent
        /\ q.gen0 = r.gen0 /\ q.seq0 = r.seq0 /\ q.settled = r.settled /\ q.rp = r.rp
        /\ q.dest = r.dest
    BY DEF SenderLocals
  <2> QED
    BY <2>1, <2>2
<1> HIDE DEF q
<1>3. Target(q) = Target(r)
  BY <1>2 DEF Target
<1>4. Knows(r) => Knows(q)
  BY <1>1, <1>2, <1>3 DEF Knows, ReplyKnown
<1>5. ResolveOK(q)
  BY <1>1, <1>2, <1>4, Carried DEF Resolving, Walking
<1> QED
  BY <1>1, <1>5, SetsLearns

\* The entry of a name that denotes something.
LEMMA EntryMeans ==
  ASSUME Inv, NEW n \in Names, NEW i \in Indices, i = Index(n),
         NEW l, l = Where(i), l # NULL, mem[l].gen = Gen(n)
  PROVE  /\ l \in Locs /\ mem[l] \in Entries /\ EntryOK(i, mem[l])
         /\ mem[l].type = "none" <=> rights[n] = NULL
         /\ mem[l].type = "dead" <=> rights[n] = DEAD
         /\ mem[l].type \in {"send", "receive"} =>
              \E p \in Ports : /\ rights[n] = Id(p) /\ mem[l].obj \in {p, NULL}
                               /\ mem[l].type = "receive" <=> p = ReplyPort
                               /\ p = ReplyPort => n = ReplyName
<1>1. n = <<i, Gen(n)>>
  BY NameFacts
<1>2. l \in Locs
  BY WhereFacts DEF Inv, MapInv
<1>3. EntryOK(i, mem[l])
  BY DEF Inv, MapInv, EntryInv, EntryAt
<1>4. mem[l] \in Entries
  BY <1>2 DEF Inv, Typed
<1> QED
  BY <1>1, <1>2, <1>3, <1>4 DEF EntryOK

LEMMA ResolveTypeLearns ==
  ASSUME Inv, NEW t \in Senders, ResolveType(t), NEW r \in SenderLocals, r = S[t], ResolveOK(r)
  PROVE  Learns(t)
<1>0. r.pc = "got" /\ Target(r) \in Names
  BY SenderFacts DEF ResolveType, Pc, Inv
<1> PICK n \in Names, i \in Indices : n = Target(r) /\ i = Index(n)
  BY <1>0, NameFacts
<1>1. CASE ~(r.ent # NULL /\ Type(r.ent) = Wanted(r))
  <2>1. Sets(t, Locked(r.dest))
    BY <1>1 DEF ResolveType
  <2> QED
    BY <2>1, IdleLearns
<1>2. CASE r.ent # NULL /\ Type(r.ent) = Wanted(r)
  <2> PICK l : l = r.ent
    OBVIOUS
  <2>0. mem[l].type = Wanted(r) /\ l # NULL /\ Wanted(r) \in {"send", "receive"}
        /\ (r.which = "reply" => mem[l].type = "receive")
    BY <1>2 DEF Type, Wanted
  <2> PICK zero \in 0 .. MAX_TRIES : zero = 0
    BY TriesAssumption
  <2> DEFINE q == [r EXCEPT !.pc = "obj", !.tries = zero]
  <2>1. Sets(t, q)
    BY <1>2 DEF ResolveType
  <2>2. /\ q \in SenderLocals /\ q.pc = "obj" /\ q.which = r.which /\ q.ent = l
        /\ q.gen0 = r.gen0 /\ q.seq0 = r.seq0 /\ q.settled = r.settled /\ q.rp = r.rp
        /\ q.dest = r.dest
    BY DEF SenderLocals, SenderPcs
  <2> HIDE DEF q
  <2>3. ASSUME Valid(r), Knows(r)
        PROVE  /\ space.is_seq % 2 = 0 /\ Found(n, l)
               /\ r.which = "reply" => rights[ReplyName] = Id(ReplyPort)
    <3>1. space.is_seq % 2 = 0 /\ Found(n, l)
      BY <1>0, <2>0, <2>3 DEF Knows
    <3>2. l = Where(i) /\ mem[l].gen = Gen(n)
      BY <3>1 DEF Found
    <3>4. r.which = "reply" => rights[ReplyName] = Id(ReplyPort)
      <4> SUFFICES ASSUME r.which = "reply" PROVE rights[ReplyName] = Id(ReplyPort)
        OBVIOUS
      <4>1. n = ReplyName /\ mem[l].type = "receive"
        BY <2>0 DEF Target
      <4> QED
        BY <2>0, <3>2, <4>1, EntryMeans
    <3> QED
      BY <3>1, <3>4
  <2>4. Target(q) = n
    BY <2>2 DEF Target
  <2>5. Valid(r) /\ Knows(r) => Knows(q)
    BY <2>2, <2>3, <2>4 DEF Knows, ReplyKnown
  <2>6. ResolveOK(q)
    BY <1>0, <2>2, <2>5, Carried DEF Resolving, Walking
  <2> QED
    BY <2>1, <2>6, SetsLearns
<1> QED
  BY <1>1, <1>2

\* An object that is read from the entry of a name in use is the port that the
\* name denotes, unless that port is dead.
LEMMA ObjectDenoted ==
  ASSUME Inv, NEW n \in Names, NEW i \in Indices, i = Index(n),
         NEW l, l = Where(i), l # NULL, mem[l].gen = Gen(n), rights[n] # NULL,
         NEW o, o = mem[l].obj, o # NULL
  PROVE  o \in Ports /\ Denoted(n, o)
<1>1. /\ l \in Locs /\ mem[l] \in Entries /\ EntryOK(i, mem[l])
      /\ mem[l].type # "none"
      /\ mem[l].type \in {"send", "receive"} =>
              \E p \in Ports : /\ rights[n] = Id(p) /\ mem[l].obj \in {p, NULL}
  BY EntryMeans
<1>2. o \in Ports /\ mem[l].type \in {"send", "receive", "dead"}
  BY <1>1 DEF Entries, Types
<1>3. CASE mem[l].type # "dead"
  BY <1>1, <1>2, <1>3 DEF Denoted
<1>4. CASE mem[l].type = "dead"
  <2>1. Busy(i)
    BY <1>1, <1>4 DEF EntryOK
  <2>2. PICK v \in Workers : v = lock.writer /\ W[v].pc \in NamePcs /\ Index(W[v].name) = i
    BY <2>1 DEF Busy, Inv, Typed
  <2>3. WorkOK(v) /\ W[v].loc = l
    BY <2>2, NameWork DEF Inv
  <2>4. W[v].pc \in {"lock", "dead", "obj", "free", "bits", "bump", "c_obj", "c_bits"}
    BY <2>2 DEF NamePcs
  <2>5. ~port[o].active
    BY <1>4, <2>3, <2>4 DEF WorkOK
  <2> QED
    BY <1>2, <2>5 DEF Denoted
<1> QED
  BY <1>3, <1>4

LEMMA ReplySet ==
  ASSUME NEW r \in SenderLocals, NEW o \in Ports \cup {NULL}
  PROVE  [r EXCEPT !.pc = "l_seq", !.which = "dest", !.rp = o, !.ent = NULL] \in SenderLocals
  BY DEF SenderLocals, SenderPcs

LEMMA DestSet ==
  ASSUME NEW r \in SenderLocals, NEW o \in Ports \cup {NULL}
  PROVE  [r EXCEPT !.pc = "lock", !.dp = o, !.ent = NULL] \in SenderLocals
  BY DEF SenderLocals, SenderPcs

LEMMA ResolveObjectLearns ==
  ASSUME Inv, NEW t \in Senders, ResolveObject(t), NEW r \in SenderLocals, r = S[t], ResolveOK(r)
  PROVE  Learns(t)
<1>0. r.pc = "obj" /\ Target(r) \in Names /\ r.ent # NULL /\ r.ent \in Locs
  BY SenderFacts DEF ResolveObject, Pc, Inv, SenderOK, SenderLocals
<1> PICK n \in Names, i \in Indices, l \in Locs : n = Target(r) /\ i = Index(n) /\ l = r.ent
  BY <1>0, NameFacts
<1> PICK o \in Ports \cup {NULL} : o = mem[l].obj
  BY DEF Inv, Typed, Entries
<1>1. Valid(r) => Knows(r)
  BY <1>0 DEF ResolveOK, Resolving
<1>2. Knows(r) => /\ l = Where(i) /\ mem[l].gen = Gen(n) /\ rights[n] # NULL
                  /\ r.which = "reply" => rights[ReplyName] = Id(ReplyPort)
  BY <1>0 DEF Knows, Found
<1>3. CASE r.which = "reply"
  <2> DEFINE q == [r EXCEPT !.pc = "l_seq", !.which = "dest", !.rp = o, !.ent = NULL]
  <2>1. Sets(t, q)
    BY <1>3 DEF ResolveObject
  <2>2. /\ q \in SenderLocals /\ q.pc = "l_seq" /\ q.which = "dest" /\ q.rp = o
        /\ q.gen0 = r.gen0 /\ q.seq0 = r.seq0 /\ q.settled = r.settled /\ q.dest = r.dest
    <3>1. q \in SenderLocals
      BY ReplySet
    <3>2. /\ q.pc = "l_seq" /\ q.which = "dest" /\ q.rp = o
          /\ q.gen0 = r.gen0 /\ q.seq0 = r.seq0 /\ q.settled = r.settled /\ q.dest = r.dest
      BY DEF SenderLocals
    <3> QED
      BY <3>1, <3>2
  <2> HIDE DEF q
  <2>3. ASSUME Knows(r) PROVE rights[ReplyName] = Id(ReplyPort) /\ o \in {ReplyPort, NULL}
    <3>1. /\ n = ReplyName /\ rights[n] = Id(ReplyPort) /\ l = Where(i)
          /\ mem[l].gen = Gen(n) /\ l # NULL /\ ReplyPort \in Ports
      BY <1>0, <1>2, <1>3, <2>3, PortsAssumption DEF Target
    <3>2. Id(ReplyPort) \notin {NULL, DEAD} /\ \A p \in Ports : Id(p) = Id(ReplyPort) => p = ReplyPort
      BY <3>1, IdFacts DEF Inv
    <3>3. mem[l].type \in {"send", "receive"}
      <4>1. mem[l] \in Entries /\ mem[l].type \notin {"none", "dead"}
        BY <3>1, <3>2, EntryMeans
      <4> QED
        BY <4>1 DEF Entries, Types
    <3>4. PICK p \in Ports : rights[n] = Id(p) /\ mem[l].obj \in {p, NULL}
      BY <3>1, <3>3, EntryMeans
    <3> QED
      BY <3>1, <3>2, <3>4
  <2>4. Knows(r) => Knows(q)
    BY <2>2, <2>3 DEF Knows, ReplyKnown
  <2>5. ResolveOK(q)
    BY <1>0, <2>2, <2>4, Carried DEF Resolving, Walking
  <2> QED
    BY <2>1, <2>5, SetsLearns
<1>4. CASE r.which # "reply" /\ (r.rp = NULL \/ o = NULL)
  <2>1. Sets(t, Locked(r.dest))
    BY <1>4 DEF ResolveObject
  <2> QED
    BY <2>1, IdleLearns
<1>5. CASE r.which # "reply" /\ ~(r.rp = NULL \/ o = NULL)
  <2> DEFINE q == [r EXCEPT !.pc = "lock", !.dp = o, !.ent = NULL]
  <2>1. Sets(t, q)
    BY <1>5 DEF ResolveObject
  <2>2. /\ q \in SenderLocals /\ q.pc = "lock" /\ q.which = r.which /\ q.rp = r.rp /\ q.dp = o
        /\ q.gen0 = r.gen0 /\ q.seq0 = r.seq0 /\ q.settled = r.settled /\ q.dest = r.dest
    <3>1. q \in SenderLocals
      BY DestSet
    <3>2. /\ q.pc = "lock" /\ q.which = r.which /\ q.rp = r.rp /\ q.dp = o
          /\ q.gen0 = r.gen0 /\ q.seq0 = r.seq0 /\ q.settled = r.settled /\ q.dest = r.dest
      BY DEF SenderLocals
    <3> QED
      BY <3>1, <3>2
  <2> HIDE DEF q
  <2>3. r.which = "dest" /\ n = r.dest
    BY <1>5 DEF SenderLocals, Target
  <2>4. Knows(r) => Denoted(n, o)
    BY <1>0, <1>2, <1>5, ObjectDenoted
  <2>5. Knows(r) => Knows(q)
    BY <2>2, <2>3, <2>4 DEF Knows, ReplyKnown
  <2>6. ResolveOK(q)
    BY <1>0, <2>2, <2>5, Carried DEF Resolving, Walking
  <2> QED
    BY <2>1, <2>6, SetsLearns
<1> QED
  BY <1>3, <1>4, <1>5

LEMMA ResolveTryLearns ==
  ASSUME Inv, NEW t \in Senders, ResolveTry(t), NEW r \in SenderLocals, r = S[t], ResolveOK(r)
  PROVE  Learns(t)
<1> DEFINE q == [r EXCEPT !.pc = "verify"]
<1>1. r.pc = "try" /\ (Sets(t, q) \/ Sets(t, Locked(r.dest)))
  BY DEF ResolveTry, Pc
<1>2. /\ q \in SenderLocals /\ q.pc = "verify" /\ q.which = r.which /\ q.rp = r.rp
      /\ q.dp = r.dp /\ q.dest = r.dest
      /\ q.gen0 = r.gen0 /\ q.seq0 = r.seq0 /\ q.settled = r.settled
  BY DEF SenderLocals, SenderPcs
<1> HIDE DEF q
<1>3. Knows(r) => Knows(q)
  BY <1>1, <1>2 DEF Knows, ReplyKnown
<1>4. ResolveOK(q)
  BY <1>1, <1>2, <1>3, Carried DEF Resolving, Walking
<1> QED
  BY <1>1, <1>4, SetsLearns, IdleLearns

LEMMA ResolveVerifyLearns ==
  ASSUME Inv, NEW t \in Senders, ResolveVerify(t), NEW r \in SenderLocals, r = S[t], ResolveOK(r)
  PROVE  Learns(t)
<1>0. r.pc = "verify" /\ SenderOK(t)
  BY SenderFacts DEF ResolveVerify, Pc, Inv
<1>1. CASE ~SnapshotHolds(r)
  <2>1. Sets(t, Locked(r.dest))
    BY <1>1 DEF ResolveVerify
  <2> QED
    BY <2>1, IdleLearns
<1>2. CASE SnapshotHolds(r)
  <2> DEFINE q == [r EXCEPT !.pc = "fill", !.settled = @ /\ Settled]
  <2>1. Sets(t, q)
    BY <1>2 DEF ResolveVerify
  <2>2. /\ q.pc = "fill" /\ q.rp = r.rp /\ q.dp = r.dp /\ q.dest = r.dest
        /\ q.settled => r.settled /\ Settled
    BY DEF SenderLocals
  <2> HIDE DEF q
  <2>3. ASSUME q.settled, Dense(r.dest)
        PROVE  /\ rights[r.dest] = Id(r.dp) /\ r.rp = ReplyPort
               /\ rights[ReplyName] = Id(ReplyPort)
    <3>1. NoBump
      BY <2>2, <2>3, SettledMeans
    <3>2. Valid(r)
      BY <1>2, <2>2, <2>3, <3>1 DEF Valid, Current, SnapshotHolds
    <3>3. Knows(r)
      BY <1>0, <3>2 DEF ResolveOK, Resolving
    <3>4. Denoted(r.dest, r.dp) /\ ReplyKnown(r)
      BY <1>0, <3>3 DEF Knows
    <3>5. port[r.dp].active /\ r.rp \in Ports
      BY <1>0 DEF SenderOK, TwoHeld
    <3> QED
      BY <3>4, <3>5, KindFacts DEF Denoted, ReplyKnown
  <2>4. ResolveOK(q)
    BY <2>2, <2>3 DEF ResolveOK, Resolving, Walking
  <2> QED
    BY <2>1, <2>4, SetsLearns
<1> QED
  BY <1>1, <1>2

LEMMA ReadLockLearns ==
  ASSUME Inv, NEW t \in Senders, ReadLock(t)
  PROVE  Learns(t)
<1> DEFINE q == [S[t] EXCEPT !.pc = "r_find"]
<1>1. Sets(t, q)
  BY DEF ReadLock
<1>2. q.pc = "r_find"
  BY DEF Inv, Typed, SenderLocals
<1> HIDE DEF q
<1> QED
  BY <1>1, <1>2, OutsideResolves, SetsLearns DEF Resolving

LEMMA ReadFindLearns ==
  ASSUME Inv, NEW t \in Senders, ReadFind(t), NEW r \in SenderLocals, r = S[t]
  PROVE  Learns(t)
<1>0. r.pc = "r_find" /\ r.dest \in Names /\ ReplyName \in Names
  BY SenderFacts, NameFacts DEF ReadFind, Pc, Inv
<1>1. lock.writer = NULL
  BY <1>0 DEF Inv, Locks, SpaceLock, Reading
<1> PICK re, de : re = ipc_entry_lookup(ReplyName) /\ de = ipc_entry_lookup(r.dest)
  OBVIOUS
<1>2. CASE ~(/\ re # NULL /\ Type(re) = "receive"
             /\ de # NULL /\ Type(de) = "send")
  <2>1. Sets(t, IdleSender)
    BY <1>2 DEF ReadFind
  <2> QED
    BY <2>1, IdleLearns
<1>3. CASE /\ re # NULL /\ Type(re) = "receive"
           /\ de # NULL /\ Type(de) = "send"
  <2>1. /\ rights[ReplyName] = Id(mem[re].obj) /\ mem[re].obj = ReplyPort
    BY <1>0, <1>1, <1>3, ReadMeans DEF Inv, MapInv
  <2>2. rights[r.dest] = Id(mem[de].obj)
    BY <1>0, <1>1, <1>3, ReadMeans DEF Inv, MapInv
  <2> PICK rp, dp : rp = mem[re].obj /\ dp = mem[de].obj
    OBVIOUS
  <2> DEFINE q == [r EXCEPT !.pc = "r_port", !.rp = rp, !.dp = dp]
  <2>3. Sets(t, q)
    BY <1>3 DEF ReadFind
  <2>4. q.pc = "r_port" /\ q.rp = rp /\ q.dp = dp /\ q.dest = r.dest
    BY DEF SenderLocals
  <2> HIDE DEF q
  <2>5. ResolveOK(q)
    BY <2>1, <2>2, <2>4 DEF ResolveOK, Resolving, Walking
  <2> QED
    BY <2>3, <2>5, SetsLearns
<1> QED
  BY <1>2, <1>3

LEMMA ReadTryLearns ==
  ASSUME Inv, NEW t \in Senders, ReadTry(t), NEW r \in SenderLocals, r = S[t], ResolveOK(r)
  PROVE  Learns(t)
<1> DEFINE q == [r EXCEPT !.pc = "fill", !.settled = TRUE]
<1>1. r.pc = "r_try" /\ (Sets(t, q) \/ Sets(t, IdleSender))
  BY DEF ReadTry, Pc
<1>2. q.pc = "fill" /\ q.rp = r.rp /\ q.dp = r.dp /\ q.dest = r.dest
  BY DEF SenderLocals
<1> HIDE DEF q
<1>3. ResolveOK(q)
  BY <1>1, <1>2 DEF ResolveOK, Resolving, Walking
<1> QED
  BY <1>1, <1>3, SetsLearns, IdleLearns

LEMMA FillCacheLearns ==
  ASSUME Inv, NEW t \in Senders, FillCache(t)
  PROVE  Learns(t)
<1> DEFINE q == [IdleSender EXCEPT !.pc = "send", !.dest = S[t].dest, !.rp = S[t].rp,
                                   !.dp = S[t].dp]
<1>1. Sets(t, q)
  BY DEF FillCache
<1>2. q.pc = "send"
  BY DEF IdleSender
<1> HIDE DEF q
<1> QED
  BY <1>1, <1>2, OutsideResolves, SetsLearns DEF Resolving

LEMMA SendLearns ==
  ASSUME Inv, NEW t \in Senders, Send(t)
  PROVE  Learns(t)
  BY IdleLearns DEF Send

LEMMA SenderLearns ==
  ASSUME Inv, ResolveInv, NEW t \in Senders,
         SenderStep(t) \/ \E d \in Dests : ProbeCache(t, d)
  PROVE  Learns(t)
<1> PICK r \in SenderLocals : r = S[t]
  BY DEF Inv, Typed
<1>1. ResolveOK(r)
  BY DEF ResolveInv
<1> QED
  BY <1>1, ProbeCacheLearns, LockDestLearns, CacheTryLearns, SnapshotLearns, LookupSeqLearns,
     LookupTableLearns, LookupEntryLearns, LookupCheckLearns, ResolveTypeLearns,
     ResolveObjectLearns, ResolveTryLearns, ResolveVerifyLearns, ReadLockLearns,
     ReadFindLearns, ReadTryLearns, FillCacheLearns, SendLearns DEF SenderStep

-----------------------------------------------------------------------------
(* Resolving: the invariant. *)

\* A step of a sender leaves the space, the workers and the other senders, and
\* of the ports it changes only who holds them.
LEMMA SenderStill ==
  ASSUME Inv, NEW t \in Senders, SenderStep(t) \/ \E d \in Dests : ProbeCache(t, d)
  PROVE  /\ mem' = mem /\ space' = space /\ W' = W /\ rights' = rights
         /\ lock'.writer = lock.writer
         /\ \A u \in Senders \ {t} : S'[u] = S[u]
         /\ \A p \in Ports : port'[p].inc = port[p].inc /\ port'[p].active = port[p].active
<1>1. mem' = mem /\ space' = space /\ W' = W /\ rights' = rights
  BY DEF SenderStep, ProbeCache, LockDest, CacheTry, Snapshot, LookupSeq, LookupTable,
         LookupEntry, LookupCheck, ResolveType, ResolveObject, ResolveTry, ResolveVerify,
         ReadLock, ReadFind, ReadTry, FillCache, Send, NoWorker
<1>2. \A u \in Senders \ {t} : S'[u] = S[u]
  <2>1. \E q : Sets(t, q)
    BY DEF SenderStep, ProbeCache, LockDest, CacheTry, Snapshot, LookupSeq, LookupTable,
           LookupEntry, LookupCheck, ResolveType, ResolveObject, ResolveTry, ResolveVerify,
           ReadLock, ReadFind, ReadTry, FillCache, Send
  <2> QED
    BY <2>1 DEF Sets, Inv, Typed
<1>5. lock'.writer = lock.writer
  <2>1. lock' = lock \/ \E x : lock' = [lock EXCEPT !.readers = x]
    BY DEF SenderStep, ProbeCache, LockDest, CacheTry, Snapshot, LookupSeq, LookupTable,
           LookupEntry, LookupCheck, ResolveType, ResolveObject, ResolveTry, ResolveVerify,
           ReadLock, ReadFind, ReadTry, FillCache, Send
  <2> QED
    BY <2>1 DEF Inv, Typed
<1>6. \A p \in Ports : port'[p].inc = port[p].inc /\ port'[p].active = port[p].active
  <2>1. \/ port' = port
        \/ \E x, v : port' = [port EXCEPT ![x].owner = v]
        \/ port' = Unlocked(S[t])
    BY DEF SenderStep, ProbeCache, LockDest, CacheTry, Snapshot, LookupSeq, LookupTable,
           LookupEntry, LookupCheck, ResolveType, ResolveObject, ResolveTry, ResolveVerify,
           ReadLock, ReadFind, ReadTry, FillCache, Send, Lock, LockReply
  <2>2. port \in [Ports -> PortStates]
    BY DEF Inv, Typed
  <2>3. ASSUME NEW x, NEW v, port' = [port EXCEPT ![x].owner = v]
        PROVE  \A p \in Ports : port'[p].inc = port[p].inc /\ port'[p].active = port[p].active
    BY <2>2, <2>3 DEF PortStates
  <2>4. CASE port' = Unlocked(S[t])
    <3> PICK a, b : a = S[t].rp /\ b = S[t].dp
      OBVIOUS
    <3>1. port' = [port EXCEPT ![a].owner = NULL, ![b].owner = NULL]
      BY <2>4 DEF Unlocked
    <3> QED
      BY <2>2, <3>1 DEF PortStates
  <2> QED
    BY <2>1, <2>3, <2>4
<1> QED
  BY <1>1, <1>2, <1>5, <1>6

\* What is known of a space that stays is still known.
LEMMA StillKnown ==
  ASSUME mem' = mem, space' = space, W' = W, rights' = rights, lock'.writer = lock.writer,
         \A p \in Ports : port'[p].inc = port[p].inc /\ port'[p].active = port[p].active,
         NEW q,
         q.pc \in {"lock", "try", "verify", "fill", "r_port", "r_try"} => q.dp \in Ports,
         ResolveOK(q)
  PROVE  ResolveOK(q)'
<1>1. \A i : Where(i)' = Where(i)
  BY DEF Where, Limit, Home, Phase
<1>2. (NoDestroy' <=> NoDestroy) /\ (NoBump' <=> NoBump)
  BY DEF NoDestroy, NoBump
<1>3. /\ Current(q)' <=> Current(q)
      /\ Valid(q)' <=> Valid(q)
      /\ Dense(q.dest)' <=> Dense(q.dest)
  BY <1>2 DEF Current, Valid, Dense
<1>4. \A p \in Ports : Id(p)' = Id(p)
  BY DEF Id
<1>5. Id(ReplyPort)' = Id(ReplyPort)
  BY <1>4, PortsAssumption
<1>6. \A n, l : Found(n, l) => Found(n, l)'
  BY <1>1 DEF Found
<1>7. q.dp \in Ports => (Denoted(q.dest, q.dp) => Denoted(q.dest, q.dp)')
  BY <1>4 DEF Denoted
<1>8. ReplyKnown(q) => ReplyKnown(q)'
  BY <1>5 DEF ReplyKnown
<1>9. Knows(q) => Knows(q)'
  <2>1. PICK n : n = Target(q)
    OBVIOUS
  <2> QED
    BY <1>1, <1>5, <1>6, <1>7, <1>8, <2>1 DEF Knows, Target
<1> QED
  BY <1>2, <1>3, <1>4, <1>5, <1>9 DEF ResolveOK

LEMMA SenderResolves ==
  ASSUME Inv, Inv', ResolveInv, NEW t \in Senders,
         SenderStep(t) \/ \E d \in Dests : ProbeCache(t, d)
  PROVE  ResolveInv'
<1>1. /\ mem' = mem /\ space' = space /\ W' = W /\ rights' = rights
      /\ lock'.writer = lock.writer
      /\ \A u \in Senders \ {t} : S'[u] = S[u]
      /\ \A p \in Ports : port'[p].inc = port[p].inc /\ port'[p].active = port[p].active
  BY SenderStill
<1>2. Effect(t)
  BY <1>1, StillEffect
<1>3. \A q \in {S'[t]} : ResolveOK(q)'
  <2> PICK q : q = S'[t]
    OBVIOUS
  <2>1. ResolveOK(q)
    BY SenderLearns DEF Learns
  <2>2. q.pc \in {"lock", "try", "verify", "fill", "r_port", "r_try"} => q.dp \in Ports
    BY DEF Inv, Locks, SenderPorts, SenderOK, OneHeld, TwoHeld
  <2>3. ResolveOK(q)'
    BY <1>1, <2>1, <2>2, StillKnown
  <2> QED
    BY <2>3
<1>4. \A u \in Senders \ {t} : \A q \in {S'[u]} : ResolveOK(q)'
  <2> SUFFICES ASSUME NEW u \in Senders, u # t, NEW q, q = S'[u] PROVE ResolveOK(q)'
    OBVIOUS
  <2>1. q = S[u] /\ q \in SenderLocals /\ ResolveOK(q)
    BY <1>1 DEF ResolveInv, Inv, Typed
  <2> QED
    BY <1>2, <2>1, ResolveFrame
<1> QED
  BY <1>3, <1>4 DEF ResolveInv

\* Steps of the others leave the senders.
LEMMA OtherResolves ==
  ASSUME Inv, Inv', ResolveInv, NEW x, x \notin Senders, Effect(x), S' = S
  PROVE  ResolveInv'
<1> SUFFICES ASSUME NEW u \in Senders, NEW q, q = S'[u] PROVE ResolveOK(q)'
  BY DEF ResolveInv
<1>1. q = S[u] /\ q \in SenderLocals /\ ResolveOK(q) /\ u # x
  BY DEF ResolveInv, Inv, Typed
<1> QED
  BY <1>1, ResolveFrame

LEMMA WorkerResolves ==
  ASSUME Inv, Inv', ResolveInv, NEW w \in Workers, WorkerStep(w) \/ WorkerStart(w)
  PROVE  ResolveInv'
<1>1. Effect(w) /\ w \notin Senders
  BY WorkerEffect, KindFacts
<1>2. S' = S
  <2>1. NoSender
    BY DEF WorkerStep, WorkerStart, RemoveLookup, RemoveLock, CheckDead, RemoveObject,
           DestroyFree, DestroyPort, MoveBits, MoveBump, CopyoutGet, CopyoutName,
           CopyoutObject, CopyoutBits, GrowStart, GrowOpen, GrowFails, GrowPublish,
           GrowCopy, GrowMove, GrowFree
  <2> QED
    BY <2>1 DEF NoSender
<1> QED
  BY <1>1, <1>2, OtherResolves

LEMMA PortDiesResolves ==
  ASSUME Inv, Inv', ResolveInv, NEW d \in Ports, PortDies(d)
  PROVE  ResolveInv'
<1>1. /\ UNCHANGED <<mem, space, W, rights, lock, S, cache>>
      /\ port' = [port EXCEPT ![d].active = FALSE]
  BY DEF PortDies, NoWorker
<1>2. \A p \in Ports : port'[p].inc = port[p].inc /\ (port'[p].active => port[p].active)
  <2>1. port \in [Ports -> PortStates]
    BY DEF Inv, Typed
  <2> QED
    BY <1>1, <2>1 DEF PortStates
<1>3. Effect(NULL) /\ NULL \notin Senders
  BY <1>1, <1>2, StillEffect, KindFacts
<1> QED
  BY <1>1, <1>3, OtherResolves

\* A step of another space, and a stuttering step.
LEMMA StutterResolves ==
  ASSUME Inv, Inv', ResolveInv, (\E e \in Ites : IteReused(e)) \/ UNCHANGED vars
  PROVE  ResolveInv'
<1>1. UNCHANGED <<space, W, rights, S, port>>
  BY DEF vars, IteReused, NoSender
<1>2. Effect(NULL) /\ NULL \notin Senders
  BY <1>1, StillEffect, KindFacts
<1> QED
  BY <1>1, <1>2, OtherResolves

LEMMA ResolveInvariant == Spec => [](Inv /\ ResolveInv)
<1>1. Init => Inv /\ ResolveInv
  BY InitTyped, InitLocks, InitMap, InitSenders DEF Inv
<1>2. Inv /\ ResolveInv /\ Inv' /\ [Next]_vars => ResolveInv'
  <2> SUFFICES ASSUME Inv, ResolveInv, Inv', [Next]_vars PROVE ResolveInv'
    OBVIOUS
  <2>1. ASSUME NEW w \in Workers, WorkerStep(w) \/ WorkerStart(w) PROVE ResolveInv'
    BY <2>1, WorkerResolves
  <2>2. ASSUME NEW t \in Senders, SenderStep(t) \/ \E d \in Dests : ProbeCache(t, d)
        PROVE  ResolveInv'
    BY <2>2, SenderResolves
  <2>3. ASSUME NEW p \in Ports, PortDies(p) PROVE ResolveInv'
    BY <2>3, PortDiesResolves
  <2>4. CASE (\E e \in Ites : IteReused(e)) \/ UNCHANGED vars
    BY <2>4, StutterResolves
  <2> QED
    BY <2>1, <2>2, <2>3, <2>4 DEF Next
<1> QED
  BY <1>1, <1>2, Invariant, PTL DEF Spec

\* A resolution that succeeds on either path of the send, the seqlock walk
\* confirmed by its generation and sequence numbers or the locked one, leaves
\* the sender with the ports that its two names denote, if the destination is
\* a dense name and no removal was half done when the snapshot was taken or
\* checked, whatever was removed, copied out or grown in between.  For the cases
\* that the conditions leave out the code gives no such guarantee
\* (NeverMisdelivers).
THEOREM ResolveIsSound == Spec => []ResolveSound
<1>1. ResolveInv => ResolveSound
  BY DEF ResolveInv, ResolveOK, ResolveSound
<1> QED
  BY <1>1, ResolveInvariant, PTL
=============================================================================
