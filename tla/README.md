# A TLA+ model of Uros

Uros is the UrMach microkernel (a descendant of OSF Mach, i386, SMP, not
preemptible) with its servers and libraries.  This directory holds TLA+ modules
for the parts of it whose correctness depends on the order of steps of several
processors, TLC configurations that check them on small instances, and proofs
that TLAPS checks for every instance.

    tlc -workers 2 -config SpscX86.cfg MCFlipc2Spsc      one run
    tlapm Flipc2SpscProofs.tla                           the proofs of a module

`PROJECT.json` lists the components, runs, mutants, findings, hazards, theorems
and, for each definition, the source lines it models.

## 1. The system

| component | state it keeps | operations | interacts with | what makes it correct |
|---|---|---|---|---|
| FLIPC v2 channel (`flipc2.h`, `flipc2_channel.c`) | ring of descriptors, free-running 32-bit `prod_tail` and `cons_head`, two sleeping flags in shared memory; cached counters in each handle | reserve, commit, commit_n, flush, produce_wait; peek, release, release_n, consume_wait(_timed); attach; for several producers: produce_wait_mpsc, produce_commit_mpsc | two tasks through shared memory; futexes | descriptors arrive in order, once, unharmed; no sleep misses a wakeup; no live peer is called dead or corrupt |
| FLIPC v2 buffer group (`flipc2.h`, `flipc2_bufgroup.c`) | lock-free stack of slots, tagged head | create, alloc, free | several tasks through shared memory | one owner per slot, none lost |
| FLIPC v2 pollset (`flipc2_pollset.c`) | array of channels | add, remove, poll | channels, futex WAITV, a reactor | a poll reports exactly ready channels and does not sleep on data |
| FLIPC v2 endpoint (`flipc2_endpoint.c`) | connection table, pending events, the names of the clients' task ports | create, connect, disconnect, dead name, pump, accept, destroy | Mach ports, channels, the reactor's pollset | a client's channels are destroyed once, when it is gone, and out of the pollset first; nothing a dead or refused client had is left |
| futex (`kern/sync_sema.c`) | `futexv_table`, `futexv_active` | WAIT, WAKE, WAKE_WAIT, WAITV | thread waits, user memory | compare-and-sleep is atomic for the caller |
| thread waits and timers (`kern/sched_prim.c`, `kern/mach_clock.c`) | wait hash, per-thread event, flags and timer | assert_wait, clear_wait, thread_wakeup, thread_block, hand-off, timeouts | scheduler | a thread is queued once, woken once, runs once |
| semaphores (`kern/sync_sema.c`) | count and queue | wait, signal | thread waits | no lost signal |
| IPC name space (`ipc_entry.c`, `ipc_right.c`, `ipc_object.c`) and the RPC hot path (`mach_msg.c`) | entry table, radix tree of sparse names, free list, seqlock `is_seq`, `is_generation`, a port cache per thread | lookup with and without the space lock, get, alloc, dealloc, grow; destroy, check, copyin, copyout; resolve and cache a pair of ports | all IPC | a name means one right; a lock-free reader never leaves a table and never takes a port that the name does not denote |
| RCU (`kern/rcu.c`) | quiescent counters | synchronize | (no caller) | grace periods |
| IPC ports, rights, messages | ports, rights, queues | send, receive, ... | everything | inherited Mach |
| zone allocator, locks, VM, pmap | | | | inherited Mach with SMP changes |
| servers (proc, cap, ext, block, hal, char, gpu, exec, vt) | tables of processes, tokens, files, devices | MIG RPCs | each other, FLIPC | mostly sequential message loops |
| libraries (libvfs, libpthreads, libposix-uros, libcap, ...) | per task | POSIX calls | servers, futexes | |

What is hard here: shared-memory protocols without locks under x86 store
buffering (FLIPC), a wait hash with per-bucket and per-thread locks that are
dropped between steps (thread waits), timeouts and wakeups that race, a table
that is read without a lock while it grows into recycled memory (IPC space),
ports whose memory is used again (port cache), 32-bit counters that wrap, tables
of fixed size, and clients that die in the middle of a handshake (endpoint).
The hazards are listed, each at its line, in `PROJECT.json`.

## 2. Modules

    Flipc2Ring          counter arithmetic of a ring          (no state)
      Flipc2Spsc        one channel, two sides, store buffers
        MCFlipc2Spsc
      Flipc2Mpsc        one channel, several producers, store buffers
        MCFlipc2Mpsc
      Flipc2Pollset     several channels, one polling thread
        MCFlipc2Pollset
    Fifo                what a channel promises: a bounded queue
    Flipc2BufGroup      the lock-free pool
      MCFlipc2BufGroup
    Flipc2Endpoint      the endpoints of a server, its reactor, its clients
      MCFlipc2Endpoint
    ThreadWait          the wait primitives and the softclock thread
      Futex             urmach_futex on top of them
        MCFutex
    AtomicFutex         what WAIT promises: compare and sleep in one step
    IpcSpace            the names of a task and the lock-free RPC resolver
      MCIpcSpace
        MCIpcMisdelivers    with a history of what a destination denoted

    Flipc2RingLemmas, Flipc2SpscProofs, Flipc2MpscProofs,
    Flipc2BufGroupProofs, Flipc2PollsetProofs, Flipc2EndpointProofs,
    FutexProofs, IpcSpaceProofs                                       proofs

### Flipc2Ring, Flipc2Spsc

The header words `prod_tail`, `cons_head`, `prod_sleeping`, `cons_sleeping` and
the ring are shared memory.  Each side has a FIFO store buffer (`pbuf`, `cbuf`):
a store is appended to it and reaches memory in `DrainProducer` or
`DrainConsumer`.  An action is one load of a word the other side writes and the
stores before the next such load.  `WRITE_FENCE` and `FULL_FENCE` are the two
macros: in the x86 build the first is only a compiler barrier, in any other
build both are full fences (`FULL_FENCE_BUILD`).  A futex trap empties the
buffer.  `ppc` and `cpc` name the phases of the calls (spin, armed, futex,
blocked, woken, verify); `cached_*`, `tail`, `head`, `spurious_wakeups` are the
fields of the handle.  The k-th descriptor carries the value k, so `InOrder`
can tell a lost, repeated, overwritten or unwritten one.  `staged` and `taken`
model `commit_n` and `release_n`.  `FUTEX_WAIT` is one step, which module Futex
justifies.

Not modelled: statistics counters, the data area, the isolated layout (the same
protocol with per-role page protections), creation and `vm_remap`.

### Flipc2Mpsc

A producer takes a number from `prod_reserved` (`Claim`), waits until the ring
has room for that number (`Spin`, `Arm`, `Recheck`, `Sleep`), fills its slot,
spins until its predecessor has published and publishes (`Publish`), and rings
the doorbell.  The consumer is that of Flipc2Spsc.  `Fits` is the comparison of
`my_idx` with `cons_head`; the code compares as signed words, which
`MpscAssumption` makes equal to the count of the module: no claimed number is
half a word ahead.  `full_fence` is a variable set once, so that one run
covers both builds.

The channel implements the same `Fifo` as the one with a single producer:
publishing is its Send, whatever the order of claims and wakeups.  Two
things the code cannot help are left to the fairness: a producer that never
comes back between claim and commit stops all later ones, since numbers are
never taken back, and in the x86 build the producer's sleep has the unfenced
handshake of `flipc2_produce_wait`, so `ClaimPublished` is stated for
`full_fence` only.

### Flipc2BufGroup

`free_idx` and `free_ver` are the halves of the 64-bit `free_head`.  The
code loads it with a plain 64-bit read, two loads on i686, hence `LoadIndex` and
`LoadVersion` in either order.  `Swap` is cmpxchg8b.  A slot may be freed by a
client that did not allocate it.  `stack` and `age` are history: the list built
by the swaps, and how many swaps a client's copy of the version is behind.
`NotOvertaken` is a bound: the code is wrong after 2^32 operations of others
within one attempt, and the model stops one short of that.

### Flipc2Pollset

One action per channel for the scans and for the loads of `waiters[i].val`; one
for all the arming stores, since nothing is loaded between them.  WAITV is the
`Register`, `Recheck`, `Return` of module Futex, reduced to one waiter: it is
registered before the words are compared.  The caller is the reactor of
ext_server: it drains each reported channel and adds and removes channels
between polls.  No store buffers: both sides of the handshake have mfence here.

### Flipc2Endpoint

The server task has several endpoints.  The ones in `Reactors` are pumped by a
thread like `flipc_reactor` of ext_server, which adds and removes the
channels in its pollset and destroys those of a dead client; the others are
served by a loop around `flipc2_endpoint_accept`.  The connect handler is split
where another task can act: one step for each channel it creates
(`CreateFwd`, `CreateRev`), for each one it maps into the client (`ShareFwd`,
`ShareRev`), for the dead-name request and the slot (`Notify`), and for the
reply; each of these may fail and takes the handler's own error exit
(`GiveUp`, `Refused`).  Clients connect, detach, send the disconnect RPC and
die (`Dies`) between any two of these steps.

The kernel is external and modelled as used: a queue of requests and
notifications per endpoint port, `urefs` for the user references the server
holds on a client's task name, and `dnrequest`, the one dead-name request a name
has.  A second request replaces the first, whose send-once right then
delivers a notification the demultiplexer ignores.  `superseded` records that a
client's request was replaced while it still covered a connection.

A reactor's turn is flipc2_poll with the drain of what it reports, then one call
of the pump.  The data plane is in Flipc2Pollset; here a reactor with clients may
enter the state "drain" before it pumps again (`NextTurn`), and leaves it with
`Drained`, if ever: `while (flipc_serve_one(...))` (ext_server.c:1768, 1787) ends
only when the client stops posting, and each reply waits for room.  `MAX_CONNS` is
the size of the reactor's own table.  The disconnect RPC is served by accept
loops and, as in `flipc2_ep_demux_reactor`, by reactors, where its handler
destroys channels that are in the pollset; no client in the tree sends it.  A
client that cannot attach what it was given behaves as one that disconnects right
after the reply.

### ThreadWait, Futex, AtomicFutex

A step is what a routine does under one hold of a bucket or thread lock.
`wait_event` has the transitional value WAKING_EVENT while a waker has taken a
thread out of the hash and not yet its lock.  `where` says whether a thread is on
a processor, switched off but not yet dispatched (TH_RUN still set), off, or on
a run queue.  `thread_timeout` is three steps (`thread_timeout`,
`thread_timeout_clear`, `thread_timeout_drop`), because `clear_wait_locked` drops
and retakes locks.  `Futex` adds the four calls; user threads
first copy the word they will wait on, or change a word before they wake.

`Futex` implements `AtomicFutex` under the mapping at the end of the module: a
thread is asleep from the moment its recheck succeeds, and a waker owes a wakeup
until it has looked at the queue of its word.

External to `src/`: only the processors' store buffers and the user code around
the futex calls.

### IpcSpace

`mem` is the memory of entries.  A location is a slot of a table or a tree entry;
`space` holds `is_table`, `is_table_size`, `is_tree`, the free list, `is_seq` and
`is_generation`.  Storage is type-stable, as in the kernel: tables are pooled by
size, so the memory of a table that is not in use holds what looks like another
space's rights (`Pooled`), a tree entry that is not in use comes from a zone that
all spaces share, so another space may put a right of its own in it at any moment
(`IteReused`), and ports are zone objects that may be allocated again
(`PortReused`).

Workers change the space under its write lock: `RemoveLookup` ... `DestroyPort`
are mach_port_destroy on a send right, `MoveBits`, `MoveBump` the copyin of a
moved right, `CheckDead` ipc_right_check, `CopyoutGet`, `CopyoutName` and their
continuations copyout under a new or a chosen name, `GrowStart` ... `GrowFree`
ipc_entry_grow_table.  Senders are the hot path of mach_msg_overwrite_trap:
`ProbeCache`, `LockDest`, `CacheTry` the port cache, `Snapshot`, `LookupSeq` ...
`LookupCheck`, `ResolveType`, `ResolveObject`, `ResolveTry`, `ResolveVerify` the
lock-free resolver, `ReadLock`, `ReadFind`, `ReadTry` the path under the read
lock, then `FillCache` and `Send`.  Every store of a worker that a lock-free
sender can observe is a step of its own, and so is every load of the sender.
A worker that has grown the table gives back the block it replaced (`tab`), also
when another growth has started meanwhile.

`rights` is the abstract map from names to ports, changed at the step that
decides.  `look` (`Observe`) collects whether the name was in use at each moment of a
lookup, so `LookupLinearizable` says that a lookup answers for a moment while it
ran, positive answers from a tree entry excepted.  `settled` notes that no removal
was half done when a snapshot was taken and checked.  `Dense` names have an index
in the smallest table: they are never in the tree.

Left out: user-reference counts above one, the search in the radix tree (one
read), is_active and `ipc_space_destroy`, DIPC, `it_entries_realloc`, receive
rights and port sets in copyout.

## 3. Runs

| run | result | question |
|---|---|---|
| spsc_x86 | pass | Does the x86 channel deliver in order and once, keep its counters sane, wake its consumer, implement Fifo? All calls, a handle takeover, counters that wrap. |
| spsc_fenced | pass | With real fences: is the producer woken, is no live peer declared dead, is everything delivered when the doorbell is coalesced (threshold 2) and waits are timed? |
| spsc_x86_lost_wakeup | violation | Is the producer woken in the x86 build? No: store and load of its handshake are not fenced. |
| futex_wait | pass | Is WAIT an atomic compare-and-sleep; do sleepers and timed calls return? |
| futex_programs | pass | WAITV with a full table, stale marks and racing wakers; direct hand-off; a late timeout that meets the thread's next wait: missed changes, panics, leftovers, one thread on two processors? |
| bufgroup | pass | ABA and torn reads of the head, ownership, leaks, lock-freedom. |
| pollset | pass | Are the reports right, is everything disarmed, does a commit wake the poll, is data reported in the end when polls are timed? |
| mpsc | pass | Several producers, both builds: is the channel a FIFO, is the consumer woken, is no live channel declared dead, is every claimed number published (full fences)? |
| endpoint | pass | Clients that connect, detach, fail half-way and die: leaked, stranded or twice destroyed channels, channels destroyed under a reactor, names given back too early, connects without an answer, reported deaths never cleaned up? |
| ipc_space | pass | Lock-free lookups and the RPC hot path against removals, growth into recycled tables, tree entries taken by other spaces and dying ports: out of bounds reads, wrong ports for a dense destination, names handed out twice, locks left behind? |
| ipc_space_reuse | violation | Is `is_generation` enough to tell a stale cached name? No: a name found dead gives its port back without a new generation, and the port object is used again. |
| ipc_space_misdelivers | violation | Does the lock-free resolver never misdeliver? It does: the generation is bumped before the entry is cleared, and a snapshot taken in between stays current while the slot is handed out again. |

A property is a conjunction of named parts where one question has several sides
(`PoolSafe`, `PollOutcome`, `WaitsBalanced`, `NothingLeaks`, `ClientSafe`,
`LookupSound`).  Every safety property of a passing run is also a theorem, some
under an assumption that the theorem states (section 4).

Every property of a passing run has a mutant in `PROJECT.json`: a plausible bug
(`Bug_...` in the modules) that makes TLC report the property.

### Bounds

- Rings of 2 (x86) and 4 (fenced) entries, counter words of 8 and 16 values: a
  ring can be empty, partly full and full at every position, and the counters
  wrap, so nothing bounds how much is sent.  The code needs the word to be at
  least four rings, which 2^32 is for every allowed ring.
- `MAX_SPURIOUS` is 2 or 3 instead of 64: a lower limit is easier to reach.
- `AttachAt = {4}`: handles are taken over in the middle of the counter range;
  near the wrap the zeroed cache is wrong (see the hazards).
- Futex: three threads, one or two words, one multi-waiter slot: enough for a
  waker, a waiter and a third that interferes, and for a full table.
  `REF_BOUND` = 1: a thread makes no timed call while an earlier timeout still
  holds its reference.  Calls without a deadline are not held back, so a late
  timeout does meet the next wait of the thread in `LateCalls`.  In futex_programs
  the calls in progress are always those of one of three programs (`OneProgram`);
  they may follow each other, except that a program without timed calls does not
  inherit a thread's timeout.
- Buffer group: two clients, three slots, four versions, so one client can pop
  two and push one while the other is in the middle.
- Pollset: two channels of one entry.  The proofs cover any number.
- Mpsc: two producers, a ring of two, words of 8 values: both can be beyond the
  ring's end, and the counters wrap.  In the x86 build lost wakeups leave many
  combinations of buffers, so it is cut off after `X86_CLAIMS` = 4 claims; with
  full fences nothing is bounded.
- Endpoint: two tasks, one reactor and one accept loop, two slots, three
  requests, connects or disconnect RPCs (`MAX_REQUESTS`): a full endpoint, a client on both endpoints, a client that comes
  back, and a task's death at each step of its own or of the other's handshake.
- IpcSpace: one sender and two workers, three ports, tables of 3 and 4 entries
  (index 0 is the free list) and one tree entry, so that one growth moves a
  sparse name into the new part; two generations per slot, one removal
  (`MAX_GENERATION`), two tries of a lookup instead of a million.  The destination
  is a dense or a sparse name (`DestBound`): a sender keeps to the dense one once it
  is cached, since a probe for another name misses the cache and does what the first
  probe did, and sends to the sparse one while all ports live.  One port may
  die (`Mortals`); the reuse run lets the destination die and be allocated
  again once.  Workers are symmetric; only invariants are checked here.

### Fairness

- FLIPC: processors drain their buffers; a side that is inside a call goes on;
  the consumer is a service loop and calls again.  Nothing makes a producer
  call.
- Futex: threads in the kernel and processors go on (weak fairness), a set timer
  expires even if it is reset and set again in between (strong fairness, as
  deadlines come in order).
- Buffer group: clients finish their calls.
- Mpsc: processors drain, a producer that has claimed goes on, the consumer loop
  runs.  Nothing makes a producer claim.
- Endpoint: a reactor that is in its pump goes on (weak fairness of `Pump`): the
  poll and the pump have timeouts and no handler waits for a client.  Nothing makes
  a drain end, so `DeadReclaimed` and `ConnectAnswered` say so: they hold of a
  reactor that is outside its drain again and again.  Nothing makes an accept
  loop, or a client, do anything.
- IpcSpace: safety only.
- Pollset: producers finish a commit, the reactor goes on, and comes back to
  poll although channels may be added and removed in between (strong fairness of
  `Poll`; the loop of `flipc_reactor` handles one control event per round).

`CHECK_DEADLOCK FALSE` is used in SpscX86 (a consumer that declared its peer
dead or lost the producer wakeup stops), Mpsc (the x86 build may lose the
producers' wakeup, and stops at its bound) and FutexPrograms (threads that all wait
without a timeout stop).

## 4. Proofs

All for every value of the constants, from the named assumptions of the
modules.  `RingAssumption`: the ring divides the word and is at most a quarter of
it.  `LimitAssumption`, `PoolAssumption`, `PollsetAssumption`: the sizes and limits
are positive.  `MpscAssumption`: the producers are finitely many, and ring and
producers together are at most half a word (2^31 in the code).
`EndpointAssumption`: the server has finitely many endpoints, some of them with a
reactor, and NULL is not one of the things it stands in for.  IpcSpace:
`SizesAssumption`, tables have room for two names and each is larger than the one
before; `GensAssumption`, at least two generations; `KindsAssumption`, threads,
ports and locations are different things, and neither NULL nor DEAD is one.
`FutexAssumption`: the events are the words and the slots, which are different
things; no event and no thread is the "none" of the other; the slots are
finitely many; each thread has a set of calls.  Neither threads nor words need
be finite.  A theorem that needs more says so under ASSUME.

- **Flipc2RingLemmas**: counts, sums and slots without the modulus; two counters
  less than a ring apart have different slots; the sequence of the numbers
  between two counters (`Numbers`), what appending to it and cutting it gives.
- **Flipc2SpscProofs** `TypeCorrect`, `Delivers`, `CountersStaySane`,
  `RefinesFifo`.  The inductive invariant says where the store buffers stand: the
  newest buffered counter is the side's own, buffered counters only grow, a
  descriptor is ahead of the tail that publishes it, and every copy of a counter,
  in memory, buffer or cache, lies between the other side's oldest and the own
  newest value.  Distances are measured from the consumer's head in memory, which
  makes the wrap disappear.  `InOrder` alone is not inductive: it needs that each
  slot between head and tail already holds its descriptor, in memory or in the
  part of the buffer that drains first.  `RefinesFifo` maps the queue of `Fifo` to
  the numbers from the consumer's head to the tail in memory: the drain of a
  tail is Send, a release is Receive, every other step a stutter.  All but the
  first assume single commits and no takeover (section 5 says why).

  The second part of the module is the wakeup protocol: `ConsumerWakeupKept` (both builds, threshold at most 1),
  `ProducerWakeupKeptFenced` (full fences), `LiveChannelStaysLive`.  The invariant
  of the first two follows the sleeping flag through the buffer: from the fence on
  it is in memory, so a commit after the recheck sees it.  The third counts late
  wakeups: a side that finds nothing after being woken has used up the one
  FUTEX_WAKE the other can have under way, so its count is at most one before
  the next delivery resets it.  That needs callers that wait (`OnlyWaits`), as
  `flipc2_consume_peek` and the reserve call leave the count (section 5), and a
  limit of at least 2 (64 in the code).
- **Flipc2MpscProofs** `TypeCorrect`, `LiveChannelStaysLive`, `ConsumerIsWoken`,
  `RefinesFifo`.  `MpscInv` has: what each producer's buffer may hold at
  each point of the code (`Buffers`); `cons_head`, `head`, `prod_tail`,
  `prod_reserved` in this order, with at most one number per pending producer
  between the last two (`Order`); claimed numbers that are different, unpublished
  and, once room was found, within the ring (`Claims`); slots that are filled from
  `cons_head` to `prod_tail` (`RingHolds`); and a budget of one late wakeup per
  producer (`Wakeups`).  That a number once found to fit still fits, and that no two
  producers publish, follow from `Claims`: only the owner of the number
  `prod_tail` passes `MyTurn`.  `LiveChannelStaysLive` assumes fewer producers
  than the limit of spurious wakeups: with more, as many producers could be late
  at once, and the consumer would declare a live channel dead.
  `ConsumerIsWoken` assumes a threshold of at most 1, as coalescing leaves a
  consumer asleep on purpose.  `RefinesFifo` has no further assumption.
- **Flipc2BufGroupProofs** `PoolCorrect`, `PoolTypes`.  `CopyOK` gives the
  copies their worth: the version of `free_head` is the client's copy plus
  the swaps since (`age`), so an equal version means no swap, and the next index
  read after it is still right.
- **Flipc2PollsetProofs** `PollWoken`, `PollReports`, `PollTypes`.  `ArmedOK`
  (which channels are armed at each point), `ValOK` (registered before the first
  comparison) and `WakeOK` (the promise for the words compared so far).
- **Flipc2EndpointProofs** `TypeCorrect`, `EndpointLeaksNothing`,
  `ReactorKeepsItsChannels`, `ClientStaysSafe`, for any number of clients,
  endpoints and slots.  `EndpointInv` has: the number of slots in use (`Counted`), so that the
  search behind the limit check of connect finds one; what a thread has in hand at
  each step of a handler (`ThreadInv`) and for its caller (`PendingInv`); `OwnInv`,
  one owner for each channel, a slot, a handler in progress or an event not yet
  taken; why a channel is mapped in a client (`MapInv`); what the messages
  in the queues mean (`QueueInv`), for instance that a dead-name message is
  queued for a client that is dead; at least one reference for each
  holder of a name (`RefInv`); which requests are armed (`RequestInv`); what a
  reactor serves (`PollInv`).  None of the four properties is inductive: a leak
  shows only at the end of a handler, and the cause is a channel with two owners
  or none several steps before.
- **FutexProofs** `TypeCorrect`, `WaitHashIsSound`, `WaitsStayBalanced`,
  `StaysOnOneProcessor`, `SoleWaitersAreWoken`, `NoWakeupIsLost`,
  `RefinesAtomic`, for any number of threads, words, slots and any mix of calls.
  `Inv` ties together what the kernel knows of a wait in four places.
  `ThreadOK` and `CallOK`: the thread's event, TH_WAIT, timer and processor, and
  its call, agree with its place in the code.  `HashInv`: a queue holds exactly
  the threads whose event it is, once.  `HandOK` and `WokenInv`: a thread in the
  state WAKING_EVENT is in the hands of exactly one waker, once, and only a
  waker between the bucket lock and the thread lock holds any.  `SoftInv` and
  `RefOK`: only the softclock thread's own thread has a timer pending, and a set
  timer and a timeout in progress hold a reference each.  `SlotInv` is the same for
  `futexv_table`: a slot belongs to the thread that waits on it, with the words
  of its call, and `futexv_active` counts the slots in use.  `WaitsBalanced`
  is not inductive as it speaks of a few places only: that no timer is left at the
  return to user mode follows because a timer needs TH_WAIT, and that because an
  event goes to NO_EVENT together with TH_WAIT, in whichever of the four
  hands (waker, hand-off, clear_wait, timeout) it ends.

  `NoLostWakeup` needs more: `WakeInv` says the same of a thread that is still
  reading its words (a word already read again and changed since has a waker
  that has yet to look), and that the waker is another thread.  The two
  orders of the protocol meet there: the waiter is in the queue before it reads, the
  waker has changed the word before it looks at the queue.  For WAITV the look is at
  `futexv_active` first, and `SlotInv` makes it non-zero for a thread
  that has registered.  A wakeup of one thread serves one waiter, so the property
  does not hold of every program: `SoleWaitersAreWoken` assumes that a caller
  of WAKE(1) or WAKE_WAIT finds at most one other thread queued on its word and that
  WAKE_WAIT is not used on a word of a multi-waiter (section 5),
  `NoWakeupIsLost` assumes it of what the threads may call (`FewWaiters`), which
  every program of the runs satisfies.  WAKE(all) is under no such limit.

  `RefinesAtomic` assumes that the threads call WAIT, timed or not, and WAKE(all),
  as in run futex_wait.  The second read of the word is Compare, the moment a waker
  empties the bucket is Wake, the second half of a timeout is Expire unless the
  thread is already in a waker's hands, and every other kernel step is a
  stutter: the rest of a wakeup, clear_wait, futex_recheck_drain, the
  context switches.  `PlainInv` is the invariant it needs besides `Inv`.
- **IpcSpaceProofs** `TypeCorrect`, `NoLockIsLeft`, `LookupIsSound`,
  `MapStaysIntact`, `ResolveIsSound`, for any number of threads, ports, names and
  growths.  `Locks`
  says who holds the space and which ports at each point of the code.  `MapInv`
  says what the space holds at every moment, not only when it is unlocked:
  `TableInv` which block is the table and how much of it counts in each step of a
  growth (`Home`, `Limit`), and that `is_seq` is odd exactly then; `EntryInv` that
  each index has one entry, in the table or in the tree, and that the entry says
  what its name denotes, apart from the object of the name in hand (`Busy`);
  `WorkInv` what a worker knows of that name; `FreeList`; `Cleared`, that the new
  part of a copied table is empty.  `LookInv` is what a reader without locks knows:
  the size it read is at most that of the block it holds, because the table is
  published first, and while `is_seq` has the even value it started from, both are
  the current ones and its answer is right.  `MapIntact` is not inductive as it
  speaks of an unlocked space only, `LookupSound` as it says nothing of a lookup
  before its answer.

  `ResolveIsSound` needs more than the readers' layer.  `ResolveInv` says what
  a resolver has learnt at each point while its snapshot holds (`Knows`: the entry
  is that of its name, the reply port is confirmed, the destination is what the
  name denotes or inactive).  It talks about state that other threads change, so
  the proof has two halves.  `Effect` bounds what any step of another thread can do
  to it (the numbers only grow; while they stand the table stays and no right goes
  away, except through a removal that is counted as half done), and `ResolveFrame`
  carries the knowledge over such a step.  The `...Learns` lemmas show that a
  sender's own step earns the knowledge of its next point.  The theorem has no
  assumption beyond those of the module.  What it does not cover is in
  `ResolveSound` itself: a sparse destination, and a removal half done at the
  snapshot or the check, where the code gives no such guarantee (section 5).

The inductive invariants were checked by TLC before they were proved.  Only
model-checked are the liveness properties: fairness and ENABLED are beyond the
prover.  What a recursive definition computes is beyond it too; the modules
therefore use no RECURSIVE operator.

## 5. Findings

Three disagreements between code and comment have a run of their own; the quoted
lines are in `PROJECT.json` under `findings`.

- **spsc_x86_lost_wakeup**: on x86 a producer may sleep on a ring with room.
- **ipc_space_reuse**: `ipc_right_check` (ipc_right.c:446) does not bump
  `is_generation`, which the port cache takes as the only guard.
- **ipc_space_misdelivers**: `ipc_right_destroy` bumps `is_generation` at its head
  (ipc_right.c:601), before it takes the port's lock (647) and clears the entry; the
  comment at mach_msg.c:866-872 places the bump under that lock and concludes "it
  never misdelivers".  A resolver that takes its snapshot after the bump and
  matches the entry before it is cleared can read the object after the slot was
  handed out again, and its check passes: it sends to a port that the name never
  denoted.

The models reproduce these too, without a run:

- `flipc2_produce_wait` returns NULL on a ring that is merely full again
  after a late wakeup (flipc2.h:907); docs/flipc2.md:589 says only on corruption.
- The batch loop of docs/flipc2.md:922-933 reserves the same slot each time:
  reserve does not advance (flipc2.h:361).
- A timeout that was already running can end the thread's next wait, also one
  without a deadline (sched_prim.c:927 against sync_sema.c:1021-1022).
- `flipc2_poll` loads the value to wait on after its last scan; with timeout -1 it
  can sleep on a ready channel (flipc2_pollset.c:169-175).  ext_server polls with
  a timeout.
- `futex_wake_wait` does not see WAITV waiters (sync_sema.c:868); a slot of
  `futexv_table` that is given back and taken again can be woken without an index
  (sync_sema.c:662).
- Resetting a pending timer does not give back its thread reference
  (mach_clock.c:627).
- A handle attached within a ring of the counters' wrap starts with a cache of 0
  that passes for fresh (flipc2_channel.c:153).
- `flipc2_consume_peek` does not reset `spurious_wakeups` (flipc2.h:600 against
  the comment at 305).
- In MPSC mode `prod_sleeping` is never cleared: after the first full ring every
  release makes a trap.
- A client that connects to a second endpoint of the same server, or connects
  again, replaces its dead-name request.  The first endpoint never hears of its
  death: slot and channels stay (flipc2_endpoint.c:326 against 38-40 and
  docs/flipc2.md:179).  `NoStrandedSlot` and `DeadReclaimed` hold for clients
  whose request was not replaced (`superseded`); libvfs connects once per mount
  and ext_server has an endpoint per mount, so replacing is normal.
- `flipc2_endpoint_disconnect` never sends the disconnect RPC that
  flipc2_endpoint.defs:69-70 describes: the slot stays taken while the client
  lives.  The handler of that RPC on a reactor destroys channels in its pollset
  (flipc2_endpoint.c:379 against flipc2.h:1419-1422); `ReactorKeepsPolled` says
  that it is the only step that does.
- The endpoint's handlers leak a reference on a client's task name for each dead
  client, the pump one for each refused request.
- The generation filed with a cached pair is read after the pair was validated
  (mach_msg.c:1140, 1268), so a removal in between files a stale pair under the
  new generation.
- A sparse name whose copyout is abandoned, because its port died, gives its tree
  entry back with the name still in it and without a new generation
  (ipc_entry.c:595-651), to a zone that all spaces share.  A resolver that found
  the entry in that window and reads it again after another name, of this or of
  another task, has taken it, gets that name's type and object, and its snapshot
  holds, although no removal is half done.  `ResolveSound` is therefore stated for
  dense destinations; TLC reports it for a sparse one.

## 6. Plan

Done: channel with one and with several producers, pool, pollset, endpoint,
futex on thread waits, IPC name space with its lock-free readers.  Next, in this
order:

1. **Semaphore** and **PthreadMutex / PthreadCond** on `AtomicFutex`.
2. Capability tables of cap_server: epochs and revocation.
3. `ipc_space_destroy` and task termination in IpcSpace.

### Not modelled

The repository has about 1.76 million lines; the modules map about four
thousand of them, the part that is this system's own concurrent code.  Most of the
rest is MkLinux and its drivers, other architectures, and OSF Mach as it was
inherited (ports, messages, VM, locks, devices), which is vendored or does not
belong to the current build, and a model of which would say little about Uros.
Of Uros itself these are left out:

- RCU: `urmach_synchronize_rcu` has no caller, as tables are pooled instead;
- servers that are sequential message loops over tables (proc, cap, hal, char,
  gpu, exec, block, vt), whose behaviour ordinary tests reach;
- hardware access, context switch and traps; program loading; POSIX translation;
- the zone allocator's magazines and the TLB shootdown, which have protocols
  of their own and are candidates after the plan.
