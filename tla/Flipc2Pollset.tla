--------------------------- MODULE Flipc2Pollset ---------------------------
(***************************************************************************)
(* The pollset of FLIPC v2 (flipc2_pollset.c): one thread waits for data   *)
(* on several channels at once.  flipc2_poll arms cons_sleeping of every   *)
(* channel, looks at all of them again and blocks in the futex call WAITV  *)
(* on all the prod_tail words.  Each channel has its own producer, which   *)
(* runs the doorbell of flipc2_produce_commit.                             *)
(*                                                                         *)
(* The caller is a reactor as in ext_server: between two polls it may add  *)
(* or remove channels, and it drains each channel that a poll reports.     *)
(*                                                                         *)
(* An action is one load of a word that another thread writes.  Arming and *)
(* committing are each followed by mfence before the next such load, so no *)
(* store buffer is needed (module Flipc2Spsc has them).                    *)
(***************************************************************************)
EXTENDS Flipc2Ring, Sequences

CONSTANTS
  Channels,
  MAX_CHANNELS,     \* FLIPC2_POLLSET_MAX_CHANNELS
  MAX_EVENTS,       \* max_events, the room for events the caller gives
  Timeouts          \* "zero", "timed", "forever": the timeout_ms of the calls

ASSUME PollsetAssumption ==
  /\ MAX_CHANNELS \in Nat \ {0}
  /\ MAX_EVENTS \in Nat \ {0}
  /\ Timeouts \subseteq {"zero", "timed", "forever"}

VARIABLES
  prod_tail, cons_head, cons_sleeping,   \* shared words, per channel
  ppc,           \* each producer: "idle", "fence" or "wake"
  channels,      \* the channels of the pollset, an array
  pc, timeout,   \* the polling thread and its timeout_ms
  i,             \* its loop index
  events,        \* channels found ready
  val,           \* waiters[i].val, in the order of the array
  parked, woken  \* WAITV: registered for wakeups, found by one

shared == <<prod_tail, cons_head, cons_sleeping>>
waitv  == <<parked, woken>>
vars   == <<shared, ppc, channels, pc, timeout, i, events, val, waitv>>

Pcs == {"idle", "serve", "scan", "arm", "rescan", "disarm", "val", "register",
        "recheck", "blocked", "awake", "final"}

\* flipc2_pollset_create, over fresh channels.
Init ==
  /\ prod_tail = [c \in Channels |-> 0]
  /\ cons_head = [c \in Channels |-> 0]
  /\ cons_sleeping = [c \in Channels |-> 0]
  /\ ppc = [c \in Channels |-> "idle"]
  /\ channels = <<>>
  /\ pc = "idle" /\ timeout = "zero" /\ i = 1
  /\ events = <<>> /\ val = <<>>
  /\ parked = FALSE /\ woken = FALSE

HasData(c) == prod_tail[c] # cons_head[c]
InSet(c)   == \E k \in 1 .. Len(channels) : channels[k] = c

-----------------------------------------------------------------------------
(* The producers. *)

\* Reserve, fill and commit a descriptor, when there is room.
Commit(c) ==
  /\ ppc[c] = "idle"
  /\ flipc2_ring_count(prod_tail[c], cons_head[c]) < RING_ENTRIES
  /\ prod_tail' = [prod_tail EXCEPT ![c] = Add(@, 1)]
  /\ ppc' = [ppc EXCEPT ![c] = "fence"]
  /\ UNCHANGED <<cons_head, cons_sleeping, channels, pc, timeout, i, events, val,
                 waitv>>

\* After mfence: is the consumer asleep?
CheckSleeping(c) ==
  /\ ppc[c] = "fence"
  /\ ppc' = [ppc EXCEPT ![c] = IF cons_sleeping[c] = 1 THEN "wake" ELSE "idle"]
  /\ UNCHANGED <<shared, channels, pc, timeout, i, events, val, waitv>>

\* FUTEX_WAKE(prod_tail, 1): finds the polling thread if it is registered.
Wake(c) ==
  /\ ppc[c] = "wake"
  /\ ppc' = [ppc EXCEPT ![c] = "idle"]
  /\ woken' = (woken \/ (parked /\ InSet(c)))
  /\ UNCHANGED <<shared, channels, pc, timeout, i, events, val, parked>>

-----------------------------------------------------------------------------
(* The caller, between two polls. *)

\* flipc2_pollset_add; a full pollset or a second add is refused.
PollsetAdd(c) ==
  /\ pc = "idle"
  /\ Len(channels) < MAX_CHANNELS
  /\ ~InSet(c)
  /\ channels' = Append(channels, c)
  /\ UNCHANGED <<shared, ppc, pc, timeout, i, events, val, waitv>>

\* flipc2_pollset_remove: the last channel takes the place of c.
PollsetRemove(c) ==
  /\ pc = "idle"
  /\ \E k \in 1 .. Len(channels) :
       /\ channels[k] = c
       /\ channels' = [m \in 1 .. Len(channels) - 1 |->
                         IF m = k THEN channels[Len(channels)] ELSE channels[m]]
  /\ UNCHANGED <<shared, ppc, pc, timeout, i, events, val, waitv>>

\* One descriptor of the first reported channel is taken and released ...
Serve ==
  /\ pc = "serve" /\ events # <<>>
  /\ HasData(Head(events))
  /\ cons_head' = [cons_head EXCEPT ![Head(events)] = Add(@, 1)]
  /\ UNCHANGED <<prod_tail, cons_sleeping, ppc, channels, pc, timeout, i, events,
                 val, waitv>>

\* ... until there is none left, and the next channel follows.
Drained ==
  /\ pc = "serve" /\ events # <<>>
  /\ ~HasData(Head(events))
  /\ events' = Tail(events)
  /\ UNCHANGED <<shared, ppc, channels, pc, timeout, i, val, waitv>>

ServeDone ==
  /\ pc = "serve" /\ events = <<>>
  /\ pc' = "idle"
  /\ UNCHANGED <<shared, ppc, channels, timeout, i, events, val, waitv>>

-----------------------------------------------------------------------------
(* flipc2_poll. *)

\* The call, with a timeout the caller chooses.
Poll ==
  /\ pc = "idle"
  /\ timeout' \in Timeouts
  /\ pc' = "scan" /\ i' = 1
  /\ UNCHANGED <<shared, ppc, channels, events, val, waitv>>

Scanning == pc \in {"scan", "rescan", "final"}

\* Faulty variant: the loop stops before the last channel.
Bug_ScanDone == i >= Len(channels) \/ Len(events) = MAX_EVENTS

\* The scan has looked at every channel, or has no room for more events.
ScanDone == i > Len(channels) \/ Len(events) = MAX_EVENTS

\* flipc2_pollset_scan looks at one channel.
ScanStep ==
  /\ Scanning /\ ~ScanDone
  /\ events' = IF HasData(channels[i]) THEN Append(events, channels[i])
                                       ELSE events
  /\ i' = i + 1
  /\ UNCHANGED <<shared, ppc, channels, pc, timeout, val, waitv>>

\* The fast scan is over: return what it found, or block if that is allowed.
ScanEnd ==
  /\ pc = "scan" /\ ScanDone
  /\ pc' = IF events # <<>> \/ timeout = "zero" \/ channels = <<>>
           THEN "serve" ELSE "arm"
  /\ i' = 1
  /\ UNCHANGED <<shared, ppc, channels, timeout, events, val, waitv>>

\* Faulty variant: only the first channel is armed.
Bug_ArmFirst ==
  /\ pc = "arm"
  /\ cons_sleeping' = [cons_sleeping EXCEPT ![channels[1]] = 1]
  /\ pc' = "rescan" /\ i' = 1
  /\ UNCHANGED <<prod_tail, cons_head, ppc, channels, timeout, events, val, waitv>>

\* Announce the sleep on every channel, then mfence.
Arm ==
  /\ pc = "arm"
  /\ cons_sleeping' = [c \in Channels |-> IF InSet(c) THEN 1 ELSE cons_sleeping[c]]
  /\ pc' = "rescan" /\ i' = 1
  /\ UNCHANGED <<prod_tail, cons_head, ppc, channels, timeout, events, val, waitv>>

\* Faulty variant: a scan that finds data returns with the channels armed.
Bug_RescanEnd ==
  /\ pc = "rescan" /\ ScanDone
  /\ pc' = IF events # <<>> THEN "serve" ELSE "val"
  /\ i' = 1
  /\ UNCHANGED <<shared, ppc, channels, timeout, events, val, waitv>>

\* The second scan found data, or nothing: on to the wait.
RescanEnd ==
  /\ pc = "rescan" /\ ScanDone
  /\ pc' = IF events # <<>> THEN "disarm" ELSE "val"
  /\ i' = 1
  /\ UNCHANGED <<shared, ppc, channels, timeout, events, val, waitv>>

Disarm ==
  cons_sleeping' = [c \in Channels |-> IF InSet(c) THEN 0 ELSE cons_sleeping[c]]

DisarmReturn ==
  /\ pc = "disarm"
  /\ Disarm
  /\ pc' = "serve"
  /\ UNCHANGED <<prod_tail, cons_head, ppc, channels, timeout, i, events, val,
                 waitv>>

\* waiters[i].val = *prod_tail, loaded once more.
LoadVal ==
  /\ pc = "val" /\ i <= Len(channels)
  /\ val' = Append(val, prod_tail[channels[i]])
  /\ i' = i + 1
  /\ UNCHANGED <<shared, ppc, channels, pc, timeout, events, waitv>>

CallWaitv ==
  /\ pc = "val" /\ i > Len(channels)
  /\ pc' = "register"
  /\ UNCHANGED <<shared, ppc, channels, timeout, i, events, val, waitv>>

\* WAITV registers the thread for wakeups on all the words, or finds the table
\* of multi-word waiters full and returns.
Register ==
  /\ pc = "register"
  /\ \/ pc' = "recheck" /\ parked' = TRUE /\ i' = 1
     \/ pc' = "awake" /\ UNCHANGED <<parked, i>>
  /\ UNCHANGED <<shared, ppc, channels, timeout, events, val, woken>>

\* WAITV compares the words, one at a time; one that moved ends the call.
Recheck ==
  /\ pc = "recheck"
  /\ CASE i > Len(channels) -> pc' = "blocked" /\ UNCHANGED <<i, parked>>
       [] i <= Len(channels) /\ prod_tail[channels[i]] = val[i] ->
            i' = i + 1 /\ UNCHANGED <<pc, parked>>
       [] OTHER -> pc' = "awake" /\ parked' = FALSE /\ UNCHANGED i
  /\ UNCHANGED <<shared, ppc, channels, timeout, events, val, woken>>

\* A wakeup or, if there is one, the timeout ends the sleep.
Return ==
  /\ pc = "blocked"
  /\ woken \/ timeout = "timed"
  /\ pc' = "awake" /\ parked' = FALSE
  /\ UNCHANGED <<shared, ppc, channels, timeout, i, events, val, woken>>

\* Back in flipc2_poll: disarm, and scan a last time.
Awake ==
  /\ pc = "awake"
  /\ Disarm
  /\ pc' = "final" /\ i' = 1
  /\ val' = <<>> /\ woken' = FALSE
  /\ UNCHANGED <<prod_tail, cons_head, ppc, channels, timeout, events, parked>>

FinalEnd ==
  /\ pc = "final" /\ ScanDone
  /\ pc' = "serve" /\ i' = 1
  /\ UNCHANGED <<shared, ppc, channels, timeout, events, val, waitv>>

-----------------------------------------------------------------------------
Ring(c) == CheckSleeping(c) \/ Wake(c)
PollStep ==
  \/ ScanStep \/ ScanEnd \/ Arm \/ RescanEnd \/ DisarmReturn \/ LoadVal
  \/ CallWaitv \/ Register \/ Recheck \/ Return \/ Awake \/ FinalEnd
ServeStep == Serve \/ Drained \/ ServeDone
Setup(c) == PollsetAdd(c) \/ PollsetRemove(c)

Next ==
  \/ \E c \in Channels : Commit(c) \/ Ring(c) \/ Setup(c)
  \/ Poll \/ PollStep \/ ServeStep

Spec == Init /\ [][Next]_vars

\* Producers finish the commits they start and the reactor goes on: its loop
\* polls again after every round, so Poll is not forgotten for ever while
\* channels come and go.
Fairness ==
  /\ \A c \in Channels : WF_vars(Ring(c))
  /\ WF_vars(PollStep) /\ WF_vars(ServeStep) /\ SF_vars(Poll)

FairSpec == Spec /\ Fairness

-----------------------------------------------------------------------------
(* Properties. *)

\* Types, and a pollset within its array.
TypeOK ==
  /\ prod_tail \in [Channels -> Word] /\ cons_head \in [Channels -> Word]
  /\ cons_sleeping \in [Channels -> {0, 1}]
  /\ ppc \in [Channels -> {"idle", "fence", "wake"}]
  /\ channels \in Seq(Channels) /\ Len(channels) <= MAX_CHANNELS
  /\ pc \in Pcs /\ timeout \in {"zero", "timed", "forever"}
  /\ i \in 1 .. MAX_CHANNELS + 1
  /\ events \in Seq(Channels) /\ Len(events) <= MAX_EVENTS
  /\ val \in Seq(Word) /\ Len(val) <= Len(channels)
  /\ parked \in BOOLEAN /\ woken \in BOOLEAN

\* A poll reports each channel at most once, and only channels of the pollset
\* that have a descriptor to take: also when the report is made by the scan
\* after a late or spurious wakeup.
EventsReady ==
  /\ \A j, k \in 1 .. Len(events) : events[j] = events[k] => j = k
  /\ pc # "serve" =>
       \A k \in 1 .. Len(events) : InSet(events[k]) /\ HasData(events[k])

\* Every way out of flipc2_poll disarms every channel, so a producer makes no
\* trap for a thread that is not in a poll.
DisarmedOutside ==
  pc \in {"idle", "serve", "scan", "arm"} =>
    \A c \in Channels : cons_sleeping[c] = 0

\* What flipc2_poll leaves its caller with: a right report and no channel armed.
PollOutcome == EventsReady /\ DisarmedOutside

\* What WAITV guarantees: a thread asleep in flipc2_poll, on one of whose words
\* a producer has moved past the value given to WAITV, has been found by a
\* wakeup or the producer is still on its way to one.
CommitWakes ==
  pc = "blocked" /\ ~woken =>
    \A k \in 1 .. Len(channels) :
      prod_tail[channels[k]] # val[k] => ppc[channels[k]] # "idle"

\* A reactor never sleeps on data for good: while a channel of the pollset has
\* a descriptor, a poll reports some ready channel or the caller removes it,
\* even when only the timeout ends the sleep.  (Which one it reports is left
\* open: a drain loop whose producer keeps up with it starves the others.)
Reported ==
  \A c \in Channels :
    (InSet(c) /\ HasData(c)) ~> (~InSet(c) \/ (pc = "serve" /\ events # <<>>))
=============================================================================
