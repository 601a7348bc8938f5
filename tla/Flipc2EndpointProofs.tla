------------------------ MODULE Flipc2EndpointProofs ------------------------
(***************************************************************************)
(* Theorems about Flipc2Endpoint, for any number of clients, endpoints,    *)
(* reactors and slots, and for failures and deaths at any step.            *)
(*                                                                         *)
(* The invariant EndpointInv says: the types; how many slots are in use    *)
(* (Counted); what the thread of an endpoint has in hand at each step of a *)
(* handler, and which event it has for its caller (ThreadInv, PendingInv); *)
(* that every channel has one owner (OwnInv); what is mapped in a client   *)
(* and why (MapInv); what the messages in the queues still mean            *)
(* (QueueInv); which references and notification requests the server holds *)
(* (RefInv, RequestInv); and what a reactor polls: the connections it was  *)
(* told of, and channels that are gone already (PollInv).  There is one    *)
(* lemma for each part and each kind of step; the lemmas named Inv... near *)
(* the end put them together.                                              *)
(***************************************************************************)
EXTENDS Flipc2Endpoint, FiniteSetTheorems, WellFoundedInduction, TLAPS

-----------------------------------------------------------------------------
(* The inductive invariant. *)

Handles == [ep : Endpoints, fwd : Channels, rev : Channels]
SetUp   == {"rev", "share_fwd", "share_rev", "notify"}
Connecting == SetUp \cup {"connect", "reply"}
Pcs     == Connecting \cup {"idle", "dead", "disconnect", "event", "drain"}
Threads == [pc : Pcs, task : Tasks \cup {NULL}, right : BOOLEAN,
            slot : Idx \cup {0}, fwd : Channels \cup {0}, rev : Channels \cup {0}]

Types ==
  /\ alive \in [Tasks -> BOOLEAN] /\ superseded \in [Tasks -> BOOLEAN]
  /\ queue \in [Endpoints -> Seq(Messages) \cup {NULL}]
  /\ urefs \in [Tasks -> Nat]
  /\ dnrequest \in [Tasks -> Endpoints \cup {NULL}]
  /\ live \subseteq Channels
  /\ conns \in [Endpoints -> [Idx -> Conns \cup {NULL}]]
  /\ n_clients \in [Endpoints -> Nat]
  /\ pending_conn_idx \in [Endpoints -> Idx \cup {0}]
  /\ pending_dead \in [Endpoints -> Pairs \cup {NULL}]
  /\ thread \in [Endpoints -> Threads]
  /\ served \in [Endpoints -> SUBSET Pairs]
  /\ pollset \in [Endpoints -> SUBSET Channels]
  /\ waiting \in [Tasks -> Endpoints \cup {NULL}]
  /\ handles \in [Tasks -> SUBSET Handles]
  /\ mapped \in [Tasks -> SUBSET Channels]
  /\ requests \in 0 .. MAX_REQUESTS

\* n_clients counts the slots in use.
Counted == \A e \in Endpoints : n_clients[e] = Cardinality(Active(e))

\* What the thread of e holds at each step.
ThreadOK(e) ==
  LET c == thread[e]
  IN /\ c.pc \in {"idle", "event", "drain"} => c.task = NULL /\ c.fwd = 0 /\ c.rev = 0
     /\ c.pc \notin {"idle", "event", "drain"} => c.task \in Tasks
     /\ c.pc \in {"connect", "dead", "disconnect"} => c.fwd = 0 /\ c.rev = 0
     /\ c.pc \in SetUp => /\ c.slot \in Idx /\ conns[e][c.slot] = NULL
                          /\ c.fwd \in Channels
     /\ c.pc = "rev" => c.rev = 0
     /\ c.pc \in SetUp \ {"rev"} => c.rev \in Channels
     /\ c.pc = "reply" => /\ c.slot \in Idx
                          /\ c.fwd \in Channels /\ c.rev \in Channels
                          /\ conns[e][c.slot] = Conn(c.task, c.fwd, c.rev)
     /\ c.pc \in Connecting /\ ~c.right => ~alive[c.task]
     /\ c.pc = "dead" => ~alive[c.task]
     /\ c.pc \in {"event", "drain"} => e \in Reactors
     /\ ~Open(e) => c.pc = "idle" /\ e \notin Reactors /\ Active(e) = {}

ThreadInv == \A e \in Endpoints : ThreadOK(e)

\* The event that the pump has for its caller.
PendingOK(e) ==
  /\ pending_conn_idx[e] # 0 =>
       /\ thread[e].pc \in {"reply", "event"} /\ e \in Reactors
       /\ pending_conn_idx[e] \in Active(e)
       /\ pending_dead[e] = NULL
  /\ At(e, "reply") /\ e \in Reactors => pending_conn_idx[e] = thread[e].slot
  /\ pending_dead[e] # NULL =>
       thread[e].pc \in {"idle", "event", "drain"} /\ e \in Reactors

PendingInv == \A e \in Endpoints : PendingOK(e)

\* The channels that slot k of e owns, and for k = 0 its thread.
own ==
  [e \in Endpoints |-> [k \in 0 .. MAX_CLIENTS |->
     IF k = 0 THEN InHand(e)
     ELSE IF conns[e][k] = NULL THEN {} ELSE ChannelsOf(conns[e][k])]]

\* Of the owners o no two share a channel, and l is what they own together.
Sound(o, l) ==
  /\ \A e, f \in Endpoints : \A j, k \in 0 .. MAX_CLIENTS :
       o[e][j] \cap o[f][k] # {} => e = f /\ j = k
  /\ \A x : x \in l <=> \E e \in Endpoints, k \in 0 .. MAX_CLIENTS : x \in o[e][k]

OwnInv == Sound(own, live)

\* A handle of t: its channels are mapped, and belong to a slot as long as the
\* endpoint exists; no other handle is on this endpoint or has these channels.
HandleOK(t, h) ==
  /\ ChannelsOf(h) \subseteq mapped[t]
  /\ Open(h.ep) => \E i \in Idx : conns[h.ep][i] = Conn(t, h.fwd, h.rev)
  /\ ~Open(h.ep) => ChannelsOf(h) \cap live = {}
  /\ \A g \in handles[t] :
       ChannelsOf(g) \cap ChannelsOf(h) # {} \/ g.ep = h.ep => g = h

\* How much of what thread e has in hand is mapped in the client.
SharedOK(e) ==
  LET c == thread[e]
  IN /\ c.pc = "rev" => c.fwd \notin mapped[c.task]
     /\ c.pc = "share_fwd" =>
          c.fwd # c.rev /\ {c.fwd, c.rev} \cap mapped[c.task] = {}
     /\ c.pc = "share_rev" => c.rev \notin mapped[c.task]
     /\ c.pc \in {"share_rev", "notify", "reply"} /\ alive[c.task]
          => c.fwd \in mapped[c.task]
     /\ c.pc \in {"notify", "reply"} /\ alive[c.task]
          => c.rev \in mapped[c.task]
     /\ c.pc = "reply" => \A t \in Tasks : \A h \in handles[t] :
          ChannelsOf(h) \cap {c.fwd, c.rev} = {}

\* Why channel x is mapped in t.
Justified(t, x) ==
  \/ \E h \in handles[t] : x \in ChannelsOf(h)
  \/ \E e \in Endpoints : thread[e].task = t /\ x \in {thread[e].fwd, thread[e].rev}

\* What is mapped in a client.
MapInv ==
  /\ \A t \in Tasks : ~alive[t] => mapped[t] = {} /\ handles[t] = {}
  /\ \A t \in Tasks : \A h \in handles[t] : HandleOK(t, h)
  /\ \A e \in Endpoints : SharedOK(e)
  /\ \A t \in Tasks : \A x \in mapped[t] : Justified(t, x)

\* Message i of the queue of e.
Queued(e, i, kind, t) ==
  Open(e) /\ i \in DOMAIN queue[e] /\ queue[e][i] = Message(kind, t)
Serving(e, pcs, t) == thread[e].pc \in pcs /\ thread[e].task = t

\* A living client has one connect request at most, which it waits for, and no
\* handle on that endpoint; its disconnect request comes before it, and is
\* about a connection that it gave up.
QueueOK(e, t) ==
  /\ \A i \in Nat : Queued(e, i, "dead", t) =>
       /\ ~alive[t] /\ ~Serving(e, {"dead"}, t)
       /\ \A j \in Nat : Queued(e, j, "dead", t) => i = j
  /\ alive[t] =>
       /\ waiting[t] = e => ~Holds(t, e)
       /\ Serving(e, Connecting, t) =>
            /\ waiting[t] = e
            /\ \A i \in Nat : ~Queued(e, i, "disconnect", t)
       /\ Serving(e, {"disconnect"}, t) => ~Holds(t, e)
       /\ \A i \in Nat : Queued(e, i, "disconnect", t) => ~Holds(t, e)
       /\ \A i \in Nat : Queued(e, i, "connect", t) =>
            /\ waiting[t] = e /\ ~Serving(e, Connecting, t)
            /\ \A j \in Nat : /\ Queued(e, j, "connect", t) => i = j
                              /\ Queued(e, j, "disconnect", t) => j < i

QueueInv == \A e \in Endpoints, t \in Tasks : QueueOK(e, t)

\* The dead-name message of t is in the queue of e or in the hands of its thread.
DeadKnown(e, t) ==
  Serving(e, {"dead"}, t) \/ \E i \in Nat : Queued(e, i, "dead", t)

\* Who holds a reference on the name of t: a slot, the handler of a request
\* from t (key 0), and the dead-name message of t (the last key).
Holder(e, k, t) ==
  \/ k \in Of(e, t)
  \/ /\ k = 0 /\ thread[e].right
     /\ Serving(e, SetUp \cup {"connect", "disconnect"}, t)
  \/ k = MAX_CLIENTS + 1 /\ DeadKnown(e, t)

HoldersOf(t) == {p \in Endpoints \X (0 .. MAX_CLIENTS + 1) : Holder(p[1], p[2], t)}

RefInv == \A t \in Tasks : urefs[t] >= Cardinality(HoldersOf(t))

\* The one notification request covers the one connection of a client whose
\* request was never replaced; once the client is dead, so the endpoint is told.
RequestOK(e, t) ==
  ~superseded[t] /\ Of(e, t) # {} =>
    /\ \A i, j \in Of(e, t) : i = j
    /\ alive[t] => dnrequest[t] = e
    /\ ~alive[t] => DeadKnown(e, t)

RequestInv == \A t \in Tasks, e \in Endpoints : RequestOK(e, t)

\* What the pump has recorded and the reactor is about to learn: the channels
\* of a dead client.
DeadEvent(e) ==
  IF At(e, "event") /\ pending_dead[e] # NULL THEN {pending_dead[e]} ELSE {}

\* The connections that the reactor of e has been told of, and what it is about
\* to be told is dead.
Told(e) ==
  {Pair(conns[e][i].fwd, conns[e][i].rev) :
     i \in Active(e) \ {pending_conn_idx[e]}} \cup DeadEvent(e)

\* What a reactor polls besides these is gone already.
PollOK(e) ==
  /\ pollset[e] \subseteq {p.rev : p \in served[e]}
  /\ \A p \in served[e] \ Told(e) : ChannelsOf(p) \cap live = {}

PollInv == \A e \in Reactors : PollOK(e)

EndpointInv ==
  /\ Types /\ Counted /\ ThreadInv /\ PendingInv /\ OwnInv /\ MapInv
  /\ QueueInv /\ RefInv /\ RequestInv /\ PollInv

-----------------------------------------------------------------------------
(* Lemmas on the operators of the model. *)

\* The least element of a set of naturals is one of them.
LEMMA MinMember ==
  ASSUME NEW S, S \subseteq Nat, S # {}
  PROVE  Min(S) \in S
<1> DEFINE R == OpToRel(<, Nat)
<1>1. IsWellFoundedOn(R, Nat)
  BY NatLessThanWellFounded
<1> HIDE DEF R
<1>2. PICK x \in S : \A y \in S : ~ (<<y, x>> \in R)
  BY <1>1, WFMin
<1>3. \A y \in S : x <= y
  <2> SUFFICES ASSUME NEW y \in S, ~(x <= y) PROVE FALSE
    OBVIOUS
  <2>1. y < x /\ x \in Nat /\ y \in Nat
    OBVIOUS
  <2>2. <<y, x>> \in R
    BY <2>1 DEF R, OpToRel
  <2> QED
    BY <1>2, <2>2
<1> QED
  BY <1>3 DEF Min

\* A new channel is one that nothing uses.
LEMMA NewChannelUnused ==
  ASSUME Unused # {}
  PROVE  NewChannel \in Channels /\ NewChannel \notin live
         /\ \A t \in DOMAIN mapped : NewChannel \notin mapped[t]
<1>1. Unused \subseteq Nat
  BY EndpointAssumption DEF Unused, Channels
<1>2. NewChannel \in Unused
  BY <1>1, MinMember DEF NewChannel
<1> QED
  BY <1>2 DEF Unused, Range

\* The slots in use are finitely many, and n_clients below the limit leaves one.
LEMMA SlotsFinite ==
  ASSUME NEW e \in Endpoints
  PROVE  /\ IsFiniteSet(Active(e)) /\ Cardinality(Active(e)) \in Nat
         /\ Active(e) \subseteq Idx /\ IsFiniteSet(Idx)
         /\ Cardinality(Idx) = MAX_CLIENTS
         /\ Cardinality(Active(e)) <= MAX_CLIENTS
<1>1. IsFiniteSet(Idx) /\ Cardinality(Idx) = MAX_CLIENTS
  BY FS_Interval, EndpointAssumption DEF Idx
<1>2. Active(e) \subseteq Idx
  BY DEF Active
<1> QED
  BY <1>1, <1>2, FS_Subset, FS_CardinalityType

LEMMA FreeSlotFree ==
  ASSUME NEW e \in Endpoints, Counted, ~Full(e)
  PROVE  FreeSlot(e) \in Idx /\ conns[e][FreeSlot(e)] = NULL
<1>1. Idx \ Active(e) # {}
  <2> SUFFICES ASSUME Active(e) = Idx PROVE FALSE
    BY DEF Active
  <2> QED
    BY SlotsFinite, EndpointAssumption DEF Counted, Full
<1>2. Idx \ Active(e) \subseteq Nat
  BY DEF Idx
<1>3. FreeSlot(e) \in Idx \ Active(e)
  BY <1>1, <1>2, MinMember DEF FreeSlot
<1> QED
  BY <1>3 DEF Active

\* The slot that a handler for t picks.
LEMMA SlotPicked ==
  ASSUME NEW e \in Endpoints, NEW t, Of(e, t) # {}
  PROVE  Min(Of(e, t)) \in Of(e, t)
<1>1. Of(e, t) \subseteq Nat
  BY DEF Of, Active, Idx
<1> QED
  BY <1>1, MinMember

-----------------------------------------------------------------------------
(* Types. *)

LEMMA TypesInit == Init => Types
  BY EndpointAssumption DEF Init, Types, Idle, Threads, Pcs, Connecting, SetUp

LEMMA MessageTypes ==
  \A t \in Tasks : /\ Message("connect", t) \in Messages
                   /\ Message("dead", t) \in Messages
                   /\ Message("disconnect", t) \in Messages
                   /\ Message("send_once", t) \in Messages
  BY DEF Message, Messages

LEMMA PostTypes ==
  ASSUME Types, NEW e \in Endpoints, Open(e), NEW m \in Messages, Post(e, m)
  PROVE  /\ queue' \in [Endpoints -> Seq(Messages) \cup {NULL}]
         /\ queue'[e] = Append(queue[e], m) /\ queue'[e] # NULL
         /\ \A x \in Endpoints : x # e => queue'[x] = queue[x]
<1>1. queue[e] \in Seq(Messages)
  BY DEF Types, Open
<1>2. Append(queue[e], m) \in Seq(Messages)
  BY <1>1
<1> QED
  BY <1>2, EndpointAssumption DEF Post, Types

LEMMA TypesClient ==
  ASSUME Types, NEW t \in Tasks,
         \/ \E e \in Endpoints : Connect(t, e)
         \/ Disconnect(t) \/ DisconnectRpc(t)
  PROVE  Types'
<1> USE DEF epVars, serverVars, clientVars, kernelVars
<1>1. ASSUME NEW e \in Endpoints, Connect(t, e) PROVE Types'
  <2>1. queue' \in [Endpoints -> Seq(Messages) \cup {NULL}]
    BY <1>1, PostTypes, MessageTypes DEF Connect
  <2> QED
    BY <1>1, <2>1, EndpointAssumption DEF Connect, Types
<1>2. CASE Disconnect(t)
  BY <1>2 DEF Disconnect, Detach, Types
<1>3. CASE DisconnectRpc(t)
  <2>1. PICK h \in handles[t] : /\ Open(h.ep) /\ Detach(t, h)
                                /\ Post(h.ep, Message("disconnect", t))
    BY <1>3 DEF DisconnectRpc
  <2>2. h.ep \in Endpoints
    BY DEF Types, Handles
  <2>3. queue' \in [Endpoints -> Seq(Messages) \cup {NULL}]
    BY <2>1, <2>2, PostTypes, MessageTypes
  <2> QED
    BY <1>3, <2>1, <2>3, EndpointAssumption DEF DisconnectRpc, Detach, Types
<1> QED
  BY <1>1, <1>2, <1>3

LEMMA TypesDies ==
  ASSUME Types, NEW t \in Tasks, Dies(t)
  PROVE  Types'
<1> USE DEF epVars, serverVars
<1>1. queue' \in [Endpoints -> Seq(Messages) \cup {NULL}]
  <2>1. CASE dnrequest[t] # NULL /\ Open(dnrequest[t])
    <3>1. dnrequest[t] \in Endpoints
      BY <2>1 DEF Types
    <3> QED
      BY <2>1, <3>1, PostTypes, MessageTypes DEF Dies
  <2>2. CASE ~(dnrequest[t] # NULL /\ Open(dnrequest[t]))
    BY <2>2 DEF Dies, Types
  <2> QED
    BY <2>1, <2>2
<1>2. urefs' \in [Tasks -> Nat]
  BY DEF Dies, Types
<1> QED
  BY <1>1, <1>2 DEF Dies, Types

\* The parts of a handler that touch only the thread and the clients.
LEMMA DoneTypes ==
  ASSUME Types, NEW e \in Endpoints, HandlerDone(e)
  PROVE  /\ thread' \in [Endpoints -> Threads]
         /\ thread'[e].pc = IF e \in Reactors THEN "event" ELSE "idle"
         /\ thread'[e].task = NULL /\ thread'[e].right = FALSE
         /\ thread'[e].fwd = 0 /\ thread'[e].rev = 0
         /\ \A x \in Endpoints : x # e => thread'[x] = thread[x]
<1> DEFINE d == IF e \in Reactors THEN [Idle EXCEPT !.pc = "event"] ELSE Idle
<1>1. /\ d \in Threads
      /\ d.pc = IF e \in Reactors THEN "event" ELSE "idle"
      /\ d.task = NULL /\ d.right = FALSE /\ d.fwd = 0 /\ d.rev = 0
  BY DEF Idle, Threads, Pcs
<1> HIDE DEF d
<1>2. thread' = [thread EXCEPT ![e] = d]
  BY DEF HandlerDone, d
<1> QED
  BY <1>1, <1>2 DEF Types

\* A thread at the end of its turn, or of a drain.
LEMMA TurnTypes ==
  ASSUME Types, NEW e \in Endpoints, NextTurn(e) \/ Drained(e)
  PROVE  /\ thread' \in [Endpoints -> Threads]
         /\ thread'[e].pc \in {"idle", "drain"}
         /\ thread'[e].task = NULL /\ thread'[e].right = FALSE
         /\ thread'[e].fwd = 0 /\ thread'[e].rev = 0
         /\ \A x \in Endpoints : x # e => thread'[x] = thread[x]
<1>1. PICK d \in {Idle, [Idle EXCEPT !.pc = "drain"]} : thread' = [thread EXCEPT ![e] = d]
  BY DEF NextTurn, Drained
<1>2. CASE d = Idle
  <2>1. /\ d \in Threads /\ d.pc = "idle"
        /\ d.task = NULL /\ d.right = FALSE /\ d.fwd = 0 /\ d.rev = 0
    BY <1>2 DEF Idle, Threads, Pcs
  <2> QED
    BY <1>1, <2>1 DEF Types
<1>3. CASE d = [Idle EXCEPT !.pc = "drain"]
  <2>1. /\ d \in Threads /\ d.pc = "drain"
        /\ d.task = NULL /\ d.right = FALSE /\ d.fwd = 0 /\ d.rev = 0
    BY <1>3 DEF Idle, Threads, Pcs
  <2> QED
    BY <1>1, <2>1 DEF Types
<1> QED
  BY <1>2, <1>3

\* A thread that goes on to another step of its handler.
LEMMA StepTypes ==
  ASSUME Types, NEW e \in Endpoints, NEW pc \in Pcs,
         thread' = [thread EXCEPT ![e].pc = pc]
  PROVE  /\ thread' \in [Endpoints -> Threads]
         /\ thread'[e].pc = pc /\ thread'[e].task = thread[e].task
         /\ thread'[e].right = thread[e].right
         /\ thread'[e].slot = thread[e].slot
         /\ thread'[e].fwd = thread[e].fwd /\ thread'[e].rev = thread[e].rev
         /\ \A x \in Endpoints : x # e => thread'[x] = thread[x]
<1> DEFINE d == [thread[e] EXCEPT !.pc = pc]
<1>1. thread[e] \in Threads
  BY DEF Types
<1>2. /\ d \in Threads
      /\ d.pc = pc /\ d.task = thread[e].task /\ d.right = thread[e].right
      /\ d.slot = thread[e].slot
      /\ d.fwd = thread[e].fwd /\ d.rev = thread[e].rev
  BY <1>1 DEF Threads
<1> HIDE DEF d
<1>3. thread' = [thread EXCEPT ![e] = d]
  BY DEF d
<1> QED
  BY <1>2, <1>3 DEF Types

LEMMA RefusedTypes ==
  ASSUME Types, NEW e \in Endpoints, Refused(e)
  PROVE  /\ waiting' \in [Tasks -> Endpoints \cup {NULL}]
         /\ \A t \in Tasks : waiting'[t] = IF t = thread[e].task /\ waiting[t] = e
                                           THEN NULL ELSE waiting[t]
  BY DEF Refused, Types

LEMMA DeallocateTypes ==
  ASSUME Types, NEW t \in Tasks, NEW n \in Nat,
         Deallocate(t, n) \/ UNCHANGED <<urefs, dnrequest>>
  PROVE  dnrequest' \in [Tasks -> Endpoints \cup {NULL}]
  BY DEF Deallocate, Types

LEMMA TypesGiveUp ==
  ASSUME Types, NEW e \in Endpoints, thread[e].task \in Tasks,
         NEW unmap, NEW destroy, GiveUp(e, unmap, destroy),
         urefs' \in [Tasks -> Nat]
  PROVE  Types'
<1> USE DEF GiveUp, epVars
<1>1. thread' \in [Endpoints -> Threads]
  BY DoneTypes
<1>2. waiting' \in [Tasks -> Endpoints \cup {NULL}] /\ UNCHANGED <<handles, requests>>
  BY RefusedTypes DEF Refused
<1>3. dnrequest' \in [Tasks -> Endpoints \cup {NULL}]
  BY DeallocateTypes DEF DestroyRequest
<1>4. mapped' \in [Tasks -> SUBSET Channels]
  BY DEF Types
<1> QED
  BY <1>1, <1>2, <1>3, <1>4 DEF Types

LEMMA TypesCreate ==
  ASSUME Types, NEW e \in Endpoints, NEW c \in Threads, Create(e, c)
  PROVE  Types'
<1>1. live' \subseteq Channels
  BY NewChannelUnused DEF Create, Types
<1>2. thread' \in [Endpoints -> Threads]
  BY DEF Create, Types
<1> QED
  BY <1>1, <1>2 DEF Create, Types, kernelVars, epVars, clientVars

LEMMA TypesShare ==
  ASSUME Types, NEW e \in Endpoints, thread[e].task \in Tasks,
         NEW pc \in Pcs, NEW next \in Pcs, NEW ch \in Channels,
         Share(e, pc, next, ch)
  PROVE  Types'
<1>1. thread' \in [Endpoints -> Threads]
  BY StepTypes DEF Share
<1>2. mapped' \in [Tasks -> SUBSET Channels]
  BY DEF Share, Types
<1> QED
  BY <1>1, <1>2 DEF Share, Types, kernelVars, epVars

\* The successful branch of Notify.
Registers(e) ==
  LET c == thread[e]
  IN /\ At(e, "notify") /\ alive[c.task]
     /\ RequestNotification(e, c.task)
     /\ Store(e)
     /\ thread' = [thread EXCEPT ![e].pc = "reply"]
     /\ UNCHANGED <<alive, urefs, live, served, pollset, clientVars>>

LEMMA TypesRegisters ==
  ASSUME Types, ThreadInv, NEW e \in Endpoints, Registers(e)
  PROVE  Types'
<1> DEFINE c == thread[e]
<1>1. /\ c.task \in Tasks /\ c.slot \in Idx /\ c.fwd \in Channels
      /\ c.rev \in Channels
  BY DEF Registers, ThreadInv, ThreadOK, At, SetUp
<1>2. Conn(c.task, c.fwd, c.rev) \in Conns
  BY <1>1 DEF Conn, Conns
<1>3. conns' \in [Endpoints -> [Idx -> Conns \cup {NULL}]]
  BY <1>1, <1>2 DEF Registers, Store, Types
<1>4. thread' \in [Endpoints -> Threads]
  BY StepTypes DEF Registers, Pcs, Connecting
<1>5. /\ n_clients' \in [Endpoints -> Nat]
      /\ pending_conn_idx' \in [Endpoints -> Idx \cup {0}]
      /\ UNCHANGED pending_dead
  BY <1>1 DEF Registers, Store, Types
<1>6. queue' \in [Endpoints -> Seq(Messages) \cup {NULL}]
  <2>1. CASE dnrequest[c.task] # NULL /\ Open(dnrequest[c.task])
    <3>1. dnrequest[c.task] \in Endpoints
      BY <1>1, <2>1 DEF Types
    <3> QED
      BY <1>1, <2>1, <3>1, PostTypes, MessageTypes
      DEF Registers, RequestNotification
  <2>2. CASE ~(dnrequest[c.task] # NULL /\ Open(dnrequest[c.task]))
    BY <2>2 DEF Registers, RequestNotification, Types
  <2> QED
    BY <2>1, <2>2
<1>7. /\ dnrequest' \in [Tasks -> Endpoints \cup {NULL}]
      /\ superseded' \in [Tasks -> BOOLEAN]
  <2>1. DOMAIN superseded' = Tasks /\ DOMAIN dnrequest' = Tasks
    BY DEF Registers, RequestNotification, Types
  <2> QED
    BY <1>1, <2>1 DEF Registers, RequestNotification, Types
<1> QED
  BY <1>3, <1>4, <1>5, <1>6, <1>7 DEF Registers, Types, clientVars

LEMMA TypesReply ==
  ASSUME Types, ThreadInv, NEW e \in Endpoints, Reply(e)
  PROVE  Types'
<1> DEFINE c == thread[e]
           h == [ep |-> e, fwd |-> c.fwd, rev |-> c.rev]
<1>1. c.task \in Tasks /\ c.fwd \in Channels /\ c.rev \in Channels
  BY DEF Reply, ThreadInv, ThreadOK, At
<1>2. thread' \in [Endpoints -> Threads]
  BY DoneTypes DEF Reply
<1>3. h \in Handles
  BY <1>1 DEF Handles
<1> HIDE DEF h
<1>4. CASE Accepted(e)
  <2>1. /\ waiting' = [waiting EXCEPT ![c.task] = NULL]
        /\ handles' = [handles EXCEPT ![c.task] = @ \cup {h}]
        /\ UNCHANGED <<mapped, requests>>
    BY <1>4 DEF Accepted, h
  <2> QED
    BY <1>2, <1>3, <2>1 DEF Reply, Types, kernelVars, epVars
<1>5. CASE UNCHANGED clientVars
  BY <1>2, <1>5 DEF Reply, Types, kernelVars, epVars, clientVars
<1> QED
  BY <1>4, <1>5 DEF Reply

\* A slot is cleared.
LEMMA ClearTypes ==
  ASSUME Types, Counted, NEW e \in Endpoints, NEW i \in Active(e), Clear(e, i)
  PROVE  /\ conns' \in [Endpoints -> [Idx -> Conns \cup {NULL}]]
         /\ conns'[e][i] = NULL
         /\ \A x \in Endpoints, j \in Idx :
              x # e \/ j # i => conns'[x][j] = conns[x][j]
         /\ n_clients' \in [Endpoints -> Nat]
<1>1. i \in Idx
  BY DEF Active
<1>2. n_clients[e] \in Nat \ {0}
  <2>1. Cardinality(Active(e)) # 0
    BY SlotsFinite, FS_EmptySet
  <2> QED
    BY <2>1 DEF Counted, Types
<1> QED
  BY <1>1, <1>2 DEF Clear, Types

LEMMA TypesCleanupDead ==
  ASSUME Types, Counted, ThreadInv, NEW e \in Endpoints, CleanupDead(e),
         urefs' \in [Tasks -> Nat]
  PROVE  Types'
<1> DEFINE t == thread[e].task
<1>1. t \in Tasks
  BY DEF CleanupDead, ThreadInv, ThreadOK, At
<1>2. thread' \in [Endpoints -> Threads]
  BY DoneTypes DEF CleanupDead
<1>3. dnrequest' \in [Tasks -> Endpoints \cup {NULL}]
  BY <1>1, DeallocateTypes DEF CleanupDead
<1>4. /\ live' \subseteq Channels
      /\ conns' \in [Endpoints -> [Idx -> Conns \cup {NULL}]]
      /\ n_clients' \in [Endpoints -> Nat]
      /\ pending_dead' \in [Endpoints -> Pairs \cup {NULL}]
  <2>1. CASE Of(e, t) = {}
    BY <2>1 DEF CleanupDead, SlotOf, Types
  <2>2. CASE Of(e, t) # {}
    <3> DEFINE i == Min(Of(e, t))
    <3>1. i \in Active(e)
      BY <2>2, SlotPicked DEF Of
    <3>2. Clear(e, i) /\ DisposeDead(e, conns[e][i])
      BY <2>2 DEF CleanupDead, SlotOf
    <3>3. conns[e][i] \in Conns
      BY <3>1 DEF Active, Types
    <3> HIDE DEF i
    <3>4. Pair(conns[e][i].fwd, conns[e][i].rev) \in Pairs
      BY <3>3 DEF Pair, Pairs, Conns
    <3> QED
      BY <3>1, <3>2, <3>4, ClearTypes DEF DisposeDead, Types
  <2> QED
    BY <2>1, <2>2
<1> QED
  BY <1>2, <1>3, <1>4 DEF CleanupDead, Types, clientVars

LEMMA TypesDisconnectHandler ==
  ASSUME Types, Counted, ThreadInv, NEW e \in Endpoints, DisconnectHandler(e),
         urefs' \in [Tasks -> Nat]
  PROVE  Types'
<1> DEFINE t == thread[e].task
           found == IF thread[e].right THEN SlotOf(e, t) ELSE {}
<1>1. t \in Tasks
  BY DEF DisconnectHandler, ThreadInv, ThreadOK, At
<1>2. thread' \in [Endpoints -> Threads]
  BY DoneTypes DEF DisconnectHandler
<1>3. CASE found = {}
  <2>1. dnrequest' \in [Tasks -> Endpoints \cup {NULL}]
    BY <1>1, <1>3, DeallocateTypes DEF DisconnectHandler, DestroyRequest
  <2> QED
    BY <1>2, <1>3, <2>1 DEF DisconnectHandler, Types, clientVars
<1>4. CASE found # {}
  <2> DEFINE i == Min(found)
  <2>1. i \in Active(e)
    BY <1>4, SlotPicked DEF Of, SlotOf
  <2>2. /\ Clear(e, i) /\ live' = live \ ChannelsOf(conns[e][i])
        /\ Deallocate(t, 1)
    BY <1>4 DEF DisconnectHandler
  <2>3. dnrequest' \in [Tasks -> Endpoints \cup {NULL}]
    BY <1>1, <2>2, DeallocateTypes
  <2>4. /\ conns' \in [Endpoints -> [Idx -> Conns \cup {NULL}]]
        /\ n_clients' \in [Endpoints -> Nat]
    BY <2>1, <2>2, ClearTypes
  <2> QED
    BY <1>2, <2>2, <2>3, <2>4 DEF DisconnectHandler, Types, clientVars
<1> QED
  BY <1>3, <1>4

LEMMA TypesReceive ==
  ASSUME Types, NEW e \in Endpoints, Receive(e)
  PROVE  /\ Types'
         /\ queue[e] \in Seq(Messages) /\ queue[e] # <<>>
         /\ Head(queue[e]) \in Messages
         /\ \A x \in Endpoints : x # e => thread'[x] = thread[x]
<1> DEFINE m == Head(queue[e])
           right == m.kind \in {"connect", "disconnect"} /\ alive[m.task]
           pc == IF m.kind # "send_once" THEN m.kind
                 ELSE IF e \in Reactors THEN "event" ELSE "idle"
           d == IF pc \in {"idle", "event"} THEN [Idle EXCEPT !.pc = pc]
                ELSE [Idle EXCEPT !.pc = pc, !.task = m.task, !.right = right]
<1>1. queue[e] \in Seq(Messages) /\ queue[e] # <<>>
  BY DEF Receive, CanReceive, Open, Types
<1>2. m \in Messages /\ Tail(queue[e]) \in Seq(Messages)
  BY <1>1
<1>3. m.task \in Tasks /\ right \in BOOLEAN /\ pc \in Pcs
  BY <1>2 DEF Messages, Types, Pcs, Connecting
<1> HIDE DEF right, pc
<1>4. d \in Threads
  BY <1>3 DEF Idle, Threads
<1>5. /\ urefs' = IF right THEN [urefs EXCEPT ![m.task] = @ + 1] ELSE urefs
      /\ thread' = [thread EXCEPT ![e] = d]
      /\ queue' = [queue EXCEPT ![e] = Tail(@)]
  BY DEF Receive, right, pc
<1> HIDE DEF d, m
<1>6. urefs' \in [Tasks -> Nat]
  BY <1>3, <1>5 DEF Types
<1>7. /\ thread' \in [Endpoints -> Threads]
      /\ queue' \in [Endpoints -> Seq(Messages) \cup {NULL}]
  BY <1>2, <1>4, <1>5 DEF Types, m
<1>8. /\ pending_conn_idx' \in [Endpoints -> Idx \cup {0}]
      /\ pending_dead' \in [Endpoints -> Pairs \cup {NULL}]
  BY DEF Receive, ResetPending, Types
<1>9. Types'
  BY <1>6, <1>7, <1>8 DEF Receive, Types, clientVars
<1> QED
  BY <1>1, <1>2, <1>5, <1>9 DEF m, Types

LEMMA TypesPump ==
  ASSUME Types, PendingInv, NEW e \in Endpoints,
         PumpTimeout(e) \/ Event(e) \/ Drained(e)
  PROVE  Types'
<1>3. CASE Drained(e)
  BY <1>3, TurnTypes DEF Drained, Types, kernelVars, epVars, clientVars
<1>1. CASE PumpTimeout(e)
  <2>1. /\ pending_conn_idx' \in [Endpoints -> Idx \cup {0}]
        /\ pending_dead' \in [Endpoints -> Pairs \cup {NULL}]
    BY <1>1 DEF PumpTimeout, ResetPending, Types
  <2>2. thread' \in [Endpoints -> Threads]
    BY <1>1, TurnTypes DEF PumpTimeout
  <2> QED
    BY <1>1, <2>1, <2>2 DEF PumpTimeout, Types, kernelVars, clientVars
<1>2. CASE Event(e)
  <2>1. thread' \in [Endpoints -> Threads]
    BY <1>2, TurnTypes DEF Event
  <2>2. pending_conn_idx' \in [Endpoints -> Idx \cup {0}]
    BY <1>2 DEF Event, Types
  <2>3. /\ live' \subseteq Channels
        /\ served' \in [Endpoints -> SUBSET Pairs]
        /\ pollset' \in [Endpoints -> SUBSET Channels]
    <3>1. CASE pending_conn_idx[e] # 0
      <4> DEFINE c == conns[e][pending_conn_idx[e]]
      <4>1. c \in Conns
        BY <3>1 DEF PendingInv, PendingOK, Active, Types
      <4>2. EventNew(e, c)
        BY <1>2, <3>1 DEF Event
      <4> HIDE DEF c
      <4>3. Pair(c.fwd, c.rev) \in Pairs /\ c.rev \in Channels
        BY <4>1 DEF Pair, Pairs, Conns
      <4> QED
        <5>1. CASE UNCHANGED <<served, pollset>>
          BY <4>2, <5>1 DEF EventNew, Types
        <5>2. CASE ~UNCHANGED <<served, pollset>>
          <6>1. /\ served' = [served EXCEPT ![e] = @ \cup {Pair(c.fwd, c.rev)}]
                /\ pollset' = [pollset EXCEPT ![e] = @ \cup {c.rev}]
                /\ live' = live
            BY <4>2, <5>2 DEF EventNew
          <6> QED
            BY <4>3, <6>1 DEF Types
        <5> QED
          BY <5>1, <5>2
    <3>2. CASE pending_conn_idx[e] = 0 /\ pending_dead[e] # NULL
      <4>1. EventDead(e, pending_dead[e])
        BY <1>2, <3>2 DEF Event
      <4>2. live' \subseteq Channels
        BY <4>1 DEF EventDead, Types
      <4>3. served' \in [Endpoints -> SUBSET Pairs]
        BY <4>1 DEF EventDead, Types
      <4>4. pollset' \in [Endpoints -> SUBSET Channels]
        BY <4>1 DEF EventDead, Types
      <4> QED
        BY <4>2, <4>3, <4>4
    <3>3. CASE pending_conn_idx[e] = 0 /\ pending_dead[e] = NULL
      BY <1>2, <3>3 DEF Event, Types
    <3> QED
      BY <3>1, <3>2, <3>3
  <2> QED
    BY <1>2, <2>1, <2>2, <2>3 DEF Event, Types, kernelVars, clientVars
<1> QED
  BY <1>1, <1>2, <1>3

LEMMA TypesDestroy ==
  ASSUME Types, NEW e \in Endpoints, Destroy(e), urefs' \in [Tasks -> Nat]
  PROVE  Types'
<1>1. /\ queue' \in [Endpoints -> Seq(Messages) \cup {NULL}]
      /\ waiting' \in [Tasks -> Endpoints \cup {NULL}]
      /\ dnrequest' \in [Tasks -> Endpoints \cup {NULL}]
      /\ n_clients' \in [Endpoints -> Nat]
  BY DEF Destroy, Types
<1>2. conns' \in [Endpoints -> [Idx -> Conns \cup {NULL}]]
  BY DEF Destroy, Types
<1>3. live' \subseteq Channels
  BY DEF Destroy, Types
<1> QED
  BY <1>1, <1>2, <1>3 DEF Destroy, Types

-----------------------------------------------------------------------------
(* The number of slots in use. *)

LEMMA CountedSame ==
  ASSUME Counted, UNCHANGED <<conns, n_clients>>
  PROVE  Counted'
  BY DEF Counted, Active

LEMMA CountedClear ==
  ASSUME Types, Counted, NEW e \in Endpoints, NEW i \in Active(e), Clear(e, i)
  PROVE  Counted'
<1> SUFFICES ASSUME NEW x \in Endpoints
             PROVE  n_clients'[x] = Cardinality(Active(x)')
  BY DEF Counted
<1>1. CASE x = e
  <2>1. Active(x)' = Active(e) \ {i}
    BY <1>1, ClearTypes DEF Active
  <2>2. Cardinality(Active(e) \ {i}) = Cardinality(Active(e)) - 1
    BY SlotsFinite, FS_RemoveElement
  <2> QED
    BY <1>1, <2>1, <2>2 DEF Clear, Counted, Types
<1>2. CASE x # e
  <2>1. Active(x)' = Active(x)
    BY <1>2, ClearTypes DEF Active
  <2> QED
    BY <1>2, <2>1 DEF Clear, Counted, Types
<1> QED
  BY <1>1, <1>2

\* A slot is taken.
LEMMA StoreTypes ==
  ASSUME Types, ThreadInv, NEW e \in Endpoints, At(e, "notify"), Store(e)
  PROVE  /\ thread[e].slot \in Idx /\ conns[e][thread[e].slot] = NULL
         /\ thread[e].task \in Tasks
         /\ thread[e].fwd \in Channels /\ thread[e].rev \in Channels
         /\ conns'[e][thread[e].slot] =
              Conn(thread[e].task, thread[e].fwd, thread[e].rev)
         /\ conns'[e][thread[e].slot] \in Conns
         /\ conns'[e][thread[e].slot] # NULL
         /\ \A x \in Endpoints, j \in Idx :
              x # e \/ j # thread[e].slot => conns'[x][j] = conns[x][j]
<1> DEFINE c == thread[e]
<1>1. /\ c.slot \in Idx /\ conns[e][c.slot] = NULL /\ c.task \in Tasks
      /\ c.fwd \in Channels /\ c.rev \in Channels
  BY DEF At, ThreadInv, ThreadOK, SetUp
<1>2. Conn(c.task, c.fwd, c.rev) \in Conns
  BY <1>1 DEF Conn, Conns
<1>3. Conn(c.task, c.fwd, c.rev) # NULL
  BY <1>2, EndpointAssumption
<1> QED
  BY <1>1, <1>2, <1>3 DEF Store, Types

LEMMA CountedStore ==
  ASSUME Types, Counted, ThreadInv, NEW e \in Endpoints, At(e, "notify"), Store(e)
  PROVE  Counted'
<1> SUFFICES ASSUME NEW x \in Endpoints
             PROVE  n_clients'[x] = Cardinality(Active(x)')
  BY DEF Counted
<1>1. CASE x = e
  <2>1. Active(x)' = Active(e) \cup {thread[e].slot}
    BY <1>1, StoreTypes DEF Active
  <2>2. Cardinality(Active(e) \cup {thread[e].slot}) = Cardinality(Active(e)) + 1
    <3>1. thread[e].slot \notin Active(e)
      BY StoreTypes DEF Active
    <3> QED
      BY <3>1, SlotsFinite, FS_AddElement
  <2> QED
    BY <1>1, <2>1, <2>2 DEF Store, Counted, Types
<1>2. CASE x # e
  <2>1. Active(x)' = Active(x)
    BY <1>2, StoreTypes DEF Active
  <2> QED
    BY <1>2, <2>1 DEF Store, Counted, Types
<1> QED
  BY <1>1, <1>2

\* No step but these touches the slots.
LEMMA CountedStep ==
  ASSUME EndpointInv, Next
  PROVE  Counted'
<1> USE DEF EndpointInv
<1>1. ASSUME NEW t \in Tasks,
             \/ \E e \in Endpoints : Connect(t, e)
             \/ Disconnect(t) \/ DisconnectRpc(t) \/ Dies(t)
      PROVE  Counted'
  BY <1>1, CountedSame DEF Connect, Disconnect, DisconnectRpc, Dies, epVars
<1>2. ASSUME NEW e \in Endpoints,
             Receive(e) \/ Event(e) \/ PumpTimeout(e) \/ Reply(e) \/ Drained(e)
      PROVE  Counted'
  BY <1>2, CountedSame DEF Receive, Event, PumpTimeout, Reply, Drained, epVars
<1>3. ASSUME NEW e \in Endpoints,
             CreateFwd(e) \/ CreateRev(e) \/ ShareFwd(e) \/ ShareRev(e)
      PROVE  Counted'
  BY <1>3, CountedSame DEF CreateFwd, CreateRev, ShareFwd, ShareRev, Create,
                           Share, GiveUp, epVars
<1>4. ASSUME NEW e \in Endpoints, Notify(e) PROVE Counted'
  BY <1>4, CountedSame, CountedStore DEF Notify, GiveUp, epVars
<1>5. ASSUME NEW e \in Endpoints, CleanupDead(e) PROVE Counted'
  <2> DEFINE t == thread[e].task
  <2>1. CASE Of(e, t) = {}
    BY <1>5, <2>1, CountedSame DEF CleanupDead, SlotOf
  <2>2. CASE Of(e, t) # {}
    <3>1. Min(Of(e, t)) \in Active(e)
      BY <2>2, SlotPicked DEF Of
    <3> QED
      BY <1>5, <2>2, <3>1, CountedClear DEF CleanupDead, SlotOf
  <2> QED
    BY <2>1, <2>2
<1>6. ASSUME NEW e \in Endpoints, DisconnectHandler(e) PROVE Counted'
  <2> DEFINE t == thread[e].task
             found == IF thread[e].right THEN SlotOf(e, t) ELSE {}
  <2>1. CASE found = {}
    BY <1>6, <2>1, CountedSame DEF DisconnectHandler
  <2>2. CASE found # {}
    <3>1. Min(found) \in Active(e)
      BY <2>2, SlotPicked DEF Of, SlotOf
    <3>2. Clear(e, Min(found))
      BY <1>6, <2>2 DEF DisconnectHandler
    <3> QED
      BY <3>1, <3>2, CountedClear
  <2> QED
    BY <2>1, <2>2
<1>7. ASSUME NEW e \in Endpoints, Destroy(e) PROVE Counted'
  <2> SUFFICES ASSUME NEW x \in Endpoints
               PROVE  n_clients'[x] = Cardinality(Active(x)')
    BY DEF Counted
  <2>1. CASE x = e
    <3>1. Active(x)' = {}
      BY <1>7, <2>1 DEF Destroy, Active, Types
    <3> QED
      BY <1>7, <2>1, <3>1, FS_EmptySet DEF Destroy, Types
  <2>2. CASE x # e
    BY <1>7, <2>2 DEF Destroy, Active, Types, Counted
  <2> QED
    BY <2>1, <2>2
<1> QED
  BY <1>1, <1>2, <1>3, <1>4, <1>5, <1>6, <1>7
  DEF Next, Thread, Pump, Handler

-----------------------------------------------------------------------------
(* The threads. *)

\* What a step of another thread or of a client leaves alone.
LEMMA ThreadFrame ==
  ASSUME Types, NEW x \in Endpoints, ThreadOK(x), PendingOK(x),
         thread'[x] = thread[x], conns'[x] = conns[x],
         pending_conn_idx'[x] = pending_conn_idx[x],
         pending_dead'[x] = pending_dead[x],
         queue'[x] = NULL <=> queue[x] = NULL,
         \A t \in Tasks : alive'[t] => alive[t]
  PROVE  ThreadOK(x)' /\ PendingOK(x)'
<1>1. thread[x].pc \notin {"idle", "event", "drain"} => thread[x].task \in Tasks
  BY DEF ThreadOK
<1>2. Connecting \cap {"idle", "event", "drain"} = {}
  BY DEF Connecting, SetUp
<1>3. ThreadOK(x)'
  BY <1>1, <1>2 DEF ThreadOK, Open, Active
<1>4. PendingOK(x)'
  BY DEF PendingOK, At, Active
<1> QED
  BY <1>3, <1>4

LEMMA ThreadClient ==
  ASSUME Types, ThreadInv, PendingInv, NEW t \in Tasks,
         \/ \E e \in Endpoints : Connect(t, e)
         \/ Disconnect(t) \/ DisconnectRpc(t) \/ Dies(t)
  PROVE  ThreadInv' /\ PendingInv'
<1> USE DEF epVars, serverVars, kernelVars
<1>1. UNCHANGED <<thread, conns, pending_conn_idx, pending_dead>>
  BY DEF Connect, Disconnect, DisconnectRpc, Dies
<1>2. \A s \in Tasks : alive'[s] => alive[s]
  BY DEF Connect, Disconnect, DisconnectRpc, Dies, Types
<1>3. \A x \in Endpoints : queue'[x] = NULL <=> queue[x] = NULL
  <2>1. ASSUME NEW e \in Endpoints, NEW m \in Messages, Open(e), Post(e, m),
               NEW x \in Endpoints
        PROVE  queue'[x] = NULL <=> queue[x] = NULL
    BY <2>1, PostTypes DEF Open
  <2>2. CASE \E e \in Endpoints : Connect(t, e)
    BY <2>1, <2>2, MessageTypes DEF Connect
  <2>3. CASE Disconnect(t)
    BY <2>3 DEF Disconnect
  <2>4. CASE DisconnectRpc(t)
    <3>1. PICK h \in handles[t] : /\ Open(h.ep)
                                  /\ Post(h.ep, Message("disconnect", t))
      BY <2>4 DEF DisconnectRpc
    <3>2. h.ep \in Endpoints
      BY DEF Types, Handles
    <3> QED
      BY <2>1, <3>1, <3>2, MessageTypes
  <2>5. CASE Dies(t)
    <3>1. CASE dnrequest[t] # NULL /\ Open(dnrequest[t])
      <4>1. dnrequest[t] \in Endpoints
        BY <3>1 DEF Types
      <4> QED
        BY <2>1, <2>5, <3>1, <4>1, MessageTypes DEF Dies
    <3>2. CASE ~(dnrequest[t] # NULL /\ Open(dnrequest[t]))
      BY <2>5, <3>2 DEF Dies
    <3> QED
      BY <3>1, <3>2
  <2> QED
    BY <2>2, <2>3, <2>4, <2>5
<1> QED
  BY <1>1, <1>2, <1>3, ThreadFrame DEF ThreadInv, PendingInv

\* A step of the thread of e, with what it does to e itself given.
LEMMA ThreadServer ==
  ASSUME Types, ThreadInv, PendingInv, NEW e \in Endpoints,
         UNCHANGED alive,
         \A x \in Endpoints : x # e =>
            /\ thread'[x] = thread[x] /\ conns'[x] = conns[x]
            /\ pending_conn_idx'[x] = pending_conn_idx[x]
            /\ pending_dead'[x] = pending_dead[x]
            /\ queue'[x] = NULL <=> queue[x] = NULL,
         ThreadOK(e)', PendingOK(e)'
  PROVE  ThreadInv' /\ PendingInv'
  BY ThreadFrame DEF ThreadInv, PendingInv

LEMMA ThreadGiveUp ==
  ASSUME Types, ThreadInv, PendingInv, NEW e \in Endpoints,
         thread[e].pc \in SetUp \cup {"connect"},
         NEW unmap, NEW destroy, GiveUp(e, unmap, destroy)
  PROVE  ThreadInv' /\ PendingInv'
<1> USE DEF GiveUp, epVars
<1>1. /\ ThreadOK(e) /\ PendingOK(e) /\ Open(e)
      /\ pending_conn_idx[e] = 0 /\ pending_dead[e] = NULL
  BY DEF ThreadInv, PendingInv, ThreadOK, PendingOK, SetUp
<1>2. ThreadOK(e)'
  BY <1>1, DoneTypes DEF ThreadOK, Open, Connecting, SetUp
<1>3. PendingOK(e)'
  BY <1>1, DoneTypes DEF PendingOK, At
<1> QED
  BY <1>2, <1>3, DoneTypes, ThreadServer

LEMMA ThreadCreate ==
  ASSUME Types, Counted, ThreadInv, PendingInv, NEW e \in Endpoints,
         \/ /\ At(e, "connect") /\ ~Full(e)
            /\ Create(e, [thread[e] EXCEPT !.pc = "rev", !.slot = FreeSlot(e),
                                           !.fwd = NewChannel])
         \/ /\ At(e, "rev")
            /\ Create(e, [thread[e] EXCEPT !.pc = "share_fwd", !.rev = NewChannel])
  PROVE  Types' /\ ThreadInv' /\ PendingInv'
<1>1. /\ ThreadOK(e) /\ PendingOK(e) /\ Open(e) /\ thread[e] \in Threads
      /\ pending_conn_idx[e] = 0 /\ pending_dead[e] = NULL
  BY DEF ThreadInv, PendingInv, ThreadOK, PendingOK, At, Types
<1>2. NewChannel \in Channels
  BY NewChannelUnused DEF Create
<1>3. CASE At(e, "connect")
  <2> DEFINE d == [thread[e] EXCEPT !.pc = "rev", !.slot = FreeSlot(e),
                                    !.fwd = NewChannel]
  <2>1. ~Full(e) /\ Create(e, d)
    BY <1>3 DEF At
  <2>2. FreeSlot(e) \in Idx /\ conns[e][FreeSlot(e)] = NULL
    BY <2>1, FreeSlotFree
  <2>3. /\ d \in Threads /\ d.pc = "rev" /\ d.slot = FreeSlot(e)
        /\ d.fwd = NewChannel /\ d.rev = thread[e].rev
        /\ d.task = thread[e].task /\ d.right = thread[e].right
    BY <1>1, <1>2, <2>2 DEF Threads, Pcs, Connecting, SetUp
  <2> HIDE DEF d
  <2>4. /\ thread'[e] = d
        /\ \A x \in Endpoints : x # e => thread'[x] = thread[x]
        /\ UNCHANGED <<kernelVars, epVars>>
    BY <2>1 DEF Create, Types
  <2>5. ThreadOK(e)' /\ PendingOK(e)'
    BY <1>1, <1>2, <1>3, <2>2, <2>3, <2>4
    DEF ThreadOK, PendingOK, At, Open, SetUp, Connecting, kernelVars, epVars
  <2>6. Types'
    BY <2>1, <2>3, TypesCreate
  <2> QED
    BY <2>4, <2>5, <2>6, ThreadServer DEF kernelVars, epVars
<1>4. CASE At(e, "rev")
  <2> DEFINE d == [thread[e] EXCEPT !.pc = "share_fwd", !.rev = NewChannel]
  <2>1. Create(e, d)
    BY <1>4 DEF At
  <2>3. /\ d \in Threads /\ d.pc = "share_fwd" /\ d.slot = thread[e].slot
        /\ d.fwd = thread[e].fwd /\ d.rev = NewChannel
        /\ d.task = thread[e].task /\ d.right = thread[e].right
    BY <1>1, <1>2 DEF Threads, Pcs, Connecting, SetUp
  <2> HIDE DEF d
  <2>4. /\ thread'[e] = d
        /\ \A x \in Endpoints : x # e => thread'[x] = thread[x]
        /\ UNCHANGED <<kernelVars, epVars>>
    BY <2>1 DEF Create, Types
  <2>5. ThreadOK(e)' /\ PendingOK(e)'
    BY <1>1, <1>2, <1>4, <2>3, <2>4
    DEF ThreadOK, PendingOK, At, Open, SetUp, Connecting, kernelVars, epVars
  <2>6. Types'
    BY <2>1, <2>3, TypesCreate
  <2> QED
    BY <2>4, <2>5, <2>6, ThreadServer DEF kernelVars, epVars
<1> QED
  BY <1>3, <1>4

LEMMA ThreadShare ==
  ASSUME Types, ThreadInv, PendingInv, NEW e \in Endpoints,
         \/ Share(e, "share_fwd", "share_rev", thread[e].fwd)
         \/ Share(e, "share_rev", "notify", thread[e].rev)
  PROVE  Types' /\ ThreadInv' /\ PendingInv'
<1>1. /\ ThreadOK(e) /\ PendingOK(e) /\ Open(e) /\ thread[e].task \in Tasks
      /\ thread[e].pc \in {"share_fwd", "share_rev"}
      /\ pending_conn_idx[e] = 0 /\ pending_dead[e] = NULL
      /\ thread[e].fwd \in Channels /\ thread[e].rev \in Channels
  BY DEF ThreadInv, PendingInv, ThreadOK, PendingOK, At, Share, SetUp
<1>2. PICK pc \in {"share_rev", "notify"} : thread' = [thread EXCEPT ![e].pc = pc]
  BY DEF Share
<1>3. pc \in Pcs /\ {"share_fwd", "share_rev", "notify"} \subseteq Pcs
  BY DEF Pcs, Connecting, SetUp
<1>4. UNCHANGED <<kernelVars, epVars>>
  BY DEF Share
<1>5. ThreadOK(e)' /\ PendingOK(e)'
  BY <1>1, <1>2, <1>3, <1>4, StepTypes
  DEF ThreadOK, PendingOK, At, Open, SetUp, Connecting, kernelVars, epVars
<1>6. Types'
  BY <1>1, <1>3, TypesShare
<1> QED
  BY <1>2, <1>3, <1>4, <1>5, <1>6, StepTypes, ThreadServer DEF kernelVars, epVars

LEMMA ThreadRegisters ==
  ASSUME Types, ThreadInv, PendingInv, NEW e \in Endpoints, Registers(e)
  PROVE  ThreadInv' /\ PendingInv'
<1>1. /\ ThreadOK(e) /\ PendingOK(e) /\ Open(e) /\ thread[e].task \in Tasks
      /\ pending_conn_idx[e] = 0 /\ pending_dead[e] = NULL
  BY DEF ThreadInv, PendingInv, ThreadOK, PendingOK, At, Registers
<1>2. /\ thread'[e].pc = "reply" /\ thread'[e].task = thread[e].task
      /\ thread'[e].right = thread[e].right /\ thread'[e].slot = thread[e].slot
      /\ thread'[e].fwd = thread[e].fwd /\ thread'[e].rev = thread[e].rev
      /\ \A x \in Endpoints : x # e => thread'[x] = thread[x]
  BY StepTypes DEF Registers, Pcs, Connecting
<1>3. /\ thread[e].slot \in Idx
      /\ thread[e].fwd \in Channels /\ thread[e].rev \in Channels
      /\ conns'[e][thread[e].slot] =
           Conn(thread[e].task, thread[e].fwd, thread[e].rev)
      /\ conns'[e][thread[e].slot] # NULL
  BY StoreTypes DEF Registers
<1>4. /\ UNCHANGED <<alive, pending_dead>>
      /\ pending_conn_idx'[e] = IF e \in Reactors THEN thread[e].slot ELSE 0
      /\ \A x \in Endpoints : x # e =>
           /\ pending_conn_idx'[x] = pending_conn_idx[x]
           /\ conns'[x] = conns[x]
  BY DEF Registers, Store, Types
<1>5. \A x \in Endpoints : queue'[x] = NULL <=> queue[x] = NULL
  <2>1. CASE dnrequest[thread[e].task] # NULL /\ Open(dnrequest[thread[e].task])
    <3>1. dnrequest[thread[e].task] \in Endpoints
      BY <1>1, <2>1 DEF Types
    <3>2. Message("send_once", thread[e].task) \in Messages
      BY <1>1, MessageTypes
    <3> QED
      BY <2>1, <3>1, <3>2, PostTypes DEF Registers, RequestNotification, Open
  <2>2. CASE ~(dnrequest[thread[e].task] # NULL /\ Open(dnrequest[thread[e].task]))
    BY <2>2 DEF Registers, RequestNotification
  <2> QED
    BY <2>1, <2>2
<1>6. 0 \notin Idx
  BY DEF Idx
<1>7. ThreadOK(e)'
  BY <1>1, <1>2, <1>3, <1>4, <1>5
  DEF ThreadOK, Open, SetUp, Connecting, At, Registers
<1>8. PendingOK(e)'
  BY <1>1, <1>2, <1>3, <1>4, <1>6 DEF PendingOK, At, Active
<1> QED
  BY <1>2, <1>4, <1>5, <1>7, <1>8, ThreadServer

LEMMA ThreadReply ==
  ASSUME Types, ThreadInv, PendingInv, NEW e \in Endpoints, Reply(e)
  PROVE  ThreadInv' /\ PendingInv'
<1>1. ThreadOK(e) /\ PendingOK(e) /\ Open(e) /\ pending_dead[e] = NULL
  BY DEF ThreadInv, PendingInv, ThreadOK, PendingOK, At, Reply
<1>2. HandlerDone(e) /\ UNCHANGED <<kernelVars, epVars>>
  BY DEF Reply
<1>3. ThreadOK(e)'
  BY <1>1, <1>2, DoneTypes DEF ThreadOK, Open, Connecting, SetUp, kernelVars
<1>4. PendingOK(e)'
  BY <1>1, <1>2, DoneTypes DEF PendingOK, At, epVars, Reply, Active
<1> QED
  BY <1>2, <1>3, <1>4, DoneTypes, ThreadServer DEF kernelVars, epVars

LEMMA ThreadCleanupDead ==
  ASSUME Types, Counted, ThreadInv, PendingInv, NEW e \in Endpoints,
         CleanupDead(e)
  PROVE  ThreadInv' /\ PendingInv'
<1>1. /\ ThreadOK(e) /\ PendingOK(e) /\ Open(e)
      /\ pending_conn_idx[e] = 0 /\ pending_dead[e] = NULL
  BY DEF ThreadInv, PendingInv, ThreadOK, PendingOK, At, CleanupDead
<1>2. HandlerDone(e) /\ UNCHANGED <<alive, queue, pending_conn_idx>>
  BY DEF CleanupDead
<1>3. /\ \A x \in Endpoints : x # e => /\ conns'[x] = conns[x]
                                       /\ pending_dead'[x] = pending_dead[x]
      /\ e \notin Reactors => pending_dead'[e] = NULL
  BY <1>1 DEF CleanupDead, Clear, DisposeDead, Types
<1>4. ThreadOK(e)'
  BY <1>1, <1>2, DoneTypes DEF ThreadOK, Open, Connecting, SetUp
<1>5. PendingOK(e)'
  BY <1>1, <1>2, <1>3, DoneTypes DEF PendingOK, At
<1> QED
  BY <1>2, <1>3, <1>4, <1>5, DoneTypes, ThreadServer

LEMMA ThreadDisconnectHandler ==
  ASSUME Types, ThreadInv, PendingInv, NEW e \in Endpoints,
         DisconnectHandler(e)
  PROVE  ThreadInv' /\ PendingInv'
<1>1. /\ ThreadOK(e) /\ PendingOK(e) /\ Open(e)
      /\ pending_conn_idx[e] = 0 /\ pending_dead[e] = NULL
  BY DEF ThreadInv, PendingInv, ThreadOK, PendingOK, At, DisconnectHandler
<1>2. HandlerDone(e) /\ UNCHANGED <<alive, queue, pending_conn_idx, pending_dead>>
  BY DEF DisconnectHandler
<1>3. \A x \in Endpoints : x # e => conns'[x] = conns[x]
  BY DEF DisconnectHandler, Clear, Types
<1>4. ThreadOK(e)'
  BY <1>1, <1>2, DoneTypes DEF ThreadOK, Open, Connecting, SetUp
<1>5. PendingOK(e)'
  BY <1>1, <1>2, DoneTypes DEF PendingOK, At
<1> QED
  BY <1>2, <1>3, <1>4, <1>5, DoneTypes, ThreadServer

\* The message that a thread takes, and what it makes of it.
LEMMA ReceiveMessage ==
  ASSUME Types, NEW e \in Endpoints, Receive(e)
  PROVE  \E t \in Tasks, k \in {"connect", "dead", "disconnect", "send_once"} :
           /\ Queued(e, 1, k, t)
           /\ Head(queue[e]) = Message(k, t)
           /\ thread'[e].pc = IF k # "send_once" THEN k
                              ELSE IF e \in Reactors THEN "event" ELSE "idle"
           /\ k = "send_once" => thread'[e].task = NULL
           /\ k # "send_once" => thread'[e].task = t
           /\ thread'[e].right = (k \in {"connect", "disconnect"} /\ alive[t])
           /\ thread'[e].fwd = 0 /\ thread'[e].rev = 0
           /\ urefs' = IF k \in {"connect", "disconnect"} /\ alive[t]
                       THEN [urefs EXCEPT ![t] = @ + 1] ELSE urefs
<1> DEFINE m == Head(queue[e])
           right == m.kind \in {"connect", "disconnect"} /\ alive[m.task]
           pc == IF m.kind # "send_once" THEN m.kind
                 ELSE IF e \in Reactors THEN "event" ELSE "idle"
           d == IF pc \in {"idle", "event"} THEN [Idle EXCEPT !.pc = pc]
                ELSE [Idle EXCEPT !.pc = pc, !.task = m.task, !.right = right]
<1>1. queue[e] \in Seq(Messages) /\ queue[e] # <<>> /\ m \in Messages
  BY TypesReceive
<1>2. /\ m.kind \in {"connect", "dead", "disconnect", "send_once"}
      /\ m.task \in Tasks /\ m = Message(m.kind, m.task)
  BY <1>1 DEF Messages, Message
<1>3. /\ urefs' = IF right THEN [urefs EXCEPT ![m.task] = @ + 1] ELSE urefs
      /\ thread' = [thread EXCEPT ![e] = d]
  BY DEF Receive
<1>4. queue[e][1] = m /\ 1 \in DOMAIN queue[e] /\ Open(e)
  BY <1>1 DEF Receive, CanReceive
<1> HIDE DEF m
<1>5. /\ d.pc = pc /\ d.fwd = 0 /\ d.rev = 0
      /\ m.kind # "send_once" => d.task = m.task /\ d.right = right
      /\ m.kind = "send_once" => d.task = NULL /\ d.right = FALSE
  BY <1>2 DEF Idle
<1> HIDE DEF d
<1>6. thread'[e] = d
  BY <1>3 DEF Types
<1>7. m.kind = "send_once" => right = FALSE
  OBVIOUS
<1>8. Queued(e, 1, m.kind, m.task) /\ Head(queue[e]) = Message(m.kind, m.task)
  BY <1>2, <1>4 DEF Queued, m
<1>9. /\ thread'[e].pc = pc /\ thread'[e].right = right
      /\ m.kind = "send_once" => thread'[e].task = NULL
      /\ m.kind # "send_once" => thread'[e].task = m.task
      /\ thread'[e].fwd = 0 /\ thread'[e].rev = 0
  BY <1>5, <1>6, <1>7
<1> QED
  BY <1>2, <1>3, <1>8, <1>9

LEMMA ThreadReceive ==
  ASSUME Types, ThreadInv, PendingInv, QueueInv, NEW e \in Endpoints, Receive(e)
  PROVE  ThreadInv' /\ PendingInv'
<1>1. PICK t \in Tasks, k \in {"connect", "dead", "disconnect", "send_once"} :
           /\ Queued(e, 1, k, t)
           /\ thread'[e].pc = IF k # "send_once" THEN k
                              ELSE IF e \in Reactors THEN "event" ELSE "idle"
           /\ k = "send_once" => thread'[e].task = NULL
           /\ k # "send_once" => thread'[e].task = t
           /\ thread'[e].right = (k \in {"connect", "disconnect"} /\ alive[t])
           /\ thread'[e].fwd = 0 /\ thread'[e].rev = 0
  BY ReceiveMessage
<1>2. 1 \in Nat
  OBVIOUS
<1>3. k = "dead" => ~alive[t]
  <2>1. QueueOK(e, t)
    BY DEF QueueInv
  <2> QED
    BY <1>1, <1>2, <2>1 DEF QueueOK
<1>4. /\ UNCHANGED alive /\ queue' = [queue EXCEPT ![e] = Tail(@)]
      /\ pending_conn_idx' = [pending_conn_idx EXCEPT ![e] = 0]
      /\ pending_dead' = [pending_dead EXCEPT ![e] = NULL]
      /\ UNCHANGED conns
  BY DEF Receive, ResetPending
<1>5. queue'[e] # NULL
  <2>1. Tail(queue[e]) \in Seq(Messages)
    BY TypesReceive
  <2> QED
    BY <1>4, <2>1, EndpointAssumption DEF Types
<1>6. ThreadOK(e)'
  BY <1>1, <1>3, <1>4, <1>5 DEF ThreadOK, Open, Connecting, SetUp
<1>7. PendingOK(e)'
  BY <1>1, <1>4 DEF PendingOK, At, Types
<1>8. \A x \in Endpoints : x # e =>
        /\ thread'[x] = thread[x] /\ queue'[x] = queue[x]
        /\ pending_conn_idx'[x] = pending_conn_idx[x]
        /\ pending_dead'[x] = pending_dead[x]
  BY <1>4, TypesReceive DEF Types
<1> QED
  BY <1>4, <1>6, <1>7, <1>8, ThreadServer

LEMMA ThreadPump ==
  ASSUME Types, ThreadInv, PendingInv, NEW e \in Endpoints,
         PumpTimeout(e) \/ Event(e) \/ Drained(e)
  PROVE  ThreadInv' /\ PendingInv'
<1>1. ThreadOK(e) /\ PendingOK(e) /\ Open(e) /\ e \in Reactors
  BY EndpointAssumption
  DEF ThreadInv, PendingInv, PumpTimeout, Event, Drained, At, ThreadOK
<1>2. UNCHANGED <<kernelVars, conns>>
  BY DEF PumpTimeout, Event, Drained, epVars
<1>3. /\ thread'[e].pc \in {"idle", "drain"} /\ thread'[e].task = NULL
      /\ thread'[e].fwd = 0 /\ thread'[e].rev = 0
      /\ \A x \in Endpoints : x # e => thread'[x] = thread[x]
  BY TurnTypes DEF PumpTimeout, Event
<1>4. /\ pending_conn_idx'[e] = 0
      /\ \A x \in Endpoints : x # e =>
           /\ pending_conn_idx'[x] = pending_conn_idx[x]
           /\ pending_dead'[x] = pending_dead[x]
  <2>1. CASE PumpTimeout(e) \/ Event(e)
    BY <2>1 DEF PumpTimeout, Event, ResetPending, Types
  <2>2. CASE Drained(e)
    BY <1>1, <2>2 DEF Drained, epVars, PendingOK, At
  <2> QED
    BY <2>1, <2>2
<1>5. ThreadOK(e)'
  BY <1>1, <1>2, <1>3 DEF ThreadOK, Open, Connecting, SetUp, kernelVars
<1>6. PendingOK(e)'
  BY <1>1, <1>3, <1>4 DEF PendingOK, At
<1> QED
  BY <1>2, <1>3, <1>4, <1>5, <1>6, ThreadServer DEF kernelVars

LEMMA ThreadDestroy ==
  ASSUME Types, ThreadInv, PendingInv, NEW e \in Endpoints, Destroy(e)
  PROVE  ThreadInv' /\ PendingInv'
<1>1. ThreadOK(e) /\ PendingOK(e) /\ thread[e].pc = "idle" /\ e \notin Reactors
  BY DEF ThreadInv, PendingInv, Destroy, At
<1>2. UNCHANGED <<alive, thread, pending_conn_idx, pending_dead>>
  BY DEF Destroy
<1>3. /\ \A x \in Endpoints : x # e => conns'[x] = conns[x] /\ queue'[x] = queue[x]
      /\ conns'[e] = [i \in Idx |-> NULL] /\ queue'[e] = NULL
  BY DEF Destroy, Types
<1>4. ThreadOK(e)'
  BY <1>1, <1>2, <1>3 DEF ThreadOK, Open, Connecting, SetUp, Active
<1>5. PendingOK(e)'
  BY <1>1, <1>2 DEF PendingOK, At
<1> QED
  BY <1>2, <1>3, <1>4, <1>5, ThreadServer

-----------------------------------------------------------------------------
(* Ownership of the channels. *)

Keys == 0 .. MAX_CLIENTS

\* A thread creates a channel; some owners destroy what they own; one owner
\* hands over to another.
Adds(o, l, p, m, e, x) ==
  /\ e \in Endpoints /\ x \notin l
  /\ \A f \in Endpoints, k \in Keys :
       p[f][k] = IF f = e /\ k = 0 THEN o[f][k] \cup {x} ELSE o[f][k]
  /\ \A y : y \in m <=> y \in l \/ y = x

LEMMA SoundAdd ==
  ASSUME NEW o, NEW l, NEW p, NEW m, NEW e, NEW x,
         Sound(o, l), Adds(o, l, p, m, e, x)
  PROVE  Sound(p, m)
<1> USE DEF Adds
<1>0. 0 \in Keys
  BY EndpointAssumption DEF Keys
<1>1. \A f \in Endpoints, k \in Keys : x \notin o[f][k]
  BY DEF Sound, Keys
<1>2. ASSUME NEW f \in Endpoints, NEW g \in Endpoints, NEW j \in Keys, NEW k \in Keys,
             p[f][j] \cap p[g][k] # {}
      PROVE  f = g /\ j = k
  <2>1. PICK y : y \in p[f][j] /\ y \in p[g][k]
    BY <1>2
  <2>2. CASE y = x
    <3>1. f = e /\ j = 0
      BY <1>1, <2>1, <2>2
    <3>2. g = e /\ k = 0
      BY <1>1, <2>1, <2>2
    <3> QED
      BY <3>1, <3>2
  <2>3. CASE y # x
    <3>1. y \in o[f][j] /\ y \in o[g][k]
      <4>1. y \in o[f][j]
        BY <2>1, <2>3
      <4>2. y \in o[g][k]
        BY <2>1, <2>3
      <4> QED
        BY <4>1, <4>2
    <3> QED
      BY <3>1 DEF Sound, Keys
  <2> QED
    BY <2>2, <2>3
<1>3. \A y : y \in m <=> \E f \in Endpoints, k \in Keys : y \in p[f][k]
  <2> TAKE y
  <2>1. y \in l <=> \E f \in Endpoints, k \in Keys : y \in o[f][k]
    BY DEF Sound, Keys
  <2>2. y = x => y \in p[e][0]
    BY <1>0
  <2>3. \A f \in Endpoints, k \in Keys : y \in o[f][k] => y \in p[f][k]
    OBVIOUS
  <2>4. \A f \in Endpoints, k \in Keys : y \in p[f][k] => y \in o[f][k] \/ y = x
    OBVIOUS
  <2> QED
    BY <1>0, <2>1, <2>2, <2>3, <2>4
<1> QED
  BY <1>2, <1>3 DEF Sound, Keys

LEMMA SoundDrop ==
  ASSUME NEW o, NEW l, NEW p, NEW m, Sound(o, l), NEW e \in Endpoints,
         NEW D, D \subseteq Keys,
         \A f \in Endpoints, k \in Keys :
           p[f][k] = IF f = e /\ k \in D THEN {} ELSE o[f][k],
         \A x : x \in m <=> x \in l /\ \A k \in D : x \notin o[e][k]
  PROVE  Sound(p, m)
<1>1. \A f, g \in Endpoints : \A j, k \in Keys :
        p[f][j] \cap p[g][k] # {} => f = g /\ j = k
  BY DEF Sound, Keys
<1>2. \A y : y \in m <=> \E f \in Endpoints, k \in Keys : y \in p[f][k]
  <2> TAKE y
  <2>1. y \in l <=> \E f \in Endpoints, k \in Keys : y \in o[f][k]
    BY DEF Sound, Keys
  <2>2. ASSUME y \in m PROVE \E f \in Endpoints, k \in Keys : y \in p[f][k]
    BY <2>1, <2>2
  <2>3. ASSUME NEW f \in Endpoints, NEW k \in Keys, y \in p[f][k] PROVE y \in m
    <3>1. y \in o[f][k] /\ ~(f = e /\ k \in D)
      BY <2>3
    <3>2. \A j \in D : y \notin o[e][j]
      BY <3>1 DEF Sound, Keys
    <3> QED
      BY <2>1, <3>1, <3>2
  <2> QED
    BY <2>2, <2>3
<1> QED
  BY <1>1, <1>2 DEF Sound, Keys

LEMMA SoundMove ==
  ASSUME NEW o, NEW l, NEW p, NEW m, Sound(o, l), NEW e \in Endpoints,
         NEW i \in Keys, NEW j \in Keys, i # j, o[e][j] = {},
         \A f \in Endpoints, k \in Keys :
           p[f][k] = IF f = e /\ k = i THEN {}
                     ELSE IF f = e /\ k = j THEN o[e][i] ELSE o[f][k],
         m = l
  PROVE  Sound(p, m)
<1>1. ASSUME NEW f \in Endpoints, NEW g \in Endpoints, NEW n \in Keys, NEW k \in Keys,
             p[f][n] \cap p[g][k] # {}
      PROVE  f = g /\ n = k
  BY <1>1 DEF Sound, Keys
<1>2. \A y : y \in m <=> \E f \in Endpoints, k \in Keys : y \in p[f][k]
  <2> TAKE y
  <2>1. y \in l <=> \E f \in Endpoints, k \in Keys : y \in o[f][k]
    BY DEF Sound, Keys
  <2>2. ASSUME NEW f \in Endpoints, NEW k \in Keys, y \in o[f][k]
        PROVE  \E g \in Endpoints, n \in Keys : y \in p[g][n]
    BY <2>2
  <2>3. ASSUME NEW f \in Endpoints, NEW k \in Keys, y \in p[f][k]
        PROVE  \E g \in Endpoints, n \in Keys : y \in o[g][n]
    BY <2>3
  <2> QED
    BY <2>1, <2>2, <2>3
<1> QED
  BY <1>1, <1>2 DEF Sound, Keys

LEMMA SoundSame ==
  ASSUME NEW o, NEW l, NEW p, NEW m, Sound(o, l),
         \A f \in Endpoints, k \in Keys : p[f][k] = o[f][k],
         m = l
  PROVE  Sound(p, m)
  BY DEF Sound, Keys

\* What each owner owns, before and after a step.
LEMMA OwnValue ==
  ASSUME NEW e \in Endpoints
  PROVE  /\ own[e][0] = InHand(e) /\ own'[e][0] = InHand(e)'
         /\ \A k \in Idx :
              /\ k \in Keys /\ k # 0
              /\ own[e][k] = IF conns[e][k] = NULL THEN {}
                             ELSE ChannelsOf(conns[e][k])
              /\ own'[e][k] = IF conns'[e][k] = NULL THEN {}
                              ELSE ChannelsOf(conns'[e][k])
         /\ \A k \in Keys : k # 0 => k \in Idx
         /\ 0 \in Keys
<1>1. 0 \in Keys /\ 0 \in 0 .. MAX_CLIENTS
  BY EndpointAssumption DEF Keys
<1>2. \A k \in Idx : k \in Keys /\ k # 0 /\ k \in 0 .. MAX_CLIENTS
  BY DEF Keys, Idx
<1>3. \A k \in Keys : k # 0 => k \in Idx
  BY DEF Keys, Idx
<1> QED
  BY <1>1, <1>2, <1>3 DEF own, ChannelsOf

LEMMA OwnFrame ==
  ASSUME NEW f \in Endpoints
  PROVE  /\ conns'[f] = conns[f] => \A k \in Idx : own'[f][k] = own[f][k]
         /\ thread'[f] = thread[f] /\ pending_dead'[f] = pending_dead[f]
              => own'[f][0] = own[f][0]
<1>1. conns'[f] = conns[f] => \A k \in Idx : own'[f][k] = own[f][k]
  BY OwnValue
<1>2. thread'[f] = thread[f] /\ pending_dead'[f] = pending_dead[f]
        => InHand(f)' = InHand(f)
  BY DEF InHand, ChannelsOf
<1> QED
  BY <1>1, <1>2, OwnValue

\* A step that moves no channel from one owner to another.
LEMMA OwnSame ==
  ASSUME Types, OwnInv, UNCHANGED <<conns, live>>,
         NEW e \in Endpoints, InHand(e)' = InHand(e),
         \A x \in Endpoints : x # e => /\ thread'[x] = thread[x]
                                       /\ pending_dead'[x] = pending_dead[x]
  PROVE  OwnInv'
<1>1. \A f \in Endpoints, k \in Keys : own'[f][k] = own[f][k]
  BY OwnFrame, OwnValue
<1>2. Sound(own', live')
  BY <1>1, SoundSame DEF OwnInv
<1> QED
  BY <1>2 DEF OwnInv, Sound

LEMMA OwnClient ==
  ASSUME Types, OwnInv, NEW t \in Tasks,
         \/ \E e \in Endpoints : Connect(t, e)
         \/ Disconnect(t) \/ DisconnectRpc(t) \/ Dies(t)
  PROVE  OwnInv'
<1>1. UNCHANGED <<conns, live, thread, pending_dead>>
  BY DEF Connect, Disconnect, DisconnectRpc, Dies, epVars, serverVars
<1>2. \A f \in Endpoints, k \in Keys : own'[f][k] = own[f][k]
  BY <1>1, OwnFrame, OwnValue
<1>3. Sound(own', live')
  BY <1>1, <1>2, SoundSame DEF OwnInv
<1> QED
  BY <1>3 DEF OwnInv, Sound

\* What the thread of e has in hand, at each step.
LEMMA InHandValue ==
  ASSUME ThreadInv, PendingInv, NEW e \in Endpoints
  PROVE  /\ thread[e].pc \in {"idle", "connect", "dead", "disconnect", "reply", "drain"}
              => InHand(e) = {}
         /\ thread[e].pc = "rev" => InHand(e) = {thread[e].fwd}
         /\ thread[e].pc \in SetUp \ {"rev"}
              => InHand(e) = {thread[e].fwd, thread[e].rev}
         /\ thread[e].pc = "event" => InHand(e) = IF pending_dead[e] = NULL THEN {}
                                          ELSE ChannelsOf(pending_dead[e])
<1>1. ThreadOK(e)
  BY DEF ThreadInv
<1>2. 0 \notin Channels
  BY DEF Channels
<1>3. thread[e].pc \in {"idle", "connect", "dead", "disconnect", "reply", "drain"}
              => InHand(e) = {}
  BY DEF InHand
<1>4. thread[e].pc = "rev" => InHand(e) = {thread[e].fwd}
  <2> SUFFICES ASSUME thread[e].pc = "rev" PROVE InHand(e) = {thread[e].fwd}
    OBVIOUS
  <2>1. thread[e].rev = 0 /\ thread[e].fwd # 0
    BY <1>1, <1>2 DEF ThreadOK, SetUp
  <2> QED
    BY <2>1 DEF InHand
<1>5. thread[e].pc \in SetUp \ {"rev"} => InHand(e) = {thread[e].fwd, thread[e].rev}
  <2> SUFFICES ASSUME thread[e].pc \in SetUp \ {"rev"}
               PROVE  InHand(e) = {thread[e].fwd, thread[e].rev}
    OBVIOUS
  <2>1. thread[e].rev # 0 /\ thread[e].fwd # 0
    BY <1>1, <1>2 DEF ThreadOK
  <2> QED
    BY <2>1 DEF InHand, SetUp
<1> QED
  BY <1>3, <1>4, <1>5 DEF InHand

\* A step of the thread of e after which the owners in D own nothing.
LEMMA OwnDrop ==
  ASSUME OwnInv, NEW e \in Endpoints, NEW D, D \subseteq Keys,
         \A x \in Endpoints : x # e =>
           /\ thread'[x] = thread[x] /\ conns'[x] = conns[x]
           /\ pending_dead'[x] = pending_dead[x],
         \A k \in Keys : own'[e][k] = IF k \in D THEN {} ELSE own[e][k],
         \A x : x \in live' <=> x \in live /\ \A k \in D : x \notin own[e][k]
  PROVE  OwnInv'
<1>1. \A f \in Endpoints, k \in Keys : f # e => own'[f][k] = own[f][k]
  BY OwnFrame, OwnValue
<1>2. \A f \in Endpoints, k \in Keys :
        own'[f][k] = IF f = e /\ k \in D THEN {} ELSE own[f][k]
  BY <1>1
<1>3. Sound(own, live)
  BY DEF OwnInv
<1> DEFINE o == own  p == own'  l == live  m == live'
<1> HIDE DEF o, p, l, m
<1>4. Sound(o, l)
  BY <1>3 DEF o, l
<1>5. \A f \in Endpoints, k \in Keys :
        p[f][k] = IF f = e /\ k \in D THEN {} ELSE o[f][k]
  BY <1>2 DEF o, p
<1>6. \A x : x \in m <=> x \in l /\ \A k \in D : x \notin o[e][k]
  BY DEF o, l, m
<1>7. Sound(p, m)
  BY <1>4, <1>5, <1>6, SoundDrop
<1> QED
  BY <1>7 DEF OwnInv, Sound, p, m

LEMMA OwnGiveUp ==
  ASSUME Types, ThreadInv, PendingInv, OwnInv, NEW e \in Endpoints,
         thread[e].pc \in SetUp \cup {"connect"},
         NEW unmap, NEW destroy, GiveUp(e, unmap, destroy), destroy = InHand(e)
  PROVE  OwnInv'
<1> USE DEF GiveUp, epVars
<1>1. pending_dead[e] = NULL
  BY DEF PendingInv, PendingOK, SetUp
<1>2. InHand(e)' = {}
  BY <1>1, DoneTypes DEF InHand
<1>3. \A k \in Keys : own'[e][k] = IF k \in {0} THEN {} ELSE own[e][k]
  <2>1. \A k \in Idx : own'[e][k] = own[e][k]
    BY OwnFrame
  <2> QED
    BY <1>2, <2>1, OwnValue
<1>4. \A x : x \in live' <=> x \in live /\ \A k \in {0} : x \notin own[e][k]
  BY OwnValue
<1> DEFINE D == {0}
<1>5. D \subseteq Keys
  BY OwnValue
<1>6. \A k \in Keys : own'[e][k] = IF k \in D THEN {} ELSE own[e][k]
  BY <1>3
<1>7. \A x : x \in live' <=> x \in live /\ \A k \in D : x \notin own[e][k]
  BY <1>4
<1>8. \A x \in Endpoints : x # e =>
        /\ thread'[x] = thread[x] /\ conns'[x] = conns[x]
        /\ pending_dead'[x] = pending_dead[x]
  BY DoneTypes
<1> HIDE DEF D
<1> QED
  BY <1>5, <1>6, <1>7, <1>8, OwnDrop

LEMMA OwnCreate ==
  ASSUME Types, Counted, ThreadInv, PendingInv, OwnInv, NEW e \in Endpoints,
         \/ /\ At(e, "connect") /\ ~Full(e)
            /\ Create(e, [thread[e] EXCEPT !.pc = "rev", !.slot = FreeSlot(e),
                                           !.fwd = NewChannel])
         \/ /\ At(e, "rev")
            /\ Create(e, [thread[e] EXCEPT !.pc = "share_fwd", !.rev = NewChannel])
  PROVE  OwnInv'
<1>1. thread[e] \in Threads /\ ThreadOK(e) /\ PendingOK(e)
  BY DEF ThreadInv, PendingInv, Types
<1>2. NewChannel \in Channels /\ NewChannel \notin live /\ NewChannel # 0
  BY NewChannelUnused DEF Create, Channels
<1>3. /\ live' = live \cup {NewChannel} /\ UNCHANGED <<kernelVars, epVars>>
      /\ \A x \in Endpoints : x # e => thread'[x] = thread[x]
  BY DEF Create, Types
<1>4. InHand(e)' = InHand(e) \cup {NewChannel}
  <2>1. CASE At(e, "connect")
    <3>1. thread[e].rev = 0 /\ InHand(e) = {}
      BY <1>1, <2>1, InHandValue DEF At, ThreadOK
    <3>2. thread'[e].pc = "rev" /\ thread'[e].fwd = NewChannel /\ thread'[e].rev = 0
      <4> DEFINE d == [thread[e] EXCEPT !.pc = "rev", !.slot = FreeSlot(e),
                                        !.fwd = NewChannel]
      <4>1. d.pc = "rev" /\ d.fwd = NewChannel /\ d.rev = thread[e].rev
        BY <1>1 DEF Threads
      <4>2. Create(e, d)
        BY <2>1 DEF At
      <4> HIDE DEF d
      <4>3. thread'[e] = d
        BY <4>2 DEF Create, Types
      <4> QED
        BY <3>1, <4>1, <4>3
    <3> QED
      BY <1>2, <1>3, <3>1, <3>2 DEF InHand
  <2>2. CASE At(e, "rev")
    <3>1. InHand(e) = {thread[e].fwd} /\ thread[e].fwd # 0
      BY <1>1, <2>2, InHandValue DEF At, ThreadOK, SetUp, Channels
    <3>2. /\ thread'[e].pc = "share_fwd" /\ thread'[e].fwd = thread[e].fwd
          /\ thread'[e].rev = NewChannel
      <4> DEFINE d == [thread[e] EXCEPT !.pc = "share_fwd", !.rev = NewChannel]
      <4>1. d.pc = "share_fwd" /\ d.fwd = thread[e].fwd /\ d.rev = NewChannel
        BY <1>1 DEF Threads
      <4>2. Create(e, d)
        BY <2>2 DEF At
      <4> HIDE DEF d
      <4>3. thread'[e] = d
        BY <4>2 DEF Create, Types
      <4> QED
        BY <4>1, <4>3
    <3> QED
      BY <1>2, <3>1, <3>2 DEF InHand
  <2> QED
    BY <2>1, <2>2
<1>5. \A f \in Endpoints, k \in Keys :
        own'[f][k] = IF f = e /\ k = 0 THEN own[f][k] \cup {NewChannel}
                     ELSE own[f][k]
  BY <1>3, <1>4, OwnFrame, OwnValue DEF epVars
<1> DEFINE o == own  p == own'  l == live  m == live'  x == NewChannel
<1> HIDE DEF o, p, l, m, x
<1>6. Sound(o, l) /\ x \notin l /\ \A y : y \in m <=> y \in l \/ y = x
  BY <1>2, <1>3 DEF OwnInv, o, l, m, x
<1>7. \A f \in Endpoints, k \in Keys :
        p[f][k] = IF f = e /\ k = 0 THEN o[f][k] \cup {x} ELSE o[f][k]
  BY <1>5 DEF o, p, x
<1>8. Adds(o, l, p, m, e, x)
  BY <1>6, <1>7 DEF Adds
<1>9. Sound(p, m)
  BY <1>6, <1>8, SoundAdd
<1> QED
  BY <1>9 DEF OwnInv, Sound, p, m

LEMMA OwnShare ==
  ASSUME Types, ThreadInv, PendingInv, OwnInv, NEW e \in Endpoints,
         \/ Share(e, "share_fwd", "share_rev", thread[e].fwd)
         \/ Share(e, "share_rev", "notify", thread[e].rev)
  PROVE  OwnInv'
<1>1. PICK pc \in {"share_rev", "notify"} :
        /\ thread' = [thread EXCEPT ![e].pc = pc]
        /\ thread[e].pc \in {"share_fwd", "share_rev"}
  BY DEF Share, At
<1>2. UNCHANGED <<epVars, live>> /\ pc \in Pcs
  BY <1>1 DEF Share, Pcs, Connecting, SetUp
<1>3. InHand(e)' = InHand(e)
  BY <1>1, <1>2, StepTypes DEF InHand, epVars
<1> QED
  BY <1>1, <1>2, <1>3, StepTypes, OwnSame DEF epVars

LEMMA OwnRegisters ==
  ASSUME Types, ThreadInv, PendingInv, OwnInv, NEW e \in Endpoints, Registers(e)
  PROVE  OwnInv'
<1> DEFINE c == thread[e]
<1>1. /\ c.slot \in Idx /\ conns[e][c.slot] = NULL
      /\ conns'[e][c.slot] = Conn(c.task, c.fwd, c.rev)
      /\ conns'[e][c.slot] # NULL
      /\ \A x \in Endpoints, j \in Idx :
           x # e \/ j # c.slot => conns'[x][j] = conns[x][j]
  BY StoreTypes DEF Registers
<1>2. InHand(e) = {c.fwd, c.rev}
  BY InHandValue DEF Registers, At, SetUp
<1>3. InHand(e)' = {}
  <2>1. thread'[e].pc = "reply"
    BY StepTypes DEF Registers, Pcs, Connecting
  <2> QED
    BY <2>1 DEF InHand
<1>4. ChannelsOf(conns'[e][c.slot]) = {c.fwd, c.rev}
  BY <1>1 DEF ChannelsOf, Conn
<1>5. \A x \in Endpoints : x # e => /\ thread'[x] = thread[x]
                                    /\ pending_dead'[x] = pending_dead[x]
  BY DEF Registers, Store, Types
<1>6. own[e][c.slot] = {} /\ own'[e][c.slot] = own[e][0] /\ own'[e][0] = {}
  <2>1. own[e][c.slot] = {} /\ own'[e][c.slot] = {c.fwd, c.rev}
    BY <1>1, <1>4, OwnValue
  <2> QED
    BY <1>2, <1>3, <2>1, OwnValue
<1>7. \A f \in Endpoints, k \in Idx : f # e \/ k # c.slot => own'[f][k] = own[f][k]
  BY <1>1, OwnValue
<1>8. \A f \in Endpoints, k \in Keys :
        own'[f][k] = IF f = e /\ k = 0 THEN {}
                     ELSE IF f = e /\ k = c.slot THEN own[e][0] ELSE own[f][k]
  BY <1>5, <1>6, <1>7, OwnFrame, OwnValue
<1>9. c.slot \in Keys /\ 0 \in Keys /\ c.slot # 0 /\ live' = live
  BY <1>1, OwnValue DEF Registers
<1>10. Sound(own', live')
  BY <1>6, <1>8, <1>9, SoundMove DEF OwnInv
<1> QED
  BY <1>10 DEF OwnInv, Sound

LEMMA OwnReply ==
  ASSUME Types, ThreadInv, PendingInv, OwnInv, NEW e \in Endpoints, Reply(e)
  PROVE  OwnInv'
<1>1. HandlerDone(e) /\ UNCHANGED <<epVars, live>> /\ pending_dead[e] = NULL
  BY DEF Reply, PendingInv, PendingOK, At
<1>2. InHand(e) = {}
  BY InHandValue DEF Reply, At
<1>3. InHand(e)' = {}
  BY <1>1, DoneTypes DEF InHand, epVars
<1> QED
  BY <1>1, <1>2, <1>3, DoneTypes, OwnSame DEF epVars

\* A handler that destroys the channels of slot i and clears it.
LEMMA OwnClear ==
  ASSUME Types, Counted, ThreadInv, PendingInv, OwnInv, NEW e \in Endpoints,
         NEW i \in Active(e), Clear(e, i), HandlerDone(e),
         UNCHANGED pending_dead, live' = live \ ChannelsOf(conns[e][i]),
         thread[e].pc \in {"dead", "disconnect"}
  PROVE  OwnInv'
<1>1. pending_dead[e] = NULL /\ InHand(e) = {}
  BY InHandValue DEF PendingInv, PendingOK
<1>2. InHand(e)' = {}
  BY <1>1, DoneTypes DEF InHand
<1>3. /\ i \in Idx /\ conns[e][i] # NULL /\ conns'[e][i] = NULL
      /\ \A x \in Endpoints, j \in Idx :
           x # e \/ j # i => conns'[x][j] = conns[x][j]
      /\ \A x \in Endpoints : x # e => conns'[x] = conns[x]
  BY ClearTypes DEF Active, Clear, Types
<1> DEFINE D == {i}
<1>4. D \subseteq Keys /\ own[e][i] = ChannelsOf(conns[e][i])
  BY <1>3, OwnValue
<1>5. \A k \in Keys : own'[e][k] = IF k \in D THEN {} ELSE own[e][k]
  <2>1. own'[e][0] = own[e][0] /\ 0 \notin D
    <3>1. own[e][0] = InHand(e) /\ own'[e][0] = InHand(e)'
      BY OwnValue
    <3>2. 0 \notin D
      BY <1>3 DEF Idx
    <3> QED
      BY <1>1, <1>2, <3>1, <3>2
  <2>2. own'[e][i] = {}
    BY <1>3, OwnValue
  <2>3. \A k \in Idx : k # i => own'[e][k] = own[e][k]
    BY <1>3, OwnValue
  <2> QED
    BY <2>1, <2>2, <2>3, OwnValue
<1>6. \A x : x \in live' <=> x \in live /\ \A k \in D : x \notin own[e][k]
  BY <1>4
<1>7. \A x \in Endpoints : x # e =>
        /\ thread'[x] = thread[x] /\ conns'[x] = conns[x]
        /\ pending_dead'[x] = pending_dead[x]
  BY <1>3, DoneTypes
<1> HIDE DEF D
<1> QED
  BY <1>4, <1>5, <1>6, <1>7, OwnDrop

LEMMA OwnCleanupDead ==
  ASSUME Types, Counted, ThreadInv, PendingInv, OwnInv, NEW e \in Endpoints,
         CleanupDead(e)
  PROVE  OwnInv'
<1> DEFINE t == thread[e].task
<1>1. HandlerDone(e) /\ thread[e].pc = "dead"
  BY DEF CleanupDead, At
<1>2. pending_dead[e] = NULL /\ InHand(e) = {}
  BY <1>1, InHandValue DEF PendingInv, PendingOK
<1>3. CASE Of(e, t) = {}
  <2>1. UNCHANGED <<live, conns, pending_dead>>
    BY <1>3 DEF CleanupDead, SlotOf
  <2>2. InHand(e)' = {}
    BY <1>1, <1>2, <2>1, DoneTypes DEF InHand
  <2> QED
    BY <1>1, <1>2, <2>1, <2>2, DoneTypes, OwnSame
<1>4. CASE Of(e, t) # {}
  <2> DEFINE i == Min(Of(e, t))
             c == conns[e][i]
  <2>1. i \in Active(e)
    BY <1>4, SlotPicked DEF Of
  <2>2. Clear(e, i) /\ DisposeDead(e, c)
    BY <1>4 DEF CleanupDead, SlotOf
  <2> HIDE DEF i
  <2>3. CASE e \notin Reactors
    BY <1>1, <2>1, <2>2, <2>3, OwnClear DEF DisposeDead
  <2>4. CASE e \in Reactors
    <3>1. /\ i \in Idx /\ c # NULL /\ conns'[e][i] = NULL
          /\ \A x \in Endpoints, j \in Idx :
               x # e \/ j # i => conns'[x][j] = conns[x][j]
      BY <2>1, <2>2, ClearTypes DEF Active
    <3>2. c \in Conns
      BY <3>1 DEF Types
    <3>3. /\ pending_dead'[e] = Pair(c.fwd, c.rev) /\ live' = live
          /\ \A x \in Endpoints : x # e => pending_dead'[x] = pending_dead[x]
      BY <2>2, <2>4 DEF DisposeDead, Types
    <3>4. Pair(c.fwd, c.rev) # NULL
      <4>1. Pair(c.fwd, c.rev) \in Pairs
        BY <3>2 DEF Pair, Pairs, Conns
      <4> QED
        BY <4>1, EndpointAssumption
    <3>5. InHand(e)' = ChannelsOf(c)
      <4>1. thread'[e].pc = "event"
        BY <1>1, <2>4, DoneTypes
      <4>2. ChannelsOf(Pair(c.fwd, c.rev)) = ChannelsOf(c)
        BY DEF ChannelsOf, Pair
      <4> QED
        BY <3>3, <3>4, <4>1, <4>2 DEF InHand, ChannelsOf
    <3>6. own[e][i] = ChannelsOf(c) /\ own'[e][i] = {}
      BY <3>1, OwnValue
    <3>7. own[e][0] = {} /\ own'[e][0] = own[e][i]
      BY <1>2, <3>5, <3>6, OwnValue
    <3>8. \A f \in Endpoints, k \in Idx : f # e \/ k # i => own'[f][k] = own[f][k]
      BY <3>1, OwnValue
    <3>9. \A f \in Endpoints : f # e => own'[f][0] = own[f][0]
      BY <1>1, <3>3, DoneTypes, OwnFrame
    <3>10. \A f \in Endpoints, k \in Keys :
             own'[f][k] = IF f = e /\ k = i THEN {}
                          ELSE IF f = e /\ k = 0 THEN own[e][i] ELSE own[f][k]
      BY <3>6, <3>7, <3>8, <3>9, OwnValue
    <3>11. i \in Keys /\ 0 \in Keys /\ i # 0
      BY <3>1, OwnValue
    <3>12. Sound(own', live')
      BY <3>3, <3>7, <3>10, <3>11, SoundMove DEF OwnInv
    <3> QED
      BY <3>12 DEF OwnInv, Sound
  <2> QED
    BY <2>3, <2>4
<1> QED
  BY <1>3, <1>4

LEMMA OwnDisconnectHandler ==
  ASSUME Types, Counted, ThreadInv, PendingInv, OwnInv, NEW e \in Endpoints,
         DisconnectHandler(e)
  PROVE  OwnInv'
<1> DEFINE t == thread[e].task
           found == IF thread[e].right THEN SlotOf(e, t) ELSE {}
<1>1. /\ HandlerDone(e) /\ thread[e].pc = "disconnect" /\ UNCHANGED pending_dead
  BY DEF DisconnectHandler, At
<1>2. pending_dead[e] = NULL /\ InHand(e) = {}
  BY <1>1, InHandValue DEF PendingInv, PendingOK
<1>3. CASE found = {}
  <2>1. UNCHANGED <<live, conns>>
    BY <1>3 DEF DisconnectHandler
  <2>2. InHand(e)' = {}
    BY <1>1, <1>2, DoneTypes DEF InHand
  <2> QED
    BY <1>1, <1>2, <2>1, <2>2, DoneTypes, OwnSame
<1>4. CASE found # {}
  <2>1. Min(found) \in Active(e)
    BY <1>4, SlotPicked DEF Of, SlotOf
  <2>2. /\ Clear(e, Min(found))
        /\ live' = live \ ChannelsOf(conns[e][Min(found)])
    BY <1>4 DEF DisconnectHandler
  <2> QED
    BY <1>1, <2>1, <2>2, OwnClear
<1> QED
  BY <1>3, <1>4

LEMMA OwnReceive ==
  ASSUME Types, ThreadInv, PendingInv, OwnInv, NEW e \in Endpoints, Receive(e)
  PROVE  OwnInv'
<1>1. InHand(e) = {}
  BY InHandValue DEF Receive, CanReceive, At
<1>2. /\ pending_dead'[e] = NULL
      /\ \A x \in Endpoints : x # e => pending_dead'[x] = pending_dead[x]
  BY DEF Receive, ResetPending, Types
<1>3. thread'[e].pc \in {"connect", "dead", "disconnect", "event", "idle"}
  BY ReceiveMessage
<1>4. InHand(e)' = {}
  BY <1>2, <1>3 DEF InHand
<1>5. UNCHANGED <<conns, live>> /\ \A x \in Endpoints : x # e => thread'[x] = thread[x]
  BY TypesReceive DEF Receive
<1> QED
  BY <1>1, <1>2, <1>4, <1>5, OwnSame

LEMMA OwnPump ==
  ASSUME Types, ThreadInv, PendingInv, OwnInv, NEW e \in Endpoints,
         PumpTimeout(e) \/ Event(e) \/ Drained(e)
  PROVE  OwnInv'
<1>0. /\ thread'[e].pc \in {"idle", "drain"}
      /\ \A x \in Endpoints : x # e => thread'[x] = thread[x]
  BY TurnTypes DEF PumpTimeout, Event
<1>1. /\ UNCHANGED conns
      /\ \A x \in Endpoints : x # e => /\ thread'[x] = thread[x]
                                       /\ pending_dead'[x] = pending_dead[x]
  BY <1>0 DEF PumpTimeout, Event, Drained, ResetPending, Types, epVars
<1>2. InHand(e)' = {}
  BY <1>0 DEF InHand
<1>3. CASE PumpTimeout(e) \/ Drained(e) \/ (Event(e) /\ pending_dead[e] = NULL)
  <2>1. InHand(e) = {} /\ UNCHANGED live
    BY <1>3, InHandValue
    DEF PumpTimeout, Event, Drained, At, EventNew, PendingInv, PendingOK
  <2> QED
    BY <1>1, <1>2, <2>1, OwnSame
<1>4. CASE Event(e) /\ pending_dead[e] # NULL
  <2> DEFINE D == {0}
  <2>1. InHand(e) = ChannelsOf(pending_dead[e]) /\ pending_conn_idx[e] = 0
    BY <1>4, InHandValue DEF Event, At, PendingInv, PendingOK
  <2>2. live' = live \ InHand(e)
    BY <1>4, <2>1 DEF Event, EventDead
  <2>3. D \subseteq Keys
    BY OwnValue
  <2>4. \A k \in Keys : own'[e][k] = IF k \in D THEN {} ELSE own[e][k]
    <3>1. \A k \in Idx : own'[e][k] = own[e][k]
      BY <1>1, OwnFrame
    <3> QED
      BY <1>2, <3>1, OwnValue
  <2>5. \A x : x \in live' <=> x \in live /\ \A k \in D : x \notin own[e][k]
    BY <2>2, OwnValue
  <2> HIDE DEF D
  <2> QED
    BY <1>1, <2>3, <2>4, <2>5, OwnDrop
<1> QED
  BY <1>3, <1>4

LEMMA OwnDestroy ==
  ASSUME Types, ThreadInv, PendingInv, OwnInv, NEW e \in Endpoints, Destroy(e)
  PROVE  OwnInv'
<1>1. InHand(e) = {} /\ InHand(e)' = {}
  BY DEF Destroy, At, InHand
<1>2. \A i \in Idx : conns'[e][i] = NULL
  BY DEF Destroy, Types
<1>3. \A k \in Keys : own'[e][k] = IF k \in Keys THEN {} ELSE own[e][k]
  BY <1>1, <1>2, OwnValue
<1>4. \A x : x \in live' <=> x \in live /\ \A k \in Keys : x \notin own[e][k]
  <2> TAKE x
  <2>1. (\A k \in Keys : x \notin own[e][k])
          <=> \A i \in Active(e) : x \notin ChannelsOf(conns[e][i])
    BY <1>1, OwnValue DEF Active
  <2> QED
    BY <2>1 DEF Destroy
<1>5. \A x \in Endpoints : x # e =>
        /\ thread'[x] = thread[x] /\ conns'[x] = conns[x]
        /\ pending_dead'[x] = pending_dead[x]
  BY DEF Destroy, Types
<1> QED
  BY <1>3, <1>4, <1>5, OwnDrop

-----------------------------------------------------------------------------
(* What is mapped in the clients. *)

\* What is in hand belongs to no handle, to no slot and to no other thread.
LEMMA Apart ==
  ASSUME Types, ThreadInv, OwnInv, MapInv, NEW f \in Endpoints
  PROVE  /\ InHand(f) \subseteq live
         /\ \A t \in Tasks : \A h \in handles[t] : ChannelsOf(h) \cap InHand(f) = {}
         /\ \A e \in Endpoints : e # f => InHand(e) \cap InHand(f) = {}
         /\ \A e \in Endpoints : thread[e].pc = "reply" =>
              {thread[e].fwd, thread[e].rev} \cap InHand(f) = {}
<1>1. ASSUME NEW e \in Endpoints, NEW k \in Idx, conns[e][k] # NULL
      PROVE  ChannelsOf(conns[e][k]) \cap InHand(f) = {}
             /\ ChannelsOf(conns[e][k]) \subseteq live
  <2>1. own[e][k] = ChannelsOf(conns[e][k]) /\ own[f][0] = InHand(f) /\ k # 0
    BY <1>1, OwnValue
  <2>2. k \in 0 .. MAX_CLIENTS /\ 0 \in 0 .. MAX_CLIENTS
    BY OwnValue DEF Keys
  <2>3. own[e][k] \cap own[f][0] = {}
    BY <2>1, <2>2 DEF OwnInv, Sound
  <2>4. \A x : x \in own[e][k] => x \in live
    BY <2>2 DEF OwnInv, Sound
  <2> QED
    BY <2>1, <2>3, <2>4
<1>2. InHand(f) \subseteq live
  <2>1. own[f][0] = InHand(f) /\ 0 \in 0 .. MAX_CLIENTS
    BY OwnValue DEF Keys
  <2> QED
    BY <2>1 DEF OwnInv, Sound
<1>3. ASSUME NEW t \in Tasks, NEW h \in handles[t]
      PROVE  ChannelsOf(h) \cap InHand(f) = {}
  <2>1. HandleOK(t, h) /\ h.ep \in Endpoints
    BY DEF MapInv, Types, Handles
  <2>2. CASE Open(h.ep)
    <3>1. PICK i \in Idx : conns[h.ep][i] = Conn(t, h.fwd, h.rev)
      BY <2>1, <2>2 DEF HandleOK
    <3>2. ChannelsOf(Conn(t, h.fwd, h.rev)) = ChannelsOf(h)
      BY DEF Conn, ChannelsOf
    <3>3. Conn(t, h.fwd, h.rev) # NULL
      <4>1. Conn(t, h.fwd, h.rev) \in Conns
        BY DEF Conn, Conns, Types, Handles
      <4> QED
        BY <4>1, EndpointAssumption
    <3> QED
      BY <1>1, <2>1, <3>1, <3>2, <3>3
  <2>3. CASE ~Open(h.ep)
    BY <1>2, <2>1, <2>3 DEF HandleOK
  <2> QED
    BY <2>2, <2>3
<1>4. \A e \in Endpoints : e # f => InHand(e) \cap InHand(f) = {}
  <2>1. \A e \in Endpoints : own[e][0] = InHand(e) /\ 0 \in 0 .. MAX_CLIENTS
    BY OwnValue DEF Keys
  <2> QED
    BY <2>1 DEF OwnInv, Sound
<1>5. ASSUME NEW e \in Endpoints, thread[e].pc = "reply"
      PROVE  {thread[e].fwd, thread[e].rev} \cap InHand(f) = {}
  <2> DEFINE c == thread[e]
  <2>1. /\ c.slot \in Idx /\ conns[e][c.slot] = Conn(c.task, c.fwd, c.rev)
        /\ Conn(c.task, c.fwd, c.rev) \in Conns
    BY <1>5 DEF ThreadInv, ThreadOK, Conn, Conns
  <2>2. ChannelsOf(Conn(c.task, c.fwd, c.rev)) = {c.fwd, c.rev}
    BY DEF Conn, ChannelsOf
  <2> QED
    BY <1>1, <2>1, <2>2, EndpointAssumption
<1> QED
  BY <1>2, <1>3, <1>4, <1>5

\* The connections of two replies are in different slots.
LEMMA RepliesApart ==
  ASSUME ThreadInv, OwnInv, NEW e \in Endpoints, NEW f \in Endpoints, e # f,
         thread[e].pc = "reply", thread[f].pc = "reply"
  PROVE  {thread[f].fwd, thread[f].rev} \cap {thread[e].fwd, thread[e].rev} = {}
<1>1. ASSUME NEW x \in Endpoints, thread[x].pc = "reply"
      PROVE  /\ thread[x].slot \in 0 .. MAX_CLIENTS
             /\ own[x][thread[x].slot] = {thread[x].fwd, thread[x].rev}
  <2> DEFINE c == thread[x]
             d == Conn(c.task, c.fwd, c.rev)
  <2>1. c.slot \in Idx /\ conns[x][c.slot] = d /\ d \in Conns
    BY <1>1 DEF ThreadInv, ThreadOK, Conn, Conns
  <2>2. ChannelsOf(d) = {c.fwd, c.rev}
    BY DEF ChannelsOf, Conn
  <2> HIDE DEF d
  <2> QED
    BY <2>1, <2>2, EndpointAssumption, OwnValue DEF Keys
<1>2. own[f][thread[f].slot] \cap own[e][thread[e].slot] = {}
  BY <1>1 DEF OwnInv, Sound
<1> QED
  BY <1>1, <1>2

\* A handle that a step does not touch.
LEMMA HandleFrame ==
  ASSUME Types, MapInv, NEW t \in Tasks, NEW h \in handles[t],
         handles'[t] \subseteq handles[t], ChannelsOf(h) \subseteq mapped'[t],
         queue'[h.ep] = NULL <=> queue[h.ep] = NULL,
         ChannelsOf(h) \cap (live' \ live) = {},
         \A i \in Idx : conns[h.ep][i] = Conn(t, h.fwd, h.rev)
                          => conns'[h.ep][i] = conns[h.ep][i]
  PROVE  HandleOK(t, h)'
<1>1. HandleOK(t, h)
  BY DEF MapInv
<1> QED
  BY <1>1 DEF HandleOK, Open, ChannelsOf, Conn

\* A thread that a step does not touch.
LEMMA SharedFrame ==
  ASSUME Types, ThreadInv, MapInv, NEW f \in Endpoints,
         thread'[f] = thread[f],
         \A t \in Tasks : handles'[t] \subseteq handles[t] /\ (alive'[t] => alive[t]),
         \A x \in {thread[f].fwd, thread[f].rev} : \A t \in Tasks :
           t = thread[f].task =>
             /\ x \in mapped'[t] => x \in mapped[t]
             /\ x \in mapped[t] /\ alive'[t]
                  /\ thread[f].pc \in {"share_rev", "notify", "reply"} => x \in mapped'[t]
  PROVE  SharedOK(f)'
<1>1. SharedOK(f) /\ (thread[f].pc \in SetUp \cup {"reply"} => thread[f].task \in Tasks)
  BY DEF MapInv, ThreadInv, ThreadOK, SetUp
<1> QED
  BY <1>1 DEF SharedOK, ChannelsOf, SetUp

\* A step that leaves the clients as they are, and removes from the slots and
\* the threads nothing that a client has.
LEMMA MapStep ==
  ASSUME Types, ThreadInv, MapInv, UNCHANGED <<alive, handles, mapped>>,
         NEW e \in Endpoints,
         \A x \in Endpoints : x # e => thread'[x] = thread[x],
         thread'[e].pc \notin SetUp \cup {"reply"},
         \A t \in Tasks : thread[e].task = t =>
           {thread[e].fwd, thread[e].rev} \cap mapped[t] = {},
         \A x \in Endpoints : queue'[x] = NULL <=> queue[x] = NULL,
         live' \subseteq live,
         \A t \in Tasks : \A h \in handles[t] : \A i \in Idx :
           conns[h.ep][i] = Conn(t, h.fwd, h.rev)
             => conns'[h.ep][i] = conns[h.ep][i]
  PROVE  MapInv'
<1>1. ASSUME NEW t \in Tasks, NEW h \in handles[t] PROVE HandleOK(t, h)'
  <2>1. h.ep \in Endpoints /\ HandleOK(t, h)
    BY DEF Types, Handles, MapInv
  <2> QED
    BY <2>1, HandleFrame DEF HandleOK
<1>2. ASSUME NEW f \in Endpoints PROVE SharedOK(f)'
  <2>1. CASE f = e
    BY <2>1 DEF SharedOK, SetUp
  <2>2. CASE f # e
    BY <2>2, SharedFrame
  <2> QED
    BY <2>1, <2>2
<1>3. ASSUME NEW t \in Tasks, NEW x \in mapped[t] PROVE Justified(t, x)'
  <2>1. Justified(t, x)
    BY DEF MapInv
  <2> QED
    BY <2>1 DEF Justified, ChannelsOf
<1> QED
  BY <1>1, <1>2, <1>3 DEF MapInv

LEMMA MapSame ==
  ASSUME MapInv, UNCHANGED <<alive, handles, mapped, live, conns, thread>>,
         Types, \A x \in Endpoints : queue'[x] = NULL <=> queue[x] = NULL
  PROVE  MapInv'
<1>1. ASSUME NEW t \in Tasks, NEW h \in handles[t] PROVE HandleOK(t, h)'
  <2>1. h.ep \in Endpoints /\ HandleOK(t, h)
    BY DEF Types, Handles, MapInv
  <2> QED
    BY <2>1, HandleFrame DEF HandleOK
<1>2. \A f \in Endpoints : SharedOK(f)'
  BY DEF MapInv, SharedOK, ChannelsOf
<1>3. \A t \in Tasks : \A x \in mapped[t] : Justified(t, x)'
  BY DEF MapInv, Justified, ChannelsOf
<1> QED
  BY <1>1, <1>2, <1>3 DEF MapInv

\* The client detaches from the channels of one handle.
LEMMA MapDetach ==
  ASSUME Types, ThreadInv, PendingInv, OwnInv, MapInv, NEW t \in Tasks,
         NEW h \in handles[t], Detach(t, h),
         UNCHANGED <<alive, live, conns, thread>>,
         \A x \in Endpoints : queue'[x] = NULL <=> queue[x] = NULL
  PROVE  MapInv'
<1>1. /\ handles'[t] = handles[t] \ {h} /\ mapped'[t] = mapped[t] \ ChannelsOf(h)
      /\ \A s \in Tasks : s # t => handles'[s] = handles[s] /\ mapped'[s] = mapped[s]
  BY DEF Detach, Types
<1>2. ASSUME NEW s \in Tasks, NEW g \in handles'[s] PROVE HandleOK(s, g)'
  <2>1. g \in handles[s] /\ (s = t => g # h)
    BY <1>1
  <2>2. g.ep \in Endpoints /\ HandleOK(s, g)
    BY <2>1 DEF Types, Handles, MapInv
  <2>3. ChannelsOf(g) \subseteq mapped'[s]
    <3>1. CASE s # t
      BY <1>1, <2>2, <3>1 DEF HandleOK
    <3>2. CASE s = t
      <4>1. ChannelsOf(g) \cap ChannelsOf(h) = {}
        BY <2>1, <2>2, <3>2 DEF HandleOK
      <4> QED
        BY <1>1, <2>2, <3>2, <4>1 DEF HandleOK
    <3> QED
      BY <3>1, <3>2
  <2> QED
    BY <1>1, <2>1, <2>2, <2>3, HandleFrame
<1>3. ASSUME NEW f \in Endpoints PROVE SharedOK(f)'
  <2>1. CASE thread[f].pc \in {"share_rev", "notify"}
    <3>1. InHand(f) = {thread[f].fwd, thread[f].rev}
      BY <2>1, InHandValue DEF SetUp
    <3>2. ChannelsOf(h) \cap {thread[f].fwd, thread[f].rev} = {}
      BY <3>1, Apart
    <3> QED
      BY <1>1, <3>2, SharedFrame
  <2>2. CASE thread[f].pc = "reply"
    <3>1. ChannelsOf(h) \cap {thread[f].fwd, thread[f].rev} = {}
      BY <2>2 DEF MapInv, SharedOK
    <3> QED
      BY <1>1, <3>1, SharedFrame
  <2>3. CASE thread[f].pc \notin {"share_rev", "notify", "reply"}
    BY <1>1, <2>3, SharedFrame
  <2> QED
    BY <2>1, <2>2, <2>3
<1>4. ASSUME NEW s \in Tasks, NEW x \in mapped'[s] PROVE Justified(s, x)'
  <2>1. Justified(s, x) /\ (s = t => x \notin ChannelsOf(h))
    BY <1>1 DEF MapInv
  <2> QED
    BY <1>1, <2>1 DEF Justified, ChannelsOf
<1>5. \A s \in Tasks : ~alive'[s] => mapped'[s] = {} /\ handles'[s] = {}
  BY <1>1 DEF MapInv
<1> QED
  BY <1>2, <1>3, <1>4, <1>5 DEF MapInv

LEMMA MapDies ==
  ASSUME Types, ThreadInv, MapInv, NEW t \in Tasks, Dies(t),
         \A x \in Endpoints : queue'[x] = NULL <=> queue[x] = NULL
  PROVE  MapInv'
<1>1. /\ handles'[t] = {} /\ mapped'[t] = {} /\ ~alive'[t]
      /\ \A s \in Tasks : s # t => /\ handles'[s] = handles[s]
                                   /\ mapped'[s] = mapped[s]
                                   /\ alive'[s] = alive[s]
      /\ UNCHANGED <<live, conns, thread>>
  BY DEF Dies, Types, epVars, serverVars
<1>2. ASSUME NEW s \in Tasks, NEW g \in handles'[s] PROVE HandleOK(s, g)'
  <2>1. s # t /\ g \in handles[s]
    BY <1>1
  <2>2. g.ep \in Endpoints /\ HandleOK(s, g)
    BY <2>1 DEF Types, Handles, MapInv
  <2> QED
    BY <1>1, <2>1, <2>2, HandleFrame DEF HandleOK
<1>3. ASSUME NEW f \in Endpoints PROVE SharedOK(f)'
  BY <1>1, SharedFrame
<1>4. ASSUME NEW s \in Tasks, NEW x \in mapped'[s] PROVE Justified(s, x)'
  <2>1. s # t /\ Justified(s, x)
    BY <1>1 DEF MapInv
  <2> QED
    BY <1>1, <2>1 DEF Justified, ChannelsOf
<1>5. \A s \in Tasks : ~alive'[s] => mapped'[s] = {} /\ handles'[s] = {}
  BY <1>1 DEF MapInv
<1> QED
  BY <1>2, <1>3, <1>4, <1>5 DEF MapInv

\* No step of a client creates or destroys a port.
LEMMA PortsClient ==
  ASSUME Types, NEW t \in Tasks,
         \/ \E e \in Endpoints : Connect(t, e)
         \/ Disconnect(t) \/ DisconnectRpc(t) \/ Dies(t)
  PROVE  \A x \in Endpoints : queue'[x] = NULL <=> queue[x] = NULL
<1>1. ASSUME NEW e \in Endpoints, NEW m \in Messages, Open(e), Post(e, m),
             NEW x \in Endpoints
      PROVE  queue'[x] = NULL <=> queue[x] = NULL
  BY <1>1, PostTypes DEF Open
<1>2. CASE \E e \in Endpoints : Connect(t, e)
  BY <1>1, <1>2, MessageTypes DEF Connect
<1>3. CASE Disconnect(t)
  BY <1>3 DEF Disconnect, kernelVars
<1>4. CASE DisconnectRpc(t)
  <2>1. PICK h \in handles[t] : /\ Open(h.ep)
                                /\ Post(h.ep, Message("disconnect", t))
    BY <1>4 DEF DisconnectRpc
  <2>2. h.ep \in Endpoints
    BY DEF Types, Handles
  <2> QED
    BY <1>1, <2>1, <2>2, MessageTypes
<1>5. CASE Dies(t)
  <2>1. CASE dnrequest[t] # NULL /\ Open(dnrequest[t])
    <3>1. dnrequest[t] \in Endpoints
      BY <2>1 DEF Types
    <3> QED
      BY <1>1, <1>5, <2>1, <3>1, MessageTypes DEF Dies
  <2>2. CASE ~(dnrequest[t] # NULL /\ Open(dnrequest[t]))
    BY <1>5, <2>2 DEF Dies
  <2> QED
    BY <2>1, <2>2
<1> QED
  BY <1>2, <1>3, <1>4, <1>5

LEMMA MapClient ==
  ASSUME Types, ThreadInv, PendingInv, OwnInv, MapInv, NEW t \in Tasks,
         \/ \E e \in Endpoints : Connect(t, e)
         \/ Disconnect(t) \/ DisconnectRpc(t) \/ Dies(t)
  PROVE  MapInv'
<1>1. \A x \in Endpoints : queue'[x] = NULL <=> queue[x] = NULL
  BY PortsClient
<1>2. CASE \E e \in Endpoints : Connect(t, e)
  BY <1>1, <1>2, MapSame DEF Connect, epVars, serverVars
<1>3. CASE Disconnect(t) \/ DisconnectRpc(t)
  <2>1. PICK h \in handles[t] : Detach(t, h)
    BY <1>3 DEF Disconnect, DisconnectRpc
  <2>2. UNCHANGED <<alive, live, conns, thread>>
    BY <1>3 DEF Disconnect, DisconnectRpc, kernelVars, epVars, serverVars
  <2> QED
    BY <1>1, <2>1, <2>2, MapDetach
<1>4. CASE Dies(t)
  BY <1>1, <1>4, MapDies
<1> QED
  BY <1>2, <1>3, <1>4

\* connect_rpc gives up: what was mapped of the channels in hand is unmapped.
LEMMA MapGiveUp ==
  ASSUME Types, ThreadInv, PendingInv, OwnInv, MapInv, NEW e \in Endpoints,
         thread[e].pc \in SetUp \cup {"connect"},
         NEW unmap, NEW destroy, GiveUp(e, unmap, destroy),
         unmap \subseteq InHand(e),
         {thread[e].fwd, thread[e].rev} \cap mapped[thread[e].task] \subseteq unmap
  PROVE  MapInv'
<1> DEFINE t == thread[e].task
<1>0. t \in Tasks
  BY DEF ThreadInv, ThreadOK, SetUp
<1>1. /\ mapped'[t] = mapped[t] \ unmap
      /\ \A s \in Tasks : s # t => mapped'[s] = mapped[s]
      /\ UNCHANGED <<alive, handles, conns, queue>> /\ live' \subseteq live
  BY <1>0 DEF GiveUp, Refused, Types, epVars
<1>2. /\ thread'[e].task = NULL /\ thread'[e].pc \in {"idle", "event"}
      /\ \A x \in Endpoints : x # e => thread'[x] = thread[x]
  BY DoneTypes DEF GiveUp
<1>3. ASSUME NEW s \in Tasks, NEW g \in handles'[s] PROVE HandleOK(s, g)'
  <2>1. g \in handles[s]
    BY <1>1
  <2>2. g.ep \in Endpoints /\ HandleOK(s, g)
    BY <2>1 DEF Types, Handles, MapInv
  <2>3. ChannelsOf(g) \cap InHand(e) = {}
    BY <2>1, Apart
  <2>4. ChannelsOf(g) \subseteq mapped'[s]
    BY <1>1, <2>2, <2>3 DEF HandleOK
  <2> QED
    BY <1>1, <2>1, <2>2, <2>4, HandleFrame
<1>4. ASSUME NEW f \in Endpoints PROVE SharedOK(f)'
  <2>1. CASE f = e
    BY <1>2, <2>1 DEF SharedOK
  <2>2. CASE f # e /\ thread[f].pc \in {"share_rev", "notify"}
    <3>1. InHand(f) = {thread[f].fwd, thread[f].rev}
      BY <2>2, InHandValue DEF SetUp
    <3>2. {thread[f].fwd, thread[f].rev} \cap unmap = {}
      BY <2>2, <3>1, Apart
    <3> QED
      BY <1>1, <1>2, <2>2, <3>2, SharedFrame
  <2>3. CASE f # e /\ thread[f].pc = "reply"
    <3>1. {thread[f].fwd, thread[f].rev} \cap unmap = {}
      BY <2>3, Apart
    <3> QED
      BY <1>1, <1>2, <2>3, <3>1, SharedFrame
  <2>4. CASE f # e /\ thread[f].pc \notin {"share_rev", "notify", "reply"}
    BY <1>1, <1>2, <2>4, SharedFrame
  <2> QED
    BY <2>1, <2>2, <2>3, <2>4
<1>5. ASSUME NEW s \in Tasks, NEW x \in mapped'[s] PROVE Justified(s, x)'
  <2>1. x \in mapped[s] /\ Justified(s, x)
    BY <1>1 DEF MapInv
  <2>2. ~(s = t /\ x \in {thread[e].fwd, thread[e].rev})
    BY <1>1, <2>1
  <2> QED
    BY <1>1, <1>2, <2>1, <2>2 DEF Justified, ChannelsOf
<1>6. \A s \in Tasks : ~alive'[s] => mapped'[s] = {} /\ handles'[s] = {}
  BY <1>1 DEF MapInv
<1> QED
  BY <1>3, <1>4, <1>5, <1>6 DEF MapInv

LEMMA MapCreate ==
  ASSUME Types, Counted, ThreadInv, PendingInv, OwnInv, MapInv, NEW e \in Endpoints,
         \/ /\ At(e, "connect") /\ ~Full(e)
            /\ Create(e, [thread[e] EXCEPT !.pc = "rev", !.slot = FreeSlot(e),
                                           !.fwd = NewChannel])
         \/ /\ At(e, "rev")
            /\ Create(e, [thread[e] EXCEPT !.pc = "share_fwd", !.rev = NewChannel])
  PROVE  MapInv'
<1>1. thread[e] \in Threads /\ ThreadOK(e) /\ SharedOK(e)
  BY DEF ThreadInv, MapInv, Types
<1>2. /\ \A t \in Tasks : NewChannel \notin mapped[t]
      /\ thread[e].pc = "rev" => NewChannel # thread[e].fwd
  <2>1. thread[e].pc = "rev" => thread[e].fwd \in live
    BY InHandValue, Apart
  <2> QED
    BY <2>1, NewChannelUnused DEF Create, Types
<1>3. /\ live' = live \cup {NewChannel}
      /\ UNCHANGED <<alive, queue, conns, handles, mapped>>
      /\ \A x \in Endpoints : x # e => thread'[x] = thread[x]
  BY DEF Create, Types, kernelVars, epVars, clientVars
<1>4. /\ thread'[e].task = thread[e].task /\ thread[e].task \in Tasks
      /\ \/ /\ thread'[e].pc = "rev" /\ thread'[e].fwd = NewChannel
            /\ thread[e].fwd = 0 /\ thread[e].rev = 0
         \/ /\ thread[e].pc = "rev" /\ thread[e].rev = 0
            /\ thread'[e].pc = "share_fwd" /\ thread'[e].fwd = thread[e].fwd
            /\ thread'[e].rev = NewChannel
  <2>1. CASE At(e, "connect")
    <3> DEFINE d == [thread[e] EXCEPT !.pc = "rev", !.slot = FreeSlot(e),
                                      !.fwd = NewChannel]
    <3>1. d.pc = "rev" /\ d.fwd = NewChannel /\ d.task = thread[e].task
      BY <1>1 DEF Threads
    <3>2. Create(e, d)
      BY <2>1 DEF At
    <3> HIDE DEF d
    <3>3. thread'[e] = d
      BY <3>2 DEF Create, Types
    <3> QED
      BY <1>1, <2>1, <3>1, <3>3 DEF ThreadOK, At
  <2>2. CASE At(e, "rev")
    <3> DEFINE d == [thread[e] EXCEPT !.pc = "share_fwd", !.rev = NewChannel]
    <3>1. /\ d.pc = "share_fwd" /\ d.fwd = thread[e].fwd /\ d.rev = NewChannel
          /\ d.task = thread[e].task
      BY <1>1 DEF Threads
    <3>2. Create(e, d)
      BY <2>2 DEF At
    <3> HIDE DEF d
    <3>3. thread'[e] = d
      BY <3>2 DEF Create, Types
    <3> QED
      BY <1>1, <2>2, <3>1, <3>3 DEF ThreadOK, At
  <2> QED
    BY <2>1, <2>2
<1>5. ASSUME NEW s \in Tasks, NEW g \in handles'[s] PROVE HandleOK(s, g)'
  <2>1. g \in handles[s]
    BY <1>3
  <2>2. g.ep \in Endpoints /\ HandleOK(s, g)
    BY <2>1 DEF Types, Handles, MapInv
  <2>3. ChannelsOf(g) \cap (live' \ live) = {}
    BY <1>2, <1>3, <2>2 DEF HandleOK
  <2> QED
    BY <1>3, <2>1, <2>2, <2>3, HandleFrame DEF HandleOK
<1>6. ASSUME NEW f \in Endpoints PROVE SharedOK(f)'
  <2>1. CASE f = e
    BY <1>1, <1>2, <1>3, <1>4, <2>1 DEF SharedOK
  <2>2. CASE f # e
    BY <1>3, <2>2, SharedFrame
  <2> QED
    BY <2>1, <2>2
<1>7. ASSUME NEW s \in Tasks, NEW x \in mapped'[s] PROVE Justified(s, x)'
  <2>1. x \in mapped[s] /\ Justified(s, x)
    BY <1>3 DEF MapInv
  <2>2. x # 0
    BY <2>1 DEF Types, Channels
  <2> QED
    BY <1>3, <1>4, <2>1, <2>2 DEF Justified, ChannelsOf
<1> QED
  BY <1>3, <1>5, <1>6, <1>7 DEF MapInv

LEMMA MapShare ==
  ASSUME Types, ThreadInv, PendingInv, OwnInv, MapInv, NEW e \in Endpoints,
         \/ Share(e, "share_fwd", "share_rev", thread[e].fwd)
         \/ Share(e, "share_rev", "notify", thread[e].rev)
  PROVE  MapInv'
<1> DEFINE t == thread[e].task
<1>1. PICK ch \in {thread[e].fwd, thread[e].rev},
           pc \in {"share_rev", "notify"} :
        /\ thread' = [thread EXCEPT ![e].pc = pc]
        /\ mapped' = [mapped EXCEPT ![t] = @ \cup {ch}]
        /\ thread[e].pc \in {"share_fwd", "share_rev"} /\ alive[t]
        /\ pc = "share_rev" => thread[e].pc = "share_fwd" /\ ch = thread[e].fwd
        /\ pc = "notify" => thread[e].pc = "share_rev" /\ ch = thread[e].rev
  BY DEF Share, At
<1>2. /\ t \in Tasks /\ InHand(e) = {thread[e].fwd, thread[e].rev}
      /\ SharedOK(e)
  BY <1>1, InHandValue DEF ThreadInv, ThreadOK, SetUp, MapInv
<1>3. UNCHANGED <<alive, queue, conns, handles, live>> /\ pc \in Pcs
  BY <1>1 DEF Share, kernelVars, epVars, Pcs, Connecting, SetUp
<1>4. /\ thread'[e].pc = pc /\ thread'[e].task = t
      /\ thread'[e].fwd = thread[e].fwd /\ thread'[e].rev = thread[e].rev
      /\ \A x \in Endpoints : x # e => thread'[x] = thread[x]
  BY <1>1, <1>3, StepTypes
<1>5. /\ mapped'[t] = mapped[t] \cup {ch}
      /\ \A s \in Tasks : s # t => mapped'[s] = mapped[s]
  BY <1>1, <1>2 DEF Types
<1>6. ASSUME NEW s \in Tasks, NEW g \in handles'[s] PROVE HandleOK(s, g)'
  <2>1. g \in handles[s]
    BY <1>3
  <2>2. g.ep \in Endpoints /\ HandleOK(s, g)
    BY <2>1 DEF Types, Handles, MapInv
  <2>3. ChannelsOf(g) \subseteq mapped'[s]
    BY <1>5, <2>2 DEF HandleOK
  <2> QED
    BY <1>3, <2>1, <2>2, <2>3, HandleFrame
<1>7. SharedOK(e)'
  <2>1. CASE pc = "share_rev"
    BY <1>1, <1>2, <1>3, <1>4, <1>5, <2>1 DEF SharedOK
  <2>2. CASE pc = "notify"
    BY <1>1, <1>2, <1>3, <1>4, <1>5, <2>2 DEF SharedOK
  <2> QED
    BY <1>1, <2>1, <2>2
<1>8. ASSUME NEW f \in Endpoints, f # e PROVE SharedOK(f)'
  <2>1. ASSUME ch \notin {thread[f].fwd, thread[f].rev} PROVE SharedOK(f)'
    BY <1>3, <1>4, <1>5, <1>8, <2>1, SharedFrame
  <2>2. CASE thread[f].pc \in SetUp
    <3>1. ch \notin InHand(f) /\ ch # 0
      BY <1>1, <1>2, <1>8, Apart DEF ThreadInv, ThreadOK, SetUp, Channels
    <3>2. thread[f].fwd \in InHand(f) /\ thread[f].rev \in InHand(f) \cup {0}
      BY <2>2, InHandValue DEF ThreadInv, ThreadOK, SetUp
    <3> QED
      BY <2>1, <3>1, <3>2
  <2>3. CASE thread[f].pc = "reply"
    BY <1>2, <2>1, <2>3, Apart
  <2>4. CASE thread[f].pc \notin SetUp \cup {"reply"}
    BY <1>4, <1>8, <2>4 DEF SharedOK, SetUp
  <2> QED
    BY <2>2, <2>3, <2>4
<1>9. ASSUME NEW s \in Tasks, NEW x \in mapped'[s] PROVE Justified(s, x)'
  <2>1. CASE x \in mapped[s]
    <3>1. Justified(s, x)
      BY <2>1 DEF MapInv
    <3> QED
      BY <1>3, <1>4, <3>1 DEF Justified, ChannelsOf
  <2>2. CASE x \notin mapped[s]
    <3>1. s = t /\ x = ch
      BY <1>5, <2>2
    <3> QED
      BY <1>4, <3>1 DEF Justified
  <2> QED
    BY <2>1, <2>2
<1>10. \A s \in Tasks : ~alive'[s] => mapped'[s] = {} /\ handles'[s] = {}
  BY <1>1, <1>3, <1>5 DEF MapInv
<1> QED
  BY <1>6, <1>7, <1>8, <1>9, <1>10 DEF MapInv

\* No port is destroyed when a notification is requested.
LEMMA PortsRegisters ==
  ASSUME Types, ThreadInv, NEW e \in Endpoints, Registers(e)
  PROVE  \A x \in Endpoints : queue'[x] = NULL <=> queue[x] = NULL
<1> DEFINE t == thread[e].task
<1>1. t \in Tasks
  BY DEF Registers, ThreadInv, ThreadOK, At
<1>2. CASE dnrequest[t] # NULL /\ Open(dnrequest[t])
  <2>1. dnrequest[t] \in Endpoints
    BY <1>1, <1>2 DEF Types
  <2>2. Message("send_once", t) \in Messages
    BY <1>1, MessageTypes
  <2> QED
    BY <1>2, <2>1, <2>2, PostTypes DEF Registers, RequestNotification, Open
<1>3. CASE ~(dnrequest[t] # NULL /\ Open(dnrequest[t]))
  BY <1>3 DEF Registers, RequestNotification
<1> QED
  BY <1>2, <1>3

LEMMA MapRegisters ==
  ASSUME Types, ThreadInv, PendingInv, OwnInv, MapInv, NEW e \in Endpoints,
         Registers(e)
  PROVE  MapInv'
<1> DEFINE c == thread[e]
<1>1. /\ c.slot \in Idx /\ conns[e][c.slot] = NULL /\ c.task \in Tasks
      /\ \A x \in Endpoints, j \in Idx :
           x # e \/ j # c.slot => conns'[x][j] = conns[x][j]
  BY StoreTypes DEF Registers
<1>2. InHand(e) = {c.fwd, c.rev} /\ c.pc = "notify" /\ alive[c.task]
  BY InHandValue DEF Registers, At, SetUp
<1>3. UNCHANGED <<alive, live, handles, mapped>>
  BY DEF Registers, clientVars
<1>4. /\ thread'[e].pc = "reply" /\ thread'[e].task = c.task
      /\ thread'[e].fwd = c.fwd /\ thread'[e].rev = c.rev
      /\ \A x \in Endpoints : x # e => thread'[x] = thread[x]
  BY StepTypes DEF Registers, Pcs, Connecting
<1>5. ASSUME NEW s \in Tasks, NEW g \in handles'[s] PROVE HandleOK(s, g)'
  <2>1. g \in handles[s]
    BY <1>3
  <2>2. g.ep \in Endpoints /\ HandleOK(s, g)
    BY <2>1 DEF Types, Handles, MapInv
  <2>3. Conn(s, g.fwd, g.rev) # NULL
    <3>1. Conn(s, g.fwd, g.rev) \in Conns
      BY <2>1 DEF Conn, Conns, Types, Handles
    <3> QED
      BY <3>1, EndpointAssumption
  <2>4. \A i \in Idx : conns[g.ep][i] = Conn(s, g.fwd, g.rev)
                         => conns'[g.ep][i] = conns[g.ep][i]
    BY <1>1, <2>2, <2>3
  <2>5. queue'[g.ep] = NULL <=> queue[g.ep] = NULL
    BY <2>2, PortsRegisters
  <2> QED
    BY <1>3, <2>1, <2>2, <2>4, <2>5, HandleFrame DEF HandleOK
<1>6. ASSUME NEW f \in Endpoints PROVE SharedOK(f)'
  <2>1. CASE f = e
    <3>1. \A t \in Tasks : \A h \in handles[t] :
            ChannelsOf(h) \cap {c.fwd, c.rev} = {}
      BY <1>2, Apart
    <3>2. SharedOK(e)
      BY DEF MapInv
    <3> QED
      BY <1>2, <1>3, <1>4, <2>1, <3>1, <3>2 DEF SharedOK, ChannelsOf
  <2>2. CASE f # e
    BY <1>3, <1>4, <2>2, SharedFrame
  <2> QED
    BY <2>1, <2>2
<1>7. ASSUME NEW s \in Tasks, NEW x \in mapped'[s] PROVE Justified(s, x)'
  <2>1. Justified(s, x)
    BY <1>3 DEF MapInv
  <2> QED
    BY <1>3, <1>4, <2>1 DEF Justified, ChannelsOf
<1> QED
  BY <1>3, <1>5, <1>6, <1>7 DEF MapInv

LEMMA MapReply ==
  ASSUME Types, ThreadInv, PendingInv, OwnInv, MapInv, QueueInv,
         NEW e \in Endpoints, Reply(e)
  PROVE  MapInv'
<1> DEFINE c == thread[e]
           t == c.task
<1>1. /\ c.pc = "reply" /\ t \in Tasks /\ Open(e) /\ c.slot \in Idx
      /\ conns[e][c.slot] = Conn(t, c.fwd, c.rev)
      /\ c.fwd \in Channels /\ c.rev \in Channels
  BY DEF Reply, At, ThreadInv, ThreadOK
<1>2. /\ thread'[e].task = NULL /\ thread'[e].pc \in {"idle", "event"}
      /\ \A x \in Endpoints : x # e => thread'[x] = thread[x]
  BY DoneTypes DEF Reply
<1>3. UNCHANGED <<alive, queue, live, conns, mapped>>
  BY DEF Reply, Accepted, kernelVars, epVars, clientVars
<1>4. SharedOK(e)
  BY DEF MapInv
<1>5. CASE ~alive[t]
  <2>1. mapped[t] = {} /\ UNCHANGED handles
    BY <1>1, <1>5 DEF MapInv, Reply, clientVars
  <2>2. \A s \in Tasks : thread[e].task = s =>
           {thread[e].fwd, thread[e].rev} \cap mapped[s] = {}
    BY <2>1
  <2> QED
    BY <1>2, <1>3, <2>1, <2>2, MapStep DEF SetUp
<1>6. CASE alive[t]
  <2>1. PICK u \in Tasks, h \in Handles :
          u = t /\ h = [ep |-> e, fwd |-> c.fwd, rev |-> c.rev]
    BY <1>1 DEF Handles
  <2>2. /\ handles'[u] = handles[u] \cup {h}
        /\ \A s \in Tasks : s # u => handles'[s] = handles[s]
    BY <1>6, <2>1 DEF Reply, Accepted, Types
  <2>3. /\ h.ep = e /\ h.fwd = c.fwd /\ h.rev = c.rev
        /\ ChannelsOf(h) = {c.fwd, c.rev}
    BY <2>1 DEF ChannelsOf
  <2>4. \A s \in Tasks : \A g \in handles[s] : ChannelsOf(g) \cap ChannelsOf(h) = {}
    BY <1>1, <1>4, <2>3 DEF SharedOK
  <2>5. \A g \in handles[u] : g.ep # e
    <3>1. Serving(e, Connecting, u)
      BY <1>1, <2>1 DEF Serving, Connecting
    <3>2. ~Holds(u, e)
      BY <1>6, <2>1, <3>1, EndpointAssumption DEF QueueInv, QueueOK
    <3> QED
      BY <3>2 DEF Holds
  <2>6. HandleOK(u, h)'
    <3>1. ChannelsOf(h) \subseteq mapped[u]
      BY <1>1, <1>4, <1>6, <2>1, <2>3 DEF SharedOK
    <3>2. conns[e][c.slot] = Conn(u, h.fwd, h.rev)
      BY <1>1, <2>1, <2>3
    <3>3. \A g \in handles'[u] :
            ChannelsOf(g) \cap ChannelsOf(h) # {} \/ g.ep = h.ep => g = h
      BY <2>2, <2>3, <2>4, <2>5
    <3> QED
      BY <1>1, <1>3, <2>3, <3>1, <3>2, <3>3 DEF HandleOK, Open, ChannelsOf, Conn
  <2>7. ASSUME NEW s \in Tasks, NEW g \in handles[s] PROVE HandleOK(s, g)'
    <3>1. HandleOK(s, g) /\ g.ep \in Endpoints
      BY DEF MapInv, Types, Handles
    <3>2. \A k \in handles'[s] :
            ChannelsOf(k) \cap ChannelsOf(g) # {} \/ k.ep = g.ep => k = g
      <4>1. s = u => ChannelsOf(h) \cap ChannelsOf(g) = {} /\ g.ep # h.ep
        BY <2>3, <2>4, <2>5
      <4> QED
        BY <2>2, <3>1, <4>1 DEF HandleOK
    <3> QED
      BY <1>3, <3>1, <3>2 DEF HandleOK, Open, ChannelsOf, Conn
  <2>8. ASSUME NEW f \in Endpoints PROVE SharedOK(f)'
    <3>1. CASE f = e
      BY <1>2, <3>1 DEF SharedOK
    <3>2. CASE f # e /\ thread[f].pc # "reply"
      <4>1. SharedOK(f) /\ thread'[f] = thread[f]
        BY <1>2, <3>2 DEF MapInv
      <4> QED
        BY <1>3, <3>2, <4>1 DEF SharedOK
    <3>3. CASE f # e /\ thread[f].pc = "reply"
      <4>1. SharedOK(f) /\ thread'[f] = thread[f]
        BY <1>2, <3>3 DEF MapInv
      <4>2. {thread[f].fwd, thread[f].rev} \cap {c.fwd, c.rev} = {}
        BY <1>1, <3>3, RepliesApart
      <4>3. \A s \in Tasks : \A g \in handles'[s] :
              ChannelsOf(g) \cap {thread[f].fwd, thread[f].rev} = {}
        BY <2>2, <2>3, <3>3, <4>1, <4>2 DEF SharedOK
      <4> QED
        BY <1>3, <3>3, <4>1, <4>3 DEF SharedOK, ChannelsOf
    <3> QED
      BY <3>1, <3>2, <3>3
  <2>9. ASSUME NEW s \in Tasks, NEW x \in mapped'[s] PROVE Justified(s, x)'
    <3>1. Justified(s, x)
      BY <1>3 DEF MapInv
    <3>2. s = u /\ x \in {c.fwd, c.rev} => Justified(s, x)'
      BY <2>2, <2>3 DEF Justified, ChannelsOf
    <3> QED
      BY <1>2, <2>1, <2>2, <3>1, <3>2 DEF Justified, ChannelsOf
  <2>10. \A s \in Tasks : ~alive'[s] => mapped'[s] = {} /\ handles'[s] = {}
    BY <1>3, <1>6, <2>1, <2>2 DEF MapInv
  <2>11. \A s \in Tasks : \A g \in handles'[s] : HandleOK(s, g)'
    BY <2>2, <2>6, <2>7
  <2> QED
    BY <2>8, <2>9, <2>10, <2>11 DEF MapInv
<1> QED
  BY <1>5, <1>6

\* A handler that clears slot i, of a task that has no handle for it.
LEMMA MapClear ==
  ASSUME Types, Counted, ThreadInv, PendingInv, OwnInv, MapInv,
         NEW e \in Endpoints, NEW i \in Active(e), Clear(e, i), HandlerDone(e),
         UNCHANGED <<alive, queue, handles, mapped>>, live' \subseteq live,
         thread[e].pc \in {"dead", "disconnect"},
         \A h \in handles[conns[e][i].task] : h.ep # e
  PROVE  MapInv'
<1>1. thread[e].fwd = 0 /\ thread[e].rev = 0
  BY DEF ThreadInv, ThreadOK
<1>2. \A t \in Tasks : 0 \notin mapped[t]
  BY DEF Types, Channels
<1>3. \A x \in Endpoints, j \in Idx : x # e \/ j # i => conns'[x][j] = conns[x][j]
  BY ClearTypes
<1>4. \A t \in Tasks : \A h \in handles[t] : \A j \in Idx :
        conns[h.ep][j] = Conn(t, h.fwd, h.rev) => conns'[h.ep][j] = conns[h.ep][j]
  <2> SUFFICES ASSUME NEW t \in Tasks, NEW h \in handles[t], NEW j \in Idx,
                      conns[h.ep][j] = Conn(t, h.fwd, h.rev)
               PROVE  conns'[h.ep][j] = conns[h.ep][j]
    OBVIOUS
  <2>1. h.ep \in Endpoints
    BY DEF Types, Handles
  <2>2. Conn(t, h.fwd, h.rev).task = t
    BY DEF Conn
  <2> QED
    BY <1>3, <2>1, <2>2
<1>5. thread'[e].pc \notin SetUp \cup {"reply"}
  BY DoneTypes DEF SetUp
<1>6. \A t \in Tasks : {thread[e].fwd, thread[e].rev} \cap mapped[t] = {}
  BY <1>1, <1>2
<1>7. \A x \in Endpoints : x # e => thread'[x] = thread[x]
  BY DoneTypes
<1> QED
  BY <1>4, <1>5, <1>6, <1>7, MapStep

LEMMA MapNotCleared ==
  ASSUME Types, ThreadInv, MapInv, NEW e \in Endpoints, HandlerDone(e),
         UNCHANGED <<alive, queue, handles, mapped, conns, live>>,
         thread[e].pc \in {"dead", "disconnect"}
  PROVE  MapInv'
<1>1. thread[e].fwd = 0 /\ thread[e].rev = 0
  BY DEF ThreadInv, ThreadOK
<1>2. \A t \in Tasks : 0 \notin mapped[t]
  BY DEF Types, Channels
<1>3. /\ thread'[e].pc \notin SetUp \cup {"reply"}
      /\ \A x \in Endpoints : x # e => thread'[x] = thread[x]
  BY DoneTypes DEF SetUp
<1>4. \A t \in Tasks : {thread[e].fwd, thread[e].rev} \cap mapped[t] = {}
  BY <1>1, <1>2
<1> QED
  BY <1>3, <1>4, MapStep

LEMMA MapCleanupDead ==
  ASSUME Types, Counted, ThreadInv, PendingInv, OwnInv, MapInv,
         NEW e \in Endpoints, CleanupDead(e)
  PROVE  MapInv'
<1> DEFINE t == thread[e].task
<1>1. /\ HandlerDone(e) /\ thread[e].pc = "dead"
      /\ UNCHANGED <<alive, queue, handles, mapped>>
  BY DEF CleanupDead, At, clientVars
<1>2. handles[t] = {}
  BY <1>1 DEF ThreadInv, ThreadOK, MapInv
<1>3. CASE Of(e, t) = {}
  BY <1>1, <1>3, MapNotCleared DEF CleanupDead, SlotOf
<1>4. CASE Of(e, t) # {}
  <2> DEFINE i == Min(Of(e, t))
  <2>1. i \in Active(e) /\ conns[e][i].task = t
    BY <1>4, SlotPicked DEF Of
  <2>2. Clear(e, i) /\ DisposeDead(e, conns[e][i])
    BY <1>4 DEF CleanupDead, SlotOf
  <2> HIDE DEF i
  <2>3. live' \subseteq live
    BY <2>2 DEF DisposeDead
  <2> QED
    BY <1>1, <1>2, <2>1, <2>2, <2>3, MapClear
<1> QED
  BY <1>3, <1>4

LEMMA MapDisconnectHandler ==
  ASSUME Types, Counted, ThreadInv, PendingInv, OwnInv, MapInv, QueueInv,
         NEW e \in Endpoints, DisconnectHandler(e)
  PROVE  MapInv'
<1> DEFINE t == thread[e].task
           found == IF thread[e].right THEN SlotOf(e, t) ELSE {}
<1>1. /\ HandlerDone(e) /\ thread[e].pc = "disconnect"
      /\ UNCHANGED <<alive, queue, handles, mapped>>
  BY DEF DisconnectHandler, At, clientVars
<1>2. \A h \in handles[t] : h.ep # e
  <2>1. t \in Tasks
    BY <1>1 DEF ThreadInv, ThreadOK
  <2>2. CASE ~alive[t]
    BY <2>1, <2>2 DEF MapInv
  <2>3. CASE alive[t]
    BY <1>1, <2>1, <2>3 DEF QueueInv, QueueOK, Serving, Holds
  <2> QED
    BY <2>2, <2>3
<1>3. CASE found = {}
  BY <1>1, <1>3, MapNotCleared DEF DisconnectHandler
<1>4. CASE found # {}
  <2> DEFINE i == Min(found)
  <2>1. i \in Active(e) /\ conns[e][i].task = t
    BY <1>4, SlotPicked DEF Of, SlotOf
  <2>2. Clear(e, i) /\ live' = live \ ChannelsOf(conns[e][i])
    BY <1>4 DEF DisconnectHandler
  <2> HIDE DEF i
  <2> QED
    BY <1>1, <1>2, <2>1, <2>2, MapClear
<1> QED
  BY <1>3, <1>4

LEMMA MapReceive ==
  ASSUME Types, ThreadInv, MapInv, NEW e \in Endpoints, Receive(e)
  PROVE  MapInv'
<1>1. thread[e].task = NULL
  BY DEF Receive, CanReceive, At, ThreadInv, ThreadOK
<1>2. thread'[e].pc \notin SetUp \cup {"reply"}
  BY ReceiveMessage DEF SetUp
<1>3. \A x \in Endpoints : queue'[x] = NULL <=> queue[x] = NULL
  <2>1. Tail(queue[e]) \in Seq(Messages)
    BY TypesReceive
  <2> QED
    BY <2>1, EndpointAssumption DEF Receive, CanReceive, Open, Types
<1>4. UNCHANGED <<alive, handles, mapped, live, conns>>
  BY DEF Receive, clientVars
<1>5. \A t \in Tasks : thread[e].task # t
  BY <1>1, EndpointAssumption
<1> QED
  BY <1>2, <1>3, <1>4, <1>5, TypesReceive, MapStep

LEMMA MapPump ==
  ASSUME Types, ThreadInv, MapInv, NEW e \in Endpoints,
         PumpTimeout(e) \/ Event(e) \/ Drained(e)
  PROVE  MapInv'
<1>1. /\ thread'[e].pc \in {"idle", "drain"}
      /\ \A x \in Endpoints : x # e => thread'[x] = thread[x]
  BY TurnTypes DEF PumpTimeout, Event
<1>2. \A t \in Tasks : thread[e].task # t
  BY EndpointAssumption DEF PumpTimeout, Event, Drained, At, ThreadInv, ThreadOK
<1>3. UNCHANGED <<alive, queue, handles, mapped, conns>> /\ live' \subseteq live
  BY DEF PumpTimeout, Event, Drained, EventNew, EventDead, kernelVars, clientVars, epVars
<1>4. thread'[e].pc \notin SetUp \cup {"reply"}
  BY <1>1 DEF SetUp
<1> QED
  BY <1>1, <1>2, <1>3, <1>4, MapStep

LEMMA MapDestroy ==
  ASSUME Types, ThreadInv, PendingInv, OwnInv, MapInv, NEW e \in Endpoints,
         Destroy(e)
  PROVE  MapInv'
<1>1. /\ UNCHANGED <<alive, thread, handles, mapped>> /\ live' \subseteq live
      /\ queue'[e] = NULL /\ Open(e)
      /\ \A x \in Endpoints : x # e => queue'[x] = queue[x] /\ conns'[x] = conns[x]
  BY DEF Destroy, Types
<1>2. ASSUME NEW t \in Tasks, NEW h \in handles'[t] PROVE HandleOK(t, h)'
  <2>1. h \in handles[t]
    BY <1>1
  <2>2. HandleOK(t, h) /\ h.ep \in Endpoints
    BY <2>1 DEF MapInv, Types, Handles
  <2>3. CASE h.ep # e
    BY <1>1, <2>1, <2>2, <2>3, HandleFrame DEF HandleOK
  <2>4. CASE h.ep = e
    <3>1. PICK i \in Idx : conns[e][i] = Conn(t, h.fwd, h.rev)
      BY <1>1, <2>2, <2>4 DEF HandleOK
    <3>2. Conn(t, h.fwd, h.rev) # NULL
      <4>1. Conn(t, h.fwd, h.rev) \in Conns
        BY <2>1 DEF Conn, Conns, Types, Handles
      <4> QED
        BY <4>1, EndpointAssumption
    <3>3. ChannelsOf(h) = ChannelsOf(conns[e][i]) /\ i \in Active(e)
      BY <3>1, <3>2 DEF Active, ChannelsOf, Conn
    <3>4. ChannelsOf(h) \cap live' = {}
      BY <3>3 DEF Destroy
    <3> QED
      BY <1>1, <2>2, <2>4, <3>4 DEF HandleOK, Open, ChannelsOf
  <2> QED
    BY <2>3, <2>4
<1>3. \A f \in Endpoints : SharedOK(f)'
  BY <1>1 DEF MapInv, SharedOK, ChannelsOf
<1>4. \A t \in Tasks : \A x \in mapped'[t] : Justified(t, x)'
  BY <1>1 DEF MapInv, Justified, ChannelsOf
<1> QED
  BY <1>1, <1>2, <1>3, <1>4 DEF MapInv

-----------------------------------------------------------------------------
(* The messages in the queues. *)

Kinds == {"connect", "dead", "disconnect"}

LEMMA MessagesDiffer ==
  \A j, k, s, t : Message(j, s) = Message(k, t) => j = k /\ s = t
  BY DEF Message

\* What is queued after a message is sent, and after one is taken.
LEMMA PostQueued ==
  ASSUME Types, NEW e \in Endpoints, Open(e), NEW m \in Messages, Post(e, m),
         NEW f \in Endpoints, NEW i \in Nat, NEW k, NEW t
  PROVE  /\ Queued(f, i, k, t)' <=> \/ Queued(f, i, k, t)
                                    \/ /\ f = e /\ i = Len(queue[e]) + 1
                                       /\ m = Message(k, t)
         /\ Queued(e, i, k, t) => i < Len(queue[e]) + 1
<1>1. /\ queue[e] \in Seq(Messages) /\ queue'[e] = Append(queue[e], m)
      /\ queue'[e] # NULL
      /\ \A x \in Endpoints : x # e => queue'[x] = queue[x]
  BY PostTypes DEF Types, Open
<1>2. Queued(e, i, k, t) => i < Len(queue[e]) + 1
  BY <1>1 DEF Queued
<1>3. CASE f = e
  <2>1. Queued(f, i, k, t)' <=> /\ i \in 1 .. Len(queue[e]) + 1
                                /\ Append(queue[e], m)[i] = Message(k, t)
    <3>1. DOMAIN Append(queue[e], m) = 1 .. Len(queue[e]) + 1
      BY <1>1
    <3> QED
      BY <1>1, <1>3, <3>1 DEF Queued, Open
  <2>2. Queued(f, i, k, t) <=> i \in 1 .. Len(queue[e]) /\ queue[e][i] = Message(k, t)
    BY <1>1, <1>3 DEF Queued
  <2>3. i \in 1 .. Len(queue[e]) => Append(queue[e], m)[i] = queue[e][i]
    BY <1>1
  <2>4. Append(queue[e], m)[Len(queue[e]) + 1] = m
    BY <1>1
  <2>5. i \in 1 .. Len(queue[e]) + 1 <=> i \in 1 .. Len(queue[e]) \/ i = Len(queue[e]) + 1
    BY <1>1
  <2> QED
    BY <1>1, <1>2, <1>3, <2>1, <2>2, <2>3, <2>4, <2>5
<1>4. CASE f # e
  BY <1>1, <1>2, <1>4 DEF Queued, Open, Message
<1> QED
  BY <1>3, <1>4

LEMMA TailQueued ==
  ASSUME Types, NEW e \in Endpoints, Receive(e),
         NEW f \in Endpoints, NEW i \in Nat, NEW k, NEW t
  PROVE  /\ f # e => (Queued(f, i, k, t)' <=> Queued(f, i, k, t))
         /\ Queued(e, i, k, t)' => i + 1 \in Nat /\ Queued(e, i + 1, k, t) /\ i # 0
         /\ i # 0 /\ Queued(e, i + 1, k, t) => Queued(e, i, k, t)'
         /\ Queued(e, i, k, t) => i # 0
<1>1. /\ queue[e] \in Seq(Messages) /\ queue[e] # <<>>
      /\ queue'[e] = Tail(queue[e])
      /\ \A x \in Endpoints : x # e => queue'[x] = queue[x]
  BY TypesReceive DEF Receive, Types
<1>2. Tail(queue[e]) # NULL
  <2>1. Tail(queue[e]) \in Seq(Messages)
    BY <1>1
  <2> QED
    BY <2>1, EndpointAssumption
<1>3. f # e => (Queued(f, i, k, t)' <=> Queued(f, i, k, t))
  BY <1>1 DEF Queued, Open, Message
<1>4. Queued(e, i, k, t)' <=> i \in DOMAIN Tail(queue[e]) /\ Tail(queue[e])[i] = Message(k, t)
  BY <1>1, <1>2 DEF Queued, Open, Message
<1>5. i \in DOMAIN Tail(queue[e]) <=> i # 0 /\ i + 1 \in DOMAIN queue[e]
  BY <1>1
<1>6. i \in DOMAIN Tail(queue[e]) => Tail(queue[e])[i] = queue[e][i + 1]
  BY <1>1
<1>7. Queued(e, i, k, t) => i # 0
  BY <1>1 DEF Queued
<1>8. Open(e)
  BY DEF Receive, CanReceive
<1> QED
  BY <1>3, <1>4, <1>5, <1>6, <1>7, <1>8 DEF Queued

LEMMA SameQueued ==
  ASSUME NEW f, queue'[f] = queue[f]
  PROVE  \A i, k, t : Queued(f, i, k, t)' <=> Queued(f, i, k, t)
  BY DEF Queued, Open, Message

\* A step that takes nothing from the queue and adds nothing for t to it.
LEMMA QueueFrame ==
  ASSUME QueueInv, NEW e \in Endpoints, NEW t \in Tasks,
         \A i \in Nat, k \in Kinds : Queued(e, i, k, t)' => Queued(e, i, k, t),
         alive'[t] => alive[t],
         alive'[t] => (Holds(t, e)' => Holds(t, e)),
         Serving(e, Connecting, t)' => Serving(e, Connecting, t),
         Serving(e, {"dead"}, t)' => Serving(e, {"dead"}, t),
         Serving(e, {"disconnect"}, t)' => Serving(e, {"disconnect"}, t),
         alive'[t] => \/ waiting'[t] = waiting[t]
                      \/ /\ waiting'[t] # e /\ ~Serving(e, Connecting, t)'
                         /\ \A i \in Nat : ~Queued(e, i, "connect", t)
  PROVE  QueueOK(e, t)'
<1>1. QueueOK(e, t)
  BY DEF QueueInv
<1>2. \A i \in Nat : /\ Queued(e, i, "connect", t)' => Queued(e, i, "connect", t)
                     /\ Queued(e, i, "dead", t)' => Queued(e, i, "dead", t)
                     /\ Queued(e, i, "disconnect", t)' => Queued(e, i, "disconnect", t)
  BY DEF Kinds
<1> QED
  BY <1>1, <1>2 DEF QueueOK

LEMMA ServingFrame ==
  ASSUME NEW f, thread'[f] = thread[f]
  PROVE  \A pcs, t : Serving(f, pcs, t)' <=> Serving(f, pcs, t)
  BY DEF Serving

LEMMA QueueConnect ==
  ASSUME Types, ThreadInv, QueueInv, NEW u \in Tasks, NEW d \in Endpoints,
         Connect(u, d)
  PROVE  QueueInv'
<1> SUFFICES ASSUME NEW e \in Endpoints, NEW t \in Tasks PROVE QueueOK(e, t)'
  BY DEF QueueInv
<1> DEFINE n == Len(queue[d]) + 1
<1>1. /\ alive[u] /\ waiting[u] = NULL /\ ~Holds(u, d) /\ Open(d)
      /\ waiting'[u] = d /\ UNCHANGED <<alive, thread, handles>>
      /\ \A s \in Tasks : s # u => waiting'[s] = waiting[s]
      /\ Post(d, Message("connect", u)) /\ Message("connect", u) \in Messages
  BY MessageTypes DEF Connect, Types, serverVars
<1>2. n \in Nat
  BY <1>1 DEF Open, Types
<1>3. /\ \A i \in Nat, k \in Kinds :
           Queued(e, i, k, t)' <=> \/ Queued(e, i, k, t)
                                   \/ e = d /\ i = n /\ k = "connect" /\ t = u
      /\ \A i \in Nat, k \in Kinds : Queued(d, i, k, t) => i < n
  <2> SUFFICES ASSUME NEW i \in Nat, NEW k \in Kinds
               PROVE  /\ Queued(e, i, k, t)' <=>
                           \/ Queued(e, i, k, t)
                           \/ e = d /\ i = n /\ k = "connect" /\ t = u
                      /\ Queued(d, i, k, t) => i < n
    OBVIOUS
  <2>1. Message("connect", u) = Message(k, t) <=> k = "connect" /\ t = u
    BY MessagesDiffer
  <2> QED
    BY <1>1, <2>1, PostQueued
<1> HIDE DEF n
<1>4. /\ Holds(t, e)' <=> Holds(t, e)
      /\ \A pcs : Serving(e, pcs, t)' <=> Serving(e, pcs, t)
  BY <1>1 DEF Holds, Serving
<1>5. CASE t # u
  BY <1>1, <1>3, <1>4, <1>5, QueueFrame
<1>6. CASE t = u
  <2>1. QueueOK(e, u) /\ d # NULL /\ e # NULL
    BY EndpointAssumption DEF QueueInv
  <2>2. ~Serving(e, Connecting, u) /\ \A i \in Nat : ~Queued(e, i, "connect", u)
    BY <1>1, <2>1 DEF QueueOK
  <2>3. CASE e # d
    BY <1>1, <1>3, <1>4, <1>6, <2>2, <2>3, QueueFrame
  <2>4. CASE e = d
    <3>1. \A i \in Nat : /\ Queued(e, i, "connect", u)' <=> i = n
                         /\ Queued(e, i, "dead", u)' <=> Queued(e, i, "dead", u)
                         /\ Queued(e, i, "disconnect", u)' <=> Queued(e, i, "disconnect", u)
                         /\ Queued(e, i, "disconnect", u) => i < n
      BY <1>2, <1>3, <1>6, <2>2, <2>4 DEF Kinds
    <3> QED
      BY <1>1, <1>4, <1>6, <2>1, <2>2, <2>4, <3>1 DEF QueueOK
  <2> QED
    BY <2>3, <2>4
<1> QED
  BY <1>5, <1>6

LEMMA QueueDetach ==
  ASSUME Types, MapInv, QueueInv, NEW u \in Tasks, Disconnect(u) \/ DisconnectRpc(u)
  PROVE  QueueInv'
<1>1. /\ UNCHANGED <<alive, thread, waiting>> /\ alive[u]
      /\ \A s \in Tasks : handles'[s] \subseteq handles[s]
  <2>1. PICK h \in handles[u] : Detach(u, h)
    BY DEF Disconnect, DisconnectRpc
  <2>2. UNCHANGED waiting /\ handles' = [handles EXCEPT ![u] = @ \ {h}]
    BY <2>1 DEF Detach
  <2> QED
    BY <2>2 DEF Disconnect, DisconnectRpc, Types, kernelVars, serverVars
<1>2. \A e, t : \A pcs : Serving(e, pcs, t)' <=> Serving(e, pcs, t)
  BY <1>1 DEF Serving
<1>3. \A e \in Endpoints, t \in Tasks : Holds(t, e)' => Holds(t, e)
  BY <1>1 DEF Holds
<1>4. CASE Disconnect(u)
  <2>1. UNCHANGED queue
    BY <1>4 DEF Disconnect, kernelVars
  <2>2. \A e, i, k, t : Queued(e, i, k, t)' <=> Queued(e, i, k, t)
    BY <2>1, SameQueued
  <2>3. \A e \in Endpoints, t \in Tasks : QueueOK(e, t)'
    BY <1>1, <1>2, <1>3, <2>2, QueueFrame
  <2> QED
    BY <2>3 DEF QueueInv
<1>5. CASE DisconnectRpc(u)
  <2>1. PICK h \in handles[u] : /\ Open(h.ep) /\ Detach(u, h)
                                /\ Post(h.ep, Message("disconnect", u))
    BY <1>5 DEF DisconnectRpc
  <2> DEFINE d == h.ep
             n == Len(queue[d]) + 1
  <2>2. d \in Endpoints /\ HandleOK(u, h) /\ Message("disconnect", u) \in Messages
    BY MessageTypes DEF Types, Handles, MapInv
  <2>3. n \in Nat
    BY <2>1, <2>2 DEF Open, Types
  <2> HIDE DEF d
  <2>4. ASSUME NEW e \in Endpoints, NEW t \in Tasks PROVE QueueOK(e, t)'
    <3>1. \A i \in Nat, k \in Kinds :
            Queued(e, i, k, t)' <=> \/ Queued(e, i, k, t)
                                    \/ e = d /\ i = n /\ k = "disconnect" /\ t = u
      <4> SUFFICES ASSUME NEW i \in Nat, NEW k \in Kinds
                   PROVE  Queued(e, i, k, t)' <=>
                            \/ Queued(e, i, k, t)
                            \/ e = d /\ i = n /\ k = "disconnect" /\ t = u
        OBVIOUS
      <4>1. Message("disconnect", u) = Message(k, t) <=> k = "disconnect" /\ t = u
        BY MessagesDiffer
      <4> QED
        BY <2>1, <2>2, <4>1, PostQueued DEF d
    <3> HIDE DEF n
    <3>2. CASE ~(e = d /\ t = u)
      BY <1>1, <1>2, <1>3, <3>1, <3>2, QueueFrame
    <3>3. CASE e = d /\ t = u
      <4>1. Holds(u, d) /\ ~Holds(u, d)'
        <5>1. handles'[u] = handles[u] \ {h}
          BY <2>1 DEF Detach, Types
        <5>2. \A g \in handles[u] : g.ep = h.ep => g = h
          BY <2>2 DEF HandleOK
        <5> QED
          BY <5>1, <5>2 DEF Holds, d
      <4>2. QueueOK(d, u)
        BY <2>2 DEF QueueInv
      <4>3. /\ ~Serving(d, Connecting, u) /\ waiting[u] # d
            /\ \A i \in Nat : ~Queued(d, i, "connect", u)
        BY <1>1, <4>1, <4>2 DEF QueueOK
      <4>5. \A i \in Nat : /\ ~Queued(d, i, "connect", u)'
                           /\ Queued(d, i, "dead", u)' <=> Queued(d, i, "dead", u)
        BY <3>1, <3>3, <4>3 DEF Kinds
      <4> QED
        BY <1>1, <1>2, <3>3, <4>1, <4>2, <4>3, <4>5 DEF QueueOK
    <3> QED
      BY <3>2, <3>3
  <2> QED
    BY <2>4 DEF QueueInv
<1> QED
  BY <1>4, <1>5

LEMMA QueueDies ==
  ASSUME Types, ThreadInv, QueueInv, NEW u \in Tasks, Dies(u)
  PROVE  QueueInv'
<1> SUFFICES ASSUME NEW e \in Endpoints, NEW t \in Tasks PROVE QueueOK(e, t)'
  BY DEF QueueInv
<1>1. /\ alive[u] /\ ~alive'[u] /\ UNCHANGED thread
      /\ \A s \in Tasks : s # u => /\ alive'[s] = alive[s]
                                   /\ waiting'[s] = waiting[s]
                                   /\ handles'[s] = handles[s]
  BY DEF Dies, Types, serverVars
<1>2. \A pcs : Serving(e, pcs, t)' <=> Serving(e, pcs, t)
  BY <1>1 DEF Serving
<1>3. t # u => (Holds(t, e)' <=> Holds(t, e))
  BY <1>1 DEF Holds
<1>4. CASE dnrequest[u] # NULL /\ Open(dnrequest[u])
  <2> DEFINE d == dnrequest[u]
             n == Len(queue[d]) + 1
  <2>1. /\ d \in Endpoints /\ Message("dead", u) \in Messages
        /\ Post(d, Message("dead", u)) /\ Open(d)
    BY <1>4, MessageTypes DEF Dies, Types
  <2>2. n \in Nat
    BY <2>1 DEF Open, Types
  <2>3. \A i \in Nat, k \in Kinds :
          Queued(e, i, k, t)' <=> \/ Queued(e, i, k, t)
                                  \/ e = d /\ i = n /\ k = "dead" /\ t = u
    <3> SUFFICES ASSUME NEW i \in Nat, NEW k \in Kinds
                 PROVE  Queued(e, i, k, t)' <=>
                          \/ Queued(e, i, k, t)
                          \/ e = d /\ i = n /\ k = "dead" /\ t = u
      OBVIOUS
    <3>1. Message("dead", u) = Message(k, t) <=> k = "dead" /\ t = u
      BY MessagesDiffer
    <3> HIDE DEF d
    <3> QED
      BY <2>1, <3>1, PostQueued
  <2> HIDE DEF n, d
  <2>4. CASE ~(e = d /\ t = u)
    BY <1>1, <1>2, <1>3, <2>3, <2>4, QueueFrame
  <2>5. CASE e = d /\ t = u
    <3>1. QueueOK(e, u) /\ ThreadOK(e)
      BY DEF QueueInv, ThreadInv
    <3>2. ~Serving(e, {"dead"}, u) /\ \A i \in Nat : ~Queued(e, i, "dead", u)
      BY <1>1, <3>1 DEF QueueOK, ThreadOK, Serving
    <3>3. \A i \in Nat : /\ Queued(e, i, "dead", u)' => i = n
                         /\ Queued(e, i, "disconnect", u)' => Queued(e, i, "disconnect", u)
      BY <2>3, <2>5, <3>2 DEF Kinds
    <3> QED
      BY <1>1, <1>2, <2>5, <3>1, <3>2, <3>3 DEF QueueOK
  <2> QED
    BY <2>4, <2>5
<1>5. CASE ~(dnrequest[u] # NULL /\ Open(dnrequest[u]))
  <2>1. UNCHANGED queue
    BY <1>5 DEF Dies
  <2>2. \A i, k : Queued(e, i, k, t)' <=> Queued(e, i, k, t)
    BY <2>1, SameQueued
  <2> QED
    BY <1>1, <1>2, <1>3, <2>2, QueueFrame
<1> QED
  BY <1>4, <1>5

\* The thread of e ends a handler and the client, if it waited for it, no
\* longer does.
LEMMA QueueAnswered ==
  ASSUME Types, ThreadInv, QueueInv, NEW e \in Endpoints, HandlerDone(e),
         UNCHANGED <<alive, queue>>, thread[e].task \in Tasks,
         thread[e].pc \in Connecting,
         \A t \in Tasks : alive[t] =>
           /\ waiting'[t] = IF t = thread[e].task THEN NULL ELSE waiting[t]
           /\ \A f \in Endpoints : Holds(t, f)' =>
                Holds(t, f) \/ (f = e /\ t = thread[e].task)
  PROVE  QueueInv'
<1> SUFFICES ASSUME NEW f \in Endpoints, NEW t \in Tasks PROVE QueueOK(f, t)'
  BY DEF QueueInv
<1>1. /\ thread'[e].task = NULL
      /\ \A x \in Endpoints : x # e => thread'[x] = thread[x]
  BY DoneTypes
<1>2. \A pcs : /\ Serving(f, pcs, t)' => Serving(f, pcs, t)
               /\ f = e => ~Serving(f, pcs, t)'
  BY <1>1, EndpointAssumption DEF Serving
<1>3. \A i, k : Queued(f, i, k, t)' <=> Queued(f, i, k, t)
  BY SameQueued
<1>4. CASE t # thread[e].task \/ ~alive[t]
  BY <1>2, <1>3, <1>4, QueueFrame
<1>5. CASE t = thread[e].task /\ alive[t]
  <2>1. QueueOK(e, t) /\ QueueOK(f, t) /\ Serving(e, Connecting, t) /\ f # NULL
    BY <1>5, EndpointAssumption DEF QueueInv, Serving
  <2>2. waiting[t] = e /\ waiting'[t] = NULL
    BY <1>5, <2>1 DEF QueueOK
  <2>3. \A i \in Nat : ~Queued(f, i, "connect", t)
    BY <1>5, <2>1, <2>2 DEF QueueOK
  <2>4. ~Serving(f, Connecting, t)'
    BY <1>2, <1>5, <2>1, <2>2 DEF QueueOK
  <2>5. CASE f # e
    BY <1>2, <1>3, <1>5, <2>1, <2>2, <2>3, <2>4, <2>5, QueueFrame
  <2>6. CASE f = e
    <3>1. \A i \in Nat : ~Queued(f, i, "disconnect", t)
      BY <1>5, <2>1, <2>6 DEF QueueOK
    <3> QED
      BY <1>2, <1>3, <1>5, <2>1, <2>2, <2>3, <2>6, <3>1 DEF QueueOK
  <2> QED
    BY <2>5, <2>6
<1> QED
  BY <1>4, <1>5

LEMMA QueueGiveUp ==
  ASSUME Types, ThreadInv, QueueInv, NEW e \in Endpoints,
         thread[e].pc \in SetUp \cup {"connect"},
         NEW unmap, NEW destroy, GiveUp(e, unmap, destroy)
  PROVE  QueueInv'
<1>1. thread[e].task \in Tasks /\ thread[e].pc \in Connecting
  BY DEF ThreadInv, ThreadOK, SetUp, Connecting
<1>2. HandlerDone(e) /\ Refused(e) /\ UNCHANGED <<alive, queue, handles>>
  BY DEF GiveUp, Refused
<1>3. ASSUME NEW t \in Tasks, alive[t]
      PROVE  waiting'[t] = IF t = thread[e].task THEN NULL ELSE waiting[t]
  <2>1. t = thread[e].task => waiting[t] = e
    BY <1>1, <1>3 DEF QueueInv, QueueOK, Serving
  <2> QED
    BY <1>2, <2>1, RefusedTypes
<1>4. \A t \in Tasks, f \in Endpoints : Holds(t, f)' => Holds(t, f)
  BY <1>2 DEF Holds
<1> QED
  BY <1>1, <1>2, <1>3, <1>4, QueueAnswered

LEMMA QueueReply ==
  ASSUME Types, ThreadInv, QueueInv, NEW e \in Endpoints, Reply(e)
  PROVE  QueueInv'
<1> DEFINE c == thread[e]
<1>1. c.task \in Tasks /\ c.pc \in Connecting
  BY DEF Reply, At, ThreadInv, ThreadOK, Connecting
<1>2. HandlerDone(e) /\ UNCHANGED <<alive, queue>>
  BY DEF Reply, kernelVars
<1>3. CASE alive[c.task]
  <2> DEFINE h == [ep |-> e, fwd |-> c.fwd, rev |-> c.rev]
  <2>1. /\ waiting' = [waiting EXCEPT ![c.task] = NULL]
        /\ handles' = [handles EXCEPT ![c.task] = @ \cup {h}]
    BY <1>3 DEF Reply, Accepted
  <2>2. h.ep = e
    OBVIOUS
  <2> HIDE DEF h
  <2>3. \A t \in Tasks, f \in Endpoints :
          Holds(t, f)' => Holds(t, f) \/ (f = e /\ t = c.task)
    BY <1>1, <2>1, <2>2 DEF Holds, Types
  <2> QED
    BY <1>1, <1>2, <2>1, <2>3, QueueAnswered DEF Types
<1>4. CASE ~alive[c.task]
  <2>1. UNCHANGED <<waiting, handles>>
    BY <1>4 DEF Reply, clientVars
  <2>2. \A t \in Tasks, f \in Endpoints : Holds(t, f)' => Holds(t, f)
    BY <2>1 DEF Holds
  <2> QED
    BY <1>1, <1>2, <1>4, <2>1, <2>2, QueueAnswered
<1> QED
  BY <1>3, <1>4

\* A step of the thread of e in which it takes no message and changes nothing
\* in the clients.
LEMMA QueueThread ==
  ASSUME QueueInv, NEW e \in Endpoints, UNCHANGED <<alive, handles, waiting>>,
         \A x \in Endpoints : x # e => thread'[x] = thread[x],
         \/ thread'[e].task = NULL
         \/ /\ thread'[e].task = thread[e].task
            /\ thread[e].pc \in Connecting /\ thread'[e].pc \in Connecting,
         \A x \in Endpoints, i \in Nat, k \in Kinds, t \in Tasks :
           Queued(x, i, k, t)' => Queued(x, i, k, t)
  PROVE  QueueInv'
<1> SUFFICES ASSUME NEW f \in Endpoints, NEW t \in Tasks PROVE QueueOK(f, t)'
  BY DEF QueueInv
<1>1. /\ Serving(f, Connecting, t)' => Serving(f, Connecting, t)
      /\ Serving(f, {"dead"}, t)' => Serving(f, {"dead"}, t)
      /\ Serving(f, {"disconnect"}, t)' => Serving(f, {"disconnect"}, t)
  <2>1. "dead" \notin Connecting /\ "disconnect" \notin Connecting
    BY DEF Connecting, SetUp
  <2>2. NULL # t
    BY EndpointAssumption
  <2> QED
    BY <2>1, <2>2 DEF Serving
<1>2. Holds(t, f)' <=> Holds(t, f)
  BY DEF Holds
<1> QED
  BY <1>1, <1>2, QueueFrame

\* The request replaces another, whose port gets a message about it.
LEMMA RegistersQueued ==
  ASSUME Types, ThreadInv, NEW e \in Endpoints, Registers(e),
         NEW x \in Endpoints, NEW i \in Nat, NEW k \in Kinds, NEW t \in Tasks
  PROVE  Queued(x, i, k, t)' <=> Queued(x, i, k, t)
<1> DEFINE u == thread[e].task
           d == dnrequest[u]
<1>1. u \in Tasks
  BY DEF Registers, ThreadInv, ThreadOK, At
<1>2. CASE d # NULL /\ Open(d)
  <2>1. /\ d \in Endpoints /\ Message("send_once", u) \in Messages
        /\ Post(d, Message("send_once", u))
    BY <1>1, <1>2, MessageTypes DEF Types, Registers, RequestNotification
  <2>2. Message("send_once", u) # Message(k, t)
    BY MessagesDiffer DEF Kinds
  <2> HIDE DEF d, u
  <2> QED
    BY <1>2, <2>1, <2>2, PostQueued
<1>3. CASE ~(d # NULL /\ Open(d))
  <2>1. UNCHANGED queue
    BY <1>3 DEF Registers, RequestNotification
  <2> QED
    BY <2>1, SameQueued
<1> QED
  BY <1>2, <1>3

LEMMA QueueRegisters ==
  ASSUME Types, ThreadInv, QueueInv, NEW e \in Endpoints, Registers(e)
  PROVE  QueueInv'
<1>1. /\ thread'[e].pc = "reply" /\ thread'[e].task = thread[e].task
      /\ \A x \in Endpoints : x # e => thread'[x] = thread[x]
  BY StepTypes DEF Registers, Pcs, Connecting
<1>2. thread[e].pc \in Connecting /\ thread'[e].pc \in Connecting
  BY <1>1 DEF Registers, At, Connecting, SetUp
<1>3. UNCHANGED <<alive, handles, waiting>>
  BY DEF Registers, clientVars
<1> QED
  BY <1>1, <1>2, <1>3, RegistersQueued, QueueThread

LEMMA QueueShare ==
  ASSUME Types, ThreadInv, QueueInv, NEW e \in Endpoints,
         \/ Share(e, "share_fwd", "share_rev", thread[e].fwd)
         \/ Share(e, "share_rev", "notify", thread[e].rev)
  PROVE  QueueInv'
<1>1. PICK pc \in {"share_rev", "notify"} :
        /\ thread' = [thread EXCEPT ![e].pc = pc]
        /\ thread[e].pc \in {"share_fwd", "share_rev"}
  BY DEF Share, At
<1>2. pc \in Pcs /\ pc \in Connecting /\ thread[e].pc \in Connecting
  BY <1>1 DEF Pcs, Connecting, SetUp
<1>3. /\ thread'[e].pc = pc /\ thread'[e].task = thread[e].task
      /\ \A x \in Endpoints : x # e => thread'[x] = thread[x]
  BY <1>1, <1>2, StepTypes
<1>4. UNCHANGED <<alive, queue, handles, waiting>>
  BY DEF Share, kernelVars
<1> QED
  BY <1>2, <1>3, <1>4, SameQueued, QueueThread

LEMMA QueueCreate ==
  ASSUME Types, ThreadInv, QueueInv, NEW e \in Endpoints,
         thread[e].pc \in Connecting,
         NEW c \in Threads, c.task = thread[e].task, c.pc \in Connecting,
         Create(e, c)
  PROVE  QueueInv'
<1>1. thread'[e] = c /\ \A x \in Endpoints : x # e => thread'[x] = thread[x]
  BY DEF Create, Types
<1>2. UNCHANGED <<alive, queue, handles, waiting>>
  BY DEF Create, kernelVars, clientVars
<1> QED
  BY <1>1, <1>2, SameQueued, QueueThread

\* The handlers that answer nobody, and the reactor.
LEMMA QueueHandled ==
  ASSUME Types, ThreadInv, QueueInv, NEW e \in Endpoints,
         \/ CleanupDead(e) \/ DisconnectHandler(e)
         \/ PumpTimeout(e) \/ Event(e) \/ Drained(e)
  PROVE  QueueInv'
<1>1. UNCHANGED <<alive, queue, handles, waiting>>
  BY DEF CleanupDead, DisconnectHandler, PumpTimeout, Event, Drained, kernelVars, clientVars
<1>2. /\ thread'[e].task = NULL
      /\ \A x \in Endpoints : x # e => thread'[x] = thread[x]
  <2>1. CASE CleanupDead(e) \/ DisconnectHandler(e)
    BY <2>1, DoneTypes DEF CleanupDead, DisconnectHandler
  <2>2. CASE PumpTimeout(e) \/ Event(e) \/ Drained(e)
    BY <2>2, TurnTypes DEF PumpTimeout, Event
  <2> QED
    BY <2>1, <2>2
<1> QED
  BY <1>1, <1>2, SameQueued, QueueThread

LEMMA QueueReceive ==
  ASSUME Types, ThreadInv, QueueInv, NEW e \in Endpoints, Receive(e)
  PROVE  QueueInv'
<1> SUFFICES ASSUME NEW f \in Endpoints, NEW t \in Tasks PROVE QueueOK(f, t)'
  BY DEF QueueInv
<1>1. UNCHANGED <<alive, handles, waiting>>
  BY DEF Receive, clientVars
<1>2. Holds(t, f)' <=> Holds(t, f)
  BY <1>1 DEF Holds
<1>3. CASE f # e
  <2>1. \A i \in Nat, k \in Kinds : Queued(f, i, k, t)' => Queued(f, i, k, t)
    BY <1>3, TailQueued
  <2>2. \A pcs : Serving(f, pcs, t)' <=> Serving(f, pcs, t)
    BY <1>3, TypesReceive DEF Serving
  <2> QED
    BY <1>1, <1>2, <2>1, <2>2, QueueFrame
<1>4. CASE f = e
  <2>1. PICK u \in Tasks, k \in {"connect", "dead", "disconnect", "send_once"} :
          /\ Queued(e, 1, k, u)
          /\ thread'[e].pc = IF k # "send_once" THEN k
                             ELSE IF e \in Reactors THEN "event" ELSE "idle"
          /\ k = "send_once" => thread'[e].task = NULL
          /\ k # "send_once" => thread'[e].task = u
    BY ReceiveMessage
  <2>2. QueueOK(e, t)
    BY DEF QueueInv
  <2>3. \A i \in Nat :
          /\ Queued(e, i, "connect", t)' => i + 1 \in Nat /\ Queued(e, i + 1, "connect", t)
          /\ Queued(e, i, "dead", t)' => i + 1 \in Nat /\ Queued(e, i + 1, "dead", t)
          /\ Queued(e, i, "disconnect", t)'
               => i + 1 \in Nat /\ Queued(e, i + 1, "disconnect", t)
    BY TailQueued
  <2>4. \A i \in Nat : /\ Queued(e, i, "disconnect", t) => i # 0
                       /\ \A j \in Kinds : Queued(e, i, j, t)' => i # 0
    BY TailQueued
  <2>5. CASE ~(k # "send_once" /\ t = u)
    <3>1. ~Serving(e, Connecting, t)' /\ ~Serving(e, {"dead"}, t)'
          /\ ~Serving(e, {"disconnect"}, t)'
      BY <2>1, <2>5, EndpointAssumption DEF Serving
    <3>2. \A i, j \in Nat : (i + 1 = j + 1 => i = j) /\ (j + 1 < i + 1 => j < i)
      OBVIOUS
    <3> QED
      BY <1>1, <1>2, <1>4, <2>2, <2>3, <3>1, <3>2 DEF QueueOK
  <2>6. CASE k = "send_once"
    BY <2>5, <2>6
  <2>7. CASE k = "connect" /\ t = u
    <3>1. ~Serving(e, {"dead"}, t)' /\ ~Serving(e, {"disconnect"}, t)'
      BY <2>1, <2>7 DEF Serving
    <3>2. alive[t] => waiting[t] = e /\ ~Holds(t, e)
      BY <2>1, <2>2, <2>7 DEF QueueOK
    <3>3. alive[t] => \A j \in Nat : ~Queued(e, j, "disconnect", t)
      BY <2>1, <2>2, <2>4, <2>7 DEF QueueOK
    <3>4. alive[t] => \A j \in Nat : ~Queued(e, j, "connect", t)'
      <4> SUFFICES ASSUME alive[t], NEW j \in Nat, Queued(e, j, "connect", t)'
                   PROVE  FALSE
        OBVIOUS
      <4>1. j # 0 /\ Queued(e, j + 1, "connect", t) /\ j + 1 \in Nat
        BY <2>3, <2>4 DEF Kinds
      <4>2. j + 1 = 1
        BY <2>1, <2>2, <2>7, <4>1 DEF QueueOK
      <4> QED
        BY <4>1, <4>2
    <3>5. \A i, j \in Nat : i + 1 = j + 1 => i = j
      OBVIOUS
    <3> QED
      BY <1>1, <1>2, <1>4, <2>2, <2>3, <3>1, <3>2, <3>3, <3>4, <3>5 DEF QueueOK
  <2>8. CASE k = "dead" /\ t = u
    <3>1. ~Serving(e, Connecting, t)' /\ ~Serving(e, {"disconnect"}, t)'
      BY <2>1, <2>8 DEF Serving, Connecting, SetUp
    <3>2. ~alive[t]
      BY <2>1, <2>2, <2>8 DEF QueueOK
    <3>3. \A j \in Nat : ~Queued(e, j, "dead", t)'
      <4> SUFFICES ASSUME NEW j \in Nat, Queued(e, j, "dead", t)'
                   PROVE  FALSE
        OBVIOUS
      <4>1. j # 0 /\ Queued(e, j + 1, "dead", t) /\ j + 1 \in Nat
        BY <2>3, <2>4 DEF Kinds
      <4>2. j + 1 = 1
        BY <2>1, <2>2, <2>8, <4>1 DEF QueueOK
      <4> QED
        BY <4>1, <4>2
    <3> QED
      BY <1>1, <1>4, <2>2, <2>3, <3>1, <3>2, <3>3 DEF QueueOK
  <2>9. CASE k = "disconnect" /\ t = u
    <3>1. ~Serving(e, Connecting, t)' /\ ~Serving(e, {"dead"}, t)'
      BY <2>1, <2>9 DEF Serving, Connecting, SetUp
    <3>2. alive[t] => ~Holds(t, e)
      BY <2>1, <2>2, <2>9 DEF QueueOK
    <3>3. \A i, j \in Nat : (i + 1 = j + 1 => i = j) /\ (j + 1 < i + 1 => j < i)
      OBVIOUS
    <3> QED
      BY <1>1, <1>2, <1>4, <2>2, <2>3, <3>1, <3>2, <3>3 DEF QueueOK
  <2> QED
    BY <2>1, <2>5, <2>6, <2>7, <2>8, <2>9
<1> QED
  BY <1>3, <1>4

LEMMA QueueDestroy ==
  ASSUME Types, ThreadInv, QueueInv, NEW d \in Endpoints, Destroy(d)
  PROVE  QueueInv'
<1> SUFFICES ASSUME NEW e \in Endpoints, NEW t \in Tasks PROVE QueueOK(e, t)'
  BY DEF QueueInv
<1>1. /\ UNCHANGED <<alive, handles, thread>> /\ thread[d].pc = "idle"
      /\ queue'[d] = NULL /\ \A x \in Endpoints : x # d => queue'[x] = queue[x]
      /\ waiting'[t] = IF waiting[t] = d THEN NULL ELSE waiting[t]
  BY DEF Destroy, Types, At
<1>2. /\ Holds(t, e)' <=> Holds(t, e)
      /\ \A pcs : Serving(e, pcs, t)' <=> Serving(e, pcs, t)
  BY <1>1 DEF Holds, Serving
<1>3. \A i, k : Queued(e, i, k, t)' => Queued(e, i, k, t) /\ e # d
  BY <1>1 DEF Queued, Open, Message
<1>4. CASE waiting[t] # d \/ ~alive[t]
  BY <1>1, <1>2, <1>3, <1>4, QueueFrame
<1>5. CASE waiting[t] = d /\ alive[t] /\ e # d
  <2>1. QueueOK(e, t) /\ waiting'[t] # e
    BY <1>1, <1>5, EndpointAssumption DEF QueueInv
  <2>2. ~Serving(e, Connecting, t) /\ \A i \in Nat : ~Queued(e, i, "connect", t)
    BY <1>5, <2>1 DEF QueueOK
  <2> QED
    BY <1>1, <1>2, <1>3, <1>5, <2>1, <2>2, QueueFrame
<1>6. CASE waiting[t] = d /\ alive[t] /\ e = d
  <2>1. QueueOK(e, t) /\ waiting'[t] # e
    BY <1>1, <1>6, EndpointAssumption DEF QueueInv
  <2>2. ~Serving(e, Connecting, t)' /\ ~Serving(e, {"disconnect"}, t)'
        /\ ~Serving(e, {"dead"}, t)'
    BY <1>1, <1>6 DEF Serving, Connecting, SetUp
  <2> QED
    BY <1>1, <1>3, <1>6, <2>1, <2>2 DEF QueueOK
<1> QED
  BY <1>4, <1>5, <1>6

-----------------------------------------------------------------------------
(* The references on the names of the task ports. *)

HKeys == 0 .. MAX_CLIENTS + 1

LEMMA HoldersFinite ==
  ASSUME NEW t
  PROVE  /\ IsFiniteSet(HoldersOf(t)) /\ Cardinality(HoldersOf(t)) \in Nat
         /\ IsFiniteSet(HoldersOf(t)') /\ Cardinality(HoldersOf(t)') \in Nat
         /\ HoldersOf(t) \subseteq Endpoints \X HKeys
         /\ HoldersOf(t)' \subseteq Endpoints \X HKeys
         /\ \A e \in Endpoints, k \in HKeys :
              /\ <<e, k>> \in HoldersOf(t) <=> Holder(e, k, t)
              /\ <<e, k>> \in HoldersOf(t)' <=> Holder(e, k, t)'
<1>1. IsFiniteSet(HKeys)
  BY FS_Interval, EndpointAssumption DEF HKeys
<1>2. IsFiniteSet(Endpoints \X HKeys)
  BY <1>1, FS_Product, EndpointAssumption
<1>3. HoldersOf(t) \subseteq Endpoints \X HKeys /\ HoldersOf(t)' \subseteq Endpoints \X HKeys
  BY DEF HoldersOf, HKeys
<1>4. /\ IsFiniteSet(HoldersOf(t)) /\ Cardinality(HoldersOf(t)) \in Nat
      /\ IsFiniteSet(HoldersOf(t)') /\ Cardinality(HoldersOf(t)') \in Nat
  BY <1>2, <1>3, FS_Subset, FS_CardinalityType
<1>5. ASSUME NEW e \in Endpoints, NEW k \in HKeys
      PROVE  /\ <<e, k>> \in HoldersOf(t) <=> Holder(e, k, t)
             /\ <<e, k>> \in HoldersOf(t)' <=> Holder(e, k, t)'
  BY DEF HoldersOf, HKeys
<1> QED
  BY <1>3, <1>4, <1>5

\* No new holder; one more, with a reference; one less, with its reference;
\* one in the place of another.
LEMMA RefSame ==
  ASSUME RefInv, NEW t \in Tasks, urefs[t] \in Nat, urefs'[t] = urefs[t],
         \A f \in Endpoints, k \in HKeys : Holder(f, k, t)' => Holder(f, k, t)
  PROVE  urefs'[t] >= Cardinality(HoldersOf(t)')
<1>1. HoldersOf(t)' \subseteq HoldersOf(t)
  <2> SUFFICES ASSUME NEW p \in HoldersOf(t)' PROVE p \in HoldersOf(t)
    OBVIOUS
  <2>1. PICK f \in Endpoints, k \in HKeys : p = <<f, k>>
    BY HoldersFinite
  <2> QED
    BY <2>1, HoldersFinite
<1>2. Cardinality(HoldersOf(t)') <= Cardinality(HoldersOf(t))
  BY <1>1, HoldersFinite, FS_Subset
<1> QED
  BY <1>2, HoldersFinite DEF RefInv

LEMMA RefAdd ==
  ASSUME RefInv, NEW t \in Tasks, urefs[t] \in Nat, urefs'[t] = urefs[t] + 1,
         NEW e \in Endpoints, NEW j \in HKeys,
         \A f \in Endpoints, k \in HKeys :
           Holder(f, k, t)' => Holder(f, k, t) \/ (f = e /\ k = j)
  PROVE  urefs'[t] >= Cardinality(HoldersOf(t)')
<1> DEFINE S == HoldersOf(t) \cup {<<e, j>>}
<1>1. HoldersOf(t)' \subseteq S
  <2> SUFFICES ASSUME NEW p \in HoldersOf(t)' PROVE p \in S
    OBVIOUS
  <2>1. PICK f \in Endpoints, k \in HKeys : p = <<f, k>>
    BY HoldersFinite
  <2> QED
    BY <2>1, HoldersFinite
<1>2. IsFiniteSet(S) /\ Cardinality(S) <= Cardinality(HoldersOf(t)) + 1
      /\ Cardinality(S) \in Nat
  <2>1. IsFiniteSet(HoldersOf(t)) /\ Cardinality(HoldersOf(t)) \in Nat
    BY HoldersFinite
  <2> DEFINE H == HoldersOf(t)
             x == <<e, j>>
  <2> HIDE DEF H, x
  <2>2. /\ IsFiniteSet(H \cup {x})
        /\ Cardinality(H \cup {x}) = IF x \in H THEN Cardinality(H)
                                     ELSE Cardinality(H) + 1
    BY <2>1, FS_AddElement DEF H
  <2> QED
    BY <2>1, <2>2, FS_CardinalityType DEF H, x
<1> HIDE DEF S
<1>3. Cardinality(HoldersOf(t)') <= Cardinality(S)
  BY <1>1, <1>2, FS_Subset
<1> QED
  BY <1>2, <1>3, HoldersFinite DEF RefInv

LEMMA RefDrop ==
  ASSUME RefInv, NEW t \in Tasks, urefs[t] \in Nat, urefs'[t] = urefs[t] - 1,
         NEW e \in Endpoints, NEW j \in HKeys, Holder(e, j, t),
         \A f \in Endpoints, k \in HKeys :
           Holder(f, k, t)' => Holder(f, k, t) /\ ~(f = e /\ k = j)
  PROVE  urefs'[t] >= Cardinality(HoldersOf(t)') /\ urefs'[t] \in Nat
<1> DEFINE S == HoldersOf(t) \ {<<e, j>>}
<1>1. HoldersOf(t)' \subseteq S
  <2> SUFFICES ASSUME NEW p \in HoldersOf(t)' PROVE p \in S
    OBVIOUS
  <2>1. PICK f \in Endpoints, k \in HKeys : p = <<f, k>>
    BY HoldersFinite
  <2>2. <<f, k>> # <<e, j>> /\ <<f, k>> \in HoldersOf(t)
    BY <2>1, HoldersFinite
  <2> QED
    BY <2>1, <2>2
<1>2. /\ IsFiniteSet(S) /\ Cardinality(S) = Cardinality(HoldersOf(t)) - 1
      /\ Cardinality(S) \in Nat
  <2>1. <<e, j>> \in HoldersOf(t)
    BY HoldersFinite
  <2> QED
    BY <2>1, HoldersFinite, FS_RemoveElement, FS_CardinalityType
<1> HIDE DEF S
<1>3. Cardinality(HoldersOf(t)') <= Cardinality(S)
  BY <1>1, <1>2, FS_Subset
<1> QED
  BY <1>2, <1>3, HoldersFinite DEF RefInv

LEMMA RefMove ==
  ASSUME RefInv, NEW t \in Tasks, urefs[t] \in Nat, urefs'[t] = urefs[t],
         NEW e \in Endpoints, NEW i \in HKeys, NEW j \in HKeys, Holder(e, i, t),
         \A f \in Endpoints, k \in HKeys :
           Holder(f, k, t)' => \/ Holder(f, k, t) /\ ~(f = e /\ k = i)
                               \/ f = e /\ k = j
  PROVE  urefs'[t] >= Cardinality(HoldersOf(t)')
<1> DEFINE S == HoldersOf(t) \ {<<e, i>>}
           U == S \cup {<<e, j>>}
<1>1. HoldersOf(t)' \subseteq U
  <2> SUFFICES ASSUME NEW p \in HoldersOf(t)' PROVE p \in U
    OBVIOUS
  <2>1. PICK f \in Endpoints, k \in HKeys : p = <<f, k>>
    BY HoldersFinite
  <2>2. \/ <<f, k>> = <<e, j>>
        \/ <<f, k>> # <<e, i>> /\ <<f, k>> \in HoldersOf(t)
    BY <2>1, HoldersFinite
  <2> QED
    BY <2>1, <2>2
<1>2. /\ IsFiniteSet(S) /\ Cardinality(S) = Cardinality(HoldersOf(t)) - 1
      /\ Cardinality(S) \in Nat
  <2>1. <<e, i>> \in HoldersOf(t)
    BY HoldersFinite
  <2> QED
    BY <2>1, HoldersFinite, FS_RemoveElement, FS_CardinalityType
<1> HIDE DEF S
<1>3. IsFiniteSet(U) /\ Cardinality(U) <= Cardinality(S) + 1 /\ Cardinality(U) \in Nat
  <2> DEFINE x == <<e, j>>
  <2> HIDE DEF x
  <2>1. /\ IsFiniteSet(S \cup {x})
        /\ Cardinality(S \cup {x}) = IF x \in S THEN Cardinality(S)
                                     ELSE Cardinality(S) + 1
    BY <1>2, FS_AddElement
  <2> QED
    BY <1>2, <2>1, FS_CardinalityType DEF x
<1> HIDE DEF U
<1>4. Cardinality(HoldersOf(t)') <= Cardinality(U)
  BY <1>1, <1>3, FS_Subset
<1> QED
  BY <1>2, <1>3, <1>4, HoldersFinite DEF RefInv

\* Who holds a reference is the same where nothing changes.
LEMMA HolderFrame ==
  ASSUME NEW f \in Endpoints, conns'[f] = conns[f], thread'[f] = thread[f],
         NEW t, \A i \in Nat : Queued(f, i, "dead", t)' => Queued(f, i, "dead", t)
  PROVE  \A k : Holder(f, k, t)' => Holder(f, k, t)
<1>1. Of(f, t)' = Of(f, t)
  BY DEF Of, Active
<1>2. \A pcs : Serving(f, pcs, t)' <=> Serving(f, pcs, t)
  BY DEF Serving
<1> QED
  BY <1>1, <1>2 DEF Holder, DeadKnown

\* The keys of the three kinds of holder differ.
LEMMA HolderKeys ==
  ASSUME NEW e \in Endpoints, NEW t
  PROVE  /\ Of(e, t) \subseteq Idx /\ Idx \subseteq HKeys
         /\ 0 \in HKeys /\ MAX_CLIENTS + 1 \in HKeys
         /\ 0 \notin Idx /\ MAX_CLIENTS + 1 \notin Idx /\ MAX_CLIENTS + 1 # 0
<1>1. Of(e, t) \subseteq Idx
  BY DEF Of, Active
<1> QED
  BY <1>1, EndpointAssumption DEF Idx, HKeys

\* The clients: a notification comes with a reference for the name in it.
LEMMA RefClient ==
  ASSUME Types, RefInv, NEW u \in Tasks,
         \/ \E e \in Endpoints : Connect(u, e)
         \/ Disconnect(u) \/ DisconnectRpc(u) \/ Dies(u)
  PROVE  RefInv'
<1> SUFFICES ASSUME NEW t \in Tasks PROVE urefs'[t] >= Cardinality(HoldersOf(t)')
  BY DEF RefInv
<1>1. UNCHANGED <<conns, thread>> /\ urefs[t] \in Nat
  BY DEF Connect, Disconnect, DisconnectRpc, Dies, epVars, serverVars, Types
<1>2. ASSUME NEW e \in Endpoints, Open(e), NEW m \in Messages, Post(e, m),
             m # Message("dead", t), NEW f \in Endpoints, NEW i \in Nat,
             Queued(f, i, "dead", t)'
      PROVE  Queued(f, i, "dead", t)
  BY <1>2, PostQueued
<1>3. ASSUME \A f \in Endpoints, i \in Nat :
               Queued(f, i, "dead", t)' => Queued(f, i, "dead", t),
             urefs'[t] = urefs[t]
      PROVE  urefs'[t] >= Cardinality(HoldersOf(t)')
  <2>1. \A f \in Endpoints, k \in HKeys : Holder(f, k, t)' => Holder(f, k, t)
    BY <1>1, <1>3, HolderFrame
  <2> QED
    BY <1>1, <1>3, <2>1, RefSame
<1>4. CASE \E e \in Endpoints : Connect(u, e)
  <2>1. PICK e \in Endpoints : Connect(u, e)
    BY <1>4
  <2>2. Message("connect", u) # Message("dead", t)
    BY MessagesDiffer
  <2>3. Message("connect", u) \in Messages
    BY MessageTypes
  <2>4. \A f \in Endpoints, i \in Nat :
          Queued(f, i, "dead", t)' => Queued(f, i, "dead", t)
    BY <1>2, <2>1, <2>2, <2>3 DEF Connect
  <2> QED
    BY <1>3, <2>1, <2>4 DEF Connect
<1>5. CASE Disconnect(u)
  BY <1>3, <1>5, SameQueued DEF Disconnect, kernelVars
<1>6. CASE DisconnectRpc(u)
  <2>1. PICK h \in handles[u] : /\ Open(h.ep)
                                /\ Post(h.ep, Message("disconnect", u))
    BY <1>6 DEF DisconnectRpc
  <2>2. Message("disconnect", u) # Message("dead", t)
    BY MessagesDiffer
  <2>3. Message("disconnect", u) \in Messages /\ h.ep \in Endpoints
    BY MessageTypes DEF Types, Handles
  <2>4. \A f \in Endpoints, i \in Nat :
          Queued(f, i, "dead", t)' => Queued(f, i, "dead", t)
    BY <1>2, <2>1, <2>2, <2>3
  <2> QED
    BY <1>3, <1>6, <2>4 DEF DisconnectRpc
<1>7. CASE Dies(u) /\ (dnrequest[u] = NULL)
  BY <1>3, <1>7, SameQueued DEF Dies
<1>8. CASE Dies(u) /\ dnrequest[u] # NULL
  <2>0. PICK d \in Endpoints : d = dnrequest[u]
    BY <1>8 DEF Types
  <2>1. /\ Message("dead", u) \in Messages
        /\ urefs' = [urefs EXCEPT ![u] = @ + 1]
        /\ IF Open(d) THEN Post(d, Message("dead", u)) ELSE UNCHANGED queue
    BY <1>8, <2>0, MessageTypes DEF Dies
  <2>2. \A f \in Endpoints, i \in Nat :
          f # d \/ t # u => (Queued(f, i, "dead", t)' => Queued(f, i, "dead", t))
    <3>1. t # u => Message("dead", u) # Message("dead", t)
      BY MessagesDiffer
    <3>2. CASE Open(d)
      BY <2>1, <3>1, <3>2, PostQueued
    <3>3. CASE ~Open(d)
      BY <2>1, <3>3, SameQueued
    <3> QED
      BY <3>2, <3>3
  <2>3. CASE t # u
    BY <1>3, <2>1, <2>2, <2>3 DEF Types
  <2>4. CASE t = u
    <3>1. ASSUME NEW k \in HKeys, Holder(d, k, t)', k # MAX_CLIENTS + 1
          PROVE  Holder(d, k, t)
      <4>1. Of(d, t)' = Of(d, t)
        BY <1>1 DEF Of, Active
      <4>2. \A pcs : Serving(d, pcs, t)' <=> Serving(d, pcs, t)
        BY <1>1 DEF Serving
      <4> QED
        BY <1>1, <3>1, <4>1, <4>2 DEF Holder, DeadKnown
    <3>2. \A f \in Endpoints, k \in HKeys : f # d => (Holder(f, k, t)' => Holder(f, k, t))
      BY <1>1, <2>2, HolderFrame
    <3>3. MAX_CLIENTS + 1 \in HKeys
      BY <2>1, HolderKeys
    <3>4. urefs'[t] = urefs[t] + 1
      BY <2>1, <2>4 DEF Types
    <3> QED
      BY <1>1, <2>1, <3>1, <3>2, <3>3, <3>4, RefAdd
  <2> QED
    BY <2>3, <2>4
<1> QED
  BY <1>4, <1>5, <1>6, <1>7, <1>8

\* A step of the thread of e that leaves the slots and the queues.
LEMMA HolderThread ==
  ASSUME NEW e \in Endpoints, UNCHANGED conns,
         \A x \in Endpoints : x # e => thread'[x] = thread[x],
         \A f \in Endpoints, i \in Nat, s \in Tasks :
           Queued(f, i, "dead", s)' => Queued(f, i, "dead", s),
         NEW t \in Tasks, ~Serving(e, {"dead"}, t)',
         NEW f \in Endpoints, NEW k \in HKeys, Holder(f, k, t)'
  PROVE  \/ Holder(f, k, t) /\ ~(f = e /\ k = 0)
         \/ /\ f = e /\ k = 0 /\ thread'[e].right
            /\ Serving(e, SetUp \cup {"connect", "disconnect"}, t)'
<1>1. CASE f # e
  BY <1>1, HolderFrame
<1>2. CASE f = e
  <2>1. Of(f, t)' = Of(f, t)
    BY DEF Of, Active
  <2> QED
    BY <1>2, <2>1, HolderKeys DEF Holder, DeadKnown
<1> QED
  BY <1>1, <1>2

LEMMA RefGiveUp ==
  ASSUME Types, ThreadInv, RefInv, NEW e \in Endpoints,
         thread[e].pc \in SetUp \cup {"connect"},
         NEW unmap, NEW destroy, GiveUp(e, unmap, destroy)
  PROVE  RefInv' /\ urefs' \in [Tasks -> Nat]
<1>1. /\ thread'[e].task = NULL /\ thread[e].task \in Tasks
      /\ \A x \in Endpoints : x # e => thread'[x] = thread[x]
  BY DoneTypes DEF GiveUp, ThreadInv, ThreadOK, SetUp
<1>2. UNCHANGED <<conns, queue>> /\ DestroyRequest(e, thread[e].task, thread[e].right)
  BY DEF GiveUp, epVars
<1>3. ASSUME NEW t \in Tasks, NEW f \in Endpoints, NEW k \in HKeys, Holder(f, k, t)'
      PROVE  Holder(f, k, t) /\ ~(f = e /\ k = 0)
  <2>1. \A pcs : ~Serving(e, pcs, t)'
    BY <1>1, EndpointAssumption DEF Serving
  <2> QED
    BY <1>1, <1>2, <1>3, <2>1, SameQueued, HolderThread
<1>4. ASSUME NEW t \in Tasks
      PROVE  urefs'[t] >= Cardinality(HoldersOf(t)') /\ urefs'[t] \in Nat
  <2>0. urefs[t] \in Nat
    BY DEF Types
  <2>1. CASE urefs'[t] = urefs[t]
    BY <1>3, <2>0, <2>1, RefSame
  <2>2. CASE urefs'[t] # urefs[t]
    <3>1. t = thread[e].task /\ thread[e].right /\ urefs'[t] = urefs[t] - 1
      BY <1>1, <1>2, <2>2 DEF DestroyRequest, Deallocate, Types
    <3>2. Holder(e, 0, t)
      BY <3>1 DEF Holder, DeadKnown, Serving
    <3>3. 0 \in HKeys
      BY HolderKeys
    <3> QED
      BY <1>3, <2>0, <3>1, <3>2, <3>3, RefDrop
  <2> QED
    BY <2>1, <2>2
<1>5. DOMAIN urefs' = Tasks /\ urefs' = [t \in Tasks |-> urefs'[t]]
  BY <1>2 DEF DestroyRequest, Deallocate, Types
<1> QED
  BY <1>4, <1>5 DEF RefInv

\* A thread that goes on, or ends, without a reference to give back.
LEMMA RefThread ==
  ASSUME Types, RefInv, NEW e \in Endpoints, UNCHANGED <<conns, queue, urefs>>,
         \A x \in Endpoints : x # e => thread'[x] = thread[x],
         \/ thread'[e].task = NULL
         \/ /\ thread'[e].task = thread[e].task /\ thread'[e].right = thread[e].right
            /\ thread[e].pc \in SetUp \cup {"connect"} /\ thread'[e].pc \in SetUp
  PROVE  RefInv'
<1> SUFFICES ASSUME NEW t \in Tasks PROVE urefs'[t] >= Cardinality(HoldersOf(t)')
  BY DEF RefInv
<1>1. ~Serving(e, {"dead"}, t)'
  BY EndpointAssumption DEF Serving, SetUp
<1>2. thread'[e].right /\ Serving(e, SetUp \cup {"connect", "disconnect"}, t)'
        => Holder(e, 0, t)
  BY EndpointAssumption DEF Serving, Holder, DeadKnown
<1>3. \A f \in Endpoints, i \in Nat, s \in Tasks :
        Queued(f, i, "dead", s)' => Queued(f, i, "dead", s)
  BY SameQueued
<1>4. \A f \in Endpoints, k \in HKeys : Holder(f, k, t)' => Holder(f, k, t)
  BY <1>1, <1>2, <1>3, HolderThread
<1> QED
  BY <1>4, RefSame DEF Types

LEMMA RefShare ==
  ASSUME Types, RefInv, NEW e \in Endpoints,
         \/ Share(e, "share_fwd", "share_rev", thread[e].fwd)
         \/ Share(e, "share_rev", "notify", thread[e].rev)
  PROVE  RefInv'
<1>1. PICK pc \in {"share_rev", "notify"} :
        /\ thread' = [thread EXCEPT ![e].pc = pc]
        /\ thread[e].pc \in {"share_fwd", "share_rev"}
  BY DEF Share, At
<1>2. pc \in Pcs /\ pc \in SetUp /\ thread[e].pc \in SetUp
  BY <1>1 DEF Pcs, Connecting, SetUp
<1>3. /\ thread'[e].pc = pc /\ thread'[e].task = thread[e].task
      /\ thread'[e].right = thread[e].right
      /\ \A x \in Endpoints : x # e => thread'[x] = thread[x]
  BY <1>1, <1>2, StepTypes
<1>4. UNCHANGED <<conns, queue, urefs>>
  BY DEF Share, kernelVars, epVars
<1> QED
  BY <1>2, <1>3, <1>4, RefThread

LEMMA RefCreate ==
  ASSUME Types, RefInv, NEW e \in Endpoints,
         thread[e].pc \in SetUp \cup {"connect"},
         NEW c \in Threads, c.task = thread[e].task, c.right = thread[e].right,
         c.pc \in SetUp, Create(e, c)
  PROVE  RefInv'
<1>1. thread'[e] = c /\ \A x \in Endpoints : x # e => thread'[x] = thread[x]
  BY DEF Create, Types
<1>2. UNCHANGED <<conns, queue, urefs>>
  BY DEF Create, kernelVars, epVars
<1> QED
  BY <1>1, <1>2, RefThread

LEMMA RefReplyPump ==
  ASSUME Types, ThreadInv, RefInv, NEW e \in Endpoints,
         Reply(e) \/ PumpTimeout(e) \/ Event(e) \/ Drained(e)
  PROVE  RefInv'
<1>1. UNCHANGED <<conns, queue, urefs>>
  BY DEF Reply, PumpTimeout, Event, Drained, kernelVars, epVars
<1>2. /\ thread'[e].task = NULL
      /\ \A x \in Endpoints : x # e => thread'[x] = thread[x]
  <2>1. CASE Reply(e)
    BY <2>1, DoneTypes DEF Reply
  <2>2. CASE PumpTimeout(e) \/ Event(e) \/ Drained(e)
    BY <2>2, TurnTypes DEF PumpTimeout, Event
  <2> QED
    BY <2>1, <2>2
<1> QED
  BY <1>1, <1>2, RefThread

\* The reference of the request becomes the reference of the slot.
LEMMA RefRegisters ==
  ASSUME Types, ThreadInv, RefInv, NEW e \in Endpoints, Registers(e)
  PROVE  RefInv'
<1> SUFFICES ASSUME NEW t \in Tasks PROVE urefs'[t] >= Cardinality(HoldersOf(t)')
  BY DEF RefInv
<1>1. PICK i \in Idx, u \in Tasks :
        /\ i = thread[e].slot /\ u = thread[e].task
        /\ conns'[e][i].task = u
        /\ \A x \in Endpoints, j \in Idx :
             x # e \/ j # i => conns'[x][j] = conns[x][j]
  <2>1. /\ thread[e].slot \in Idx /\ thread[e].task \in Tasks
        /\ conns'[e][thread[e].slot] =
             Conn(thread[e].task, thread[e].fwd, thread[e].rev)
        /\ \A x \in Endpoints, j \in Idx :
             x # e \/ j # thread[e].slot => conns'[x][j] = conns[x][j]
    BY StoreTypes DEF Registers
  <2>2. conns'[e][thread[e].slot].task = thread[e].task
    BY <2>1 DEF Conn
  <2> QED
    BY <2>1, <2>2
<1>2. /\ thread'[e].pc = "reply"
      /\ \A x \in Endpoints : x # e => thread'[x] = thread[x]
  BY StepTypes DEF Registers, Pcs, Connecting
<1>3. urefs' = urefs /\ urefs[t] \in Nat
  BY DEF Registers, Types
<1>4. ~Serving(e, {"dead"}, t)' /\ ~Serving(e, SetUp \cup {"connect", "disconnect"}, t)'
  BY <1>2 DEF Serving, SetUp
<1>5. \A f \in Endpoints, n \in Nat :
        Queued(f, n, "dead", t)' => Queued(f, n, "dead", t)
  BY RegistersQueued DEF Kinds
<1>6. \A f \in Endpoints : Of(f, t)' \subseteq Of(f, t) \cup
                             IF f = e /\ t = u THEN {i} ELSE {}
  BY <1>1 DEF Of, Active
<1>7. ASSUME NEW f \in Endpoints, NEW k \in HKeys, Holder(f, k, t)'
      PROVE  \/ Holder(f, k, t) /\ ~(f = e /\ k = 0)
             \/ f = e /\ k = i /\ t = u
  <2>1. CASE f # e
    <3>1. \A pcs : Serving(f, pcs, t)' <=> Serving(f, pcs, t)
      BY <1>2, <2>1 DEF Serving
    <3> QED
      BY <1>2, <1>5, <1>6, <1>7, <2>1, <3>1 DEF Holder, DeadKnown
  <2>2. CASE f = e
    <3>1. k = 0 => k \notin Of(e, t)'
      BY <1>6, HolderKeys
    <3> QED
      BY <1>4, <1>5, <1>6, <1>7, <2>2, <3>1, HolderKeys DEF Holder, DeadKnown
  <2> QED
    BY <2>1, <2>2
<1>8. CASE t # u
  BY <1>3, <1>7, <1>8, RefSame
<1>9. CASE t = u
  <2>1. thread[e].right
    BY <1>1 DEF Registers, At, ThreadInv, ThreadOK, Connecting, SetUp
  <2>2. Holder(e, 0, t)
    BY <1>1, <1>9, <2>1 DEF Holder, DeadKnown, Serving, Registers, At, SetUp
  <2>3. 0 \in HKeys /\ i \in HKeys
    BY HolderKeys
  <2> QED
    BY <1>3, <1>7, <2>2, <2>3, RefMove
<1> QED
  BY <1>8, <1>9

\* The handlers that release a reference, with or without a slot.
LEMMA RefHandled ==
  ASSUME Types, Counted, ThreadInv, QueueInv, RefInv, NEW e \in Endpoints,
         CleanupDead(e) \/ DisconnectHandler(e)
  PROVE  RefInv' /\ urefs' \in [Tasks -> Nat]
<1> DEFINE u == thread[e].task
           j == IF thread[e].pc = "dead" THEN MAX_CLIENTS + 1 ELSE 0
<1>1. /\ u \in Tasks /\ thread[e].pc \in {"dead", "disconnect"} /\ UNCHANGED queue
      /\ thread[e].pc = "dead" <=> CleanupDead(e)
  BY DEF CleanupDead, DisconnectHandler, At, ThreadInv, ThreadOK
<1>2. /\ thread'[e].task = NULL
      /\ \A x \in Endpoints : x # e => thread'[x] = thread[x]
  BY DoneTypes DEF CleanupDead, DisconnectHandler
<1>3. \A x \in Endpoints, k \in Idx : conns'[x][k] \in {conns[x][k], NULL}
  <2>1. ASSUME NEW S, S \subseteq Active(e), S # {}, Clear(e, Min(S)),
               NEW x \in Endpoints, NEW k \in Idx
        PROVE  conns'[x][k] \in {conns[x][k], NULL}
    <3>1. S \subseteq Nat
      BY <2>1 DEF Active, Idx
    <3>2. Min(S) \in Active(e)
      BY <2>1, <3>1, MinMember
    <3> QED
      BY <2>1, <3>2, ClearTypes
  <2>2. CASE CleanupDead(e)
    <3>1. SlotOf(e, u) \subseteq Active(e)
      BY DEF SlotOf, Of
    <3> QED
      BY <2>1, <2>2, <3>1 DEF CleanupDead
  <2>3. CASE DisconnectHandler(e)
    <3> DEFINE S == IF thread[e].right THEN SlotOf(e, u) ELSE {}
    <3>1. S \subseteq Active(e)
      BY DEF SlotOf, Of
    <3>2. S = {} => UNCHANGED conns
      BY <2>3 DEF DisconnectHandler
    <3>3. S # {} => Clear(e, Min(S))
      BY <2>3 DEF DisconnectHandler
    <3> HIDE DEF S
    <3> QED
      BY <2>1, <3>1, <3>2, <3>3
  <2> QED
    BY <2>2, <2>3
<1>4. ASSUME NEW t \in Tasks, NEW f \in Endpoints, NEW k \in HKeys, Holder(f, k, t)'
      PROVE  Holder(f, k, t) /\ (t = u => ~(f = e /\ k = j))
  <2>1. Of(f, t)' \subseteq Of(f, t)
    BY <1>3 DEF Of, Active
  <2>2. \A i : Queued(f, i, "dead", t)' <=> Queued(f, i, "dead", t)
    BY <1>1, SameQueued
  <2>3. CASE f # e
    <3>1. \A pcs : Serving(f, pcs, t)' <=> Serving(f, pcs, t)
      BY <1>2, <2>3 DEF Serving
    <3> QED
      BY <1>2, <1>4, <2>1, <2>2, <2>3, <3>1 DEF Holder, DeadKnown
  <2>4. CASE f = e
    <3>1. \A pcs : ~Serving(f, pcs, t)'
      BY <1>2, <2>4, EndpointAssumption DEF Serving
    <3>2. k \in Of(f, t) \/ (k = MAX_CLIENTS + 1 /\ \E i \in Nat : Queued(f, i, "dead", t))
      BY <1>4, <2>1, <2>2, <3>1 DEF Holder, DeadKnown
    <3>3. t = u /\ thread[e].pc = "dead" => \A i \in Nat : ~Queued(e, i, "dead", t)
      BY DEF QueueInv, QueueOK, Serving
    <3>4. k \in Of(f, t) => k # 0 /\ k # MAX_CLIENTS + 1
      BY HolderKeys
    <3> QED
      BY <2>4, <3>2, <3>3, <3>4, HolderKeys DEF Holder, DeadKnown
  <2> QED
    BY <2>3, <2>4
<1>5. \/ urefs' = urefs
      \/ /\ urefs' = [urefs EXCEPT ![u] = @ - 1]
         /\ thread[e].pc = "disconnect" => thread[e].right
  BY <1>1 DEF CleanupDead, DisconnectHandler, DestroyRequest, Deallocate
<1>6. ASSUME NEW t \in Tasks
      PROVE  urefs'[t] >= Cardinality(HoldersOf(t)') /\ urefs'[t] \in Nat
  <2>0. urefs[t] \in Nat
    BY DEF Types
  <2>1. CASE urefs'[t] = urefs[t]
    BY <1>4, <2>0, <2>1, RefSame
  <2>2. CASE urefs'[t] # urefs[t]
    <3>1. /\ t = u /\ urefs'[t] = urefs[t] - 1
          /\ thread[e].pc = "disconnect" => thread[e].right
      BY <1>1, <1>5, <2>2 DEF Types
    <3>2. Holder(e, j, t)
      BY <1>1, <3>1 DEF Holder, DeadKnown, Serving
    <3>3. j \in HKeys
      BY HolderKeys
    <3> HIDE DEF j
    <3> QED
      BY <1>4, <2>0, <3>1, <3>2, <3>3, RefDrop
  <2> QED
    BY <2>1, <2>2
<1>7. DOMAIN urefs' = Tasks /\ urefs' = [t \in Tasks |-> urefs'[t]]
  BY <1>5 DEF Types
<1> QED
  BY <1>6, <1>7 DEF RefInv

LEMMA RefReceive ==
  ASSUME Types, ThreadInv, RefInv, NEW e \in Endpoints, Receive(e)
  PROVE  RefInv'
<1> SUFFICES ASSUME NEW t \in Tasks PROVE urefs'[t] >= Cardinality(HoldersOf(t)')
  BY DEF RefInv
<1>1. PICK u \in Tasks, k \in {"connect", "dead", "disconnect", "send_once"} :
        /\ Queued(e, 1, k, u)
        /\ thread'[e].pc = IF k # "send_once" THEN k
                           ELSE IF e \in Reactors THEN "event" ELSE "idle"
        /\ k = "send_once" => thread'[e].task = NULL
        /\ k # "send_once" => thread'[e].task = u
        /\ thread'[e].right = (k \in {"connect", "disconnect"} /\ alive[u])
        /\ urefs' = IF k \in {"connect", "disconnect"} /\ alive[u]
                    THEN [urefs EXCEPT ![u] = @ + 1] ELSE urefs
  BY ReceiveMessage
<1>2. UNCHANGED conns /\ \A x \in Endpoints : x # e => thread'[x] = thread[x]
  BY TypesReceive DEF Receive
<1>3. ASSUME NEW f \in Endpoints, f # e, NEW n \in HKeys, Holder(f, n, t)'
      PROVE  Holder(f, n, t)
  <2>1. \A i \in Nat : Queued(f, i, "dead", t)' => Queued(f, i, "dead", t)
    BY <1>3, TailQueued
  <2> QED
    BY <1>2, <1>3, <2>1, HolderFrame
<1>4. \A i \in Nat : Queued(e, i, "dead", t)' => \E m \in Nat : Queued(e, m, "dead", t)
  BY TailQueued
<1>5. Serving(e, {"dead"}, t)' => \E m \in Nat : Queued(e, m, "dead", t)
  <2>1. Serving(e, {"dead"}, t)' => k = "dead" /\ t = u
    BY <1>1 DEF Serving
  <2>2. 1 \in Nat
    OBVIOUS
  <2> QED
    BY <1>1, <2>1, <2>2
<1>6. Of(e, t)' = Of(e, t)
  BY <1>2 DEF Of, Active
<1>7. ASSUME NEW n \in HKeys, Holder(e, n, t)'
      PROVE  Holder(e, n, t) \/ (n = 0 /\ thread'[e].right /\ t = u)
  BY <1>1, <1>4, <1>5, <1>6, <1>7 DEF Holder, DeadKnown, Serving
<1>8. urefs[t] \in Nat /\ 0 \in HKeys
  BY HolderKeys DEF Types
<1>9. CASE thread'[e].right /\ t = u
  <2>1. urefs'[t] = urefs[t] + 1
    BY <1>1, <1>9 DEF Types
  <2>2. \A f \in Endpoints, n \in HKeys :
          Holder(f, n, t)' => Holder(f, n, t) \/ (f = e /\ n = 0)
    BY <1>3, <1>7
  <2> QED
    BY <1>8, <2>1, <2>2, RefAdd
<1>10. CASE ~(thread'[e].right /\ t = u)
  <2>1. urefs'[t] = urefs[t]
    BY <1>1, <1>10 DEF Types
  <2> QED
    BY <1>3, <1>7, <1>8, <1>10, <2>1, RefSame
<1> QED
  BY <1>9, <1>10

LEMMA RefDestroy ==
  ASSUME Types, ThreadInv, RefInv, NEW e \in Endpoints, Destroy(e)
  PROVE  RefInv' /\ urefs' \in [Tasks -> Nat]
<1>1. ASSUME NEW t \in Tasks
      PROVE  urefs'[t] >= Cardinality(HoldersOf(t)') /\ urefs'[t] \in Nat
  <2> DEFINE S == HoldersOf(t)
             T == {e} \X Of(e, t)
  <2>1. /\ IsFiniteSet(Of(e, t)) /\ Cardinality(Of(e, t)) \in Nat
    BY SlotsFinite, FS_Subset, FS_CardinalityType DEF Of
  <2>2. IsFiniteSet(T) /\ Cardinality(T) = Cardinality(Of(e, t))
    <3> DEFINE A == {e}
               B == Of(e, t)
    <3>1. IsFiniteSet(A) /\ Cardinality(A) = 1
      BY FS_Singleton
    <3>2. IsFiniteSet(B) /\ Cardinality(B) \in Nat
      BY <2>1
    <3> HIDE DEF A, B
    <3>3. IsFiniteSet(A \X B) /\ Cardinality(A \X B) = 1 * Cardinality(B)
      BY <3>1, <3>2, FS_Product
    <3>4. 1 * Cardinality(B) = Cardinality(B)
      BY <3>2
    <3> QED
      BY <3>3, <3>4 DEF A, B
  <2>3. T \subseteq S
    <3> SUFFICES ASSUME NEW p \in T PROVE p \in S
      OBVIOUS
    <3>1. PICK k \in Of(e, t) : p = <<e, k>>
      OBVIOUS
    <3>2. k \in HKeys /\ Holder(e, k, t)
      BY HolderKeys DEF Holder, DeadKnown
    <3> QED
      BY <3>1, <3>2, HoldersFinite
  <2>4. HoldersOf(t)' \subseteq S \ T
    <3> SUFFICES ASSUME NEW p \in HoldersOf(t)' PROVE p \in S \ T
      OBVIOUS
    <3>1. PICK f \in Endpoints, k \in HKeys : p = <<f, k>>
      BY HoldersFinite
    <3>2. Holder(f, k, t)'
      BY <3>1, HoldersFinite
    <3>3. f # e
      <4>1. \A i \in Idx : conns'[e][i] = NULL
        BY DEF Destroy, Types
      <4>2. Of(e, t)' = {}
        BY <4>1 DEF Of, Active
      <4>3. \A i : ~Queued(e, i, "dead", t)'
        BY DEF Queued, Open, Destroy, Types
      <4>4. ~Serving(e, {"dead"}, t)'
            /\ ~Serving(e, SetUp \cup {"connect", "disconnect"}, t)'
        BY DEF Serving, Destroy, At, SetUp
      <4> QED
        BY <3>2, <4>2, <4>3, <4>4 DEF Holder, DeadKnown
    <3>4. conns'[f] = conns[f] /\ thread'[f] = thread[f] /\ queue'[f] = queue[f]
      BY <3>3 DEF Destroy, Types
    <3>5. Holder(f, k, t)
      BY <3>2, <3>4, SameQueued, HolderFrame
    <3>6. p \notin T
      BY <3>1, <3>3
    <3> QED
      BY <3>1, <3>5, <3>6, HoldersFinite
  <2>5. IsFiniteSet(S) /\ Cardinality(S) \in Nat /\ Cardinality(HoldersOf(t)') \in Nat
    BY HoldersFinite
  <2>6. urefs'[t] = urefs[t] - Cardinality(T) /\ urefs[t] \in Nat
        /\ urefs[t] >= Cardinality(S) /\ Cardinality(T) \in Nat
    BY <2>1, <2>2 DEF Destroy, Types, RefInv
  <2> HIDE DEF S, T
  <2>7. S \cap T = T
    BY <2>3
  <2>8. IsFiniteSet(S \ T) /\ Cardinality(S \ T) = Cardinality(S) - Cardinality(T)
    BY <2>5, <2>7, FS_Difference
  <2>9. Cardinality(HoldersOf(t)') <= Cardinality(S) - Cardinality(T)
    BY <2>4, <2>8, FS_Subset
  <2> QED
    BY <2>5, <2>6, <2>9
<1>2. urefs' = [t \in Tasks |-> urefs'[t]]
  BY DEF Destroy
<1> QED
  BY <1>1, <1>2 DEF RefInv

-----------------------------------------------------------------------------
(* The notification requests. *)

LEMMA RequestFrame ==
  ASSUME NEW e \in Endpoints, NEW t \in Tasks, RequestOK(e, t),
         superseded'[t] = superseded[t], alive'[t] = alive[t],
         Of(e, t)' \subseteq Of(e, t),
         alive[t] /\ Of(e, t)' # {} => dnrequest'[t] = dnrequest[t],
         ~alive[t] /\ DeadKnown(e, t) => DeadKnown(e, t)'
  PROVE  RequestOK(e, t)'
  BY DEF RequestOK

\* Two holders hold two references, so that the request outlives a release.
LEMMA RequestKept ==
  ASSUME Types, RefInv, NEW t \in Tasks,
         NEW e \in Endpoints, NEW j \in HKeys, Holder(e, j, t),
         NEW f \in Endpoints, NEW k \in HKeys, Holder(f, k, t), e # f \/ j # k,
         NEW u \in Tasks, Deallocate(u, 1)
  PROVE  dnrequest'[t] = dnrequest[t]
<1> DEFINE H == HoldersOf(t)
           p == <<e, j>>
           q == <<f, k>>
<1>1. p \in H /\ q \in H /\ p # q /\ IsFiniteSet(H) /\ Cardinality(H) \in Nat
  BY HoldersFinite
<1> HIDE DEF H, p, q
<1>2. IsFiniteSet(H \ {p}) /\ Cardinality(H \ {p}) = Cardinality(H) - 1
  BY <1>1, FS_RemoveElement
<1>3. Cardinality(H \ {p}) # 0 /\ Cardinality(H \ {p}) \in Nat
  BY <1>1, <1>2, FS_EmptySet, FS_CardinalityType
<1>4. Cardinality(H) > 1
  BY <1>1, <1>2, <1>3
<1>5. urefs[t] > 1
  BY <1>1, <1>4 DEF RefInv, Types, H
<1> QED
  BY <1>5 DEF Deallocate, Types

LEMMA RequestClient ==
  ASSUME Types, ThreadInv, RequestInv, NEW u \in Tasks,
         \/ \E e \in Endpoints : Connect(u, e)
         \/ Disconnect(u) \/ DisconnectRpc(u) \/ Dies(u)
  PROVE  RequestInv'
<1> SUFFICES ASSUME NEW t \in Tasks, NEW e \in Endpoints PROVE RequestOK(e, t)'
  BY DEF RequestInv
<1>1. UNCHANGED <<conns, thread, superseded>>
  BY DEF Connect, Disconnect, DisconnectRpc, Dies, epVars, serverVars
<1>2. Of(e, t)' = Of(e, t) /\ \A pcs : Serving(e, pcs, t)' <=> Serving(e, pcs, t)
  BY <1>1 DEF Of, Active, Serving
<1>3. \A i \in Nat : Queued(e, i, "dead", t) => Queued(e, i, "dead", t)'
  <2>1. ASSUME NEW d \in Endpoints, Open(d), NEW m \in Messages, Post(d, m),
               NEW i \in Nat, Queued(e, i, "dead", t)
        PROVE  Queued(e, i, "dead", t)'
    BY <2>1, PostQueued
  <2>2. CASE \E d \in Endpoints : Connect(u, d)
    BY <2>1, <2>2, MessageTypes DEF Connect
  <2>3. CASE Disconnect(u)
    BY <2>3, SameQueued DEF Disconnect, kernelVars
  <2>4. CASE DisconnectRpc(u)
    <3>1. PICK h \in handles[u] : /\ Open(h.ep)
                                  /\ Post(h.ep, Message("disconnect", u))
      BY <2>4 DEF DisconnectRpc
    <3>2. h.ep \in Endpoints
      BY DEF Types, Handles
    <3> QED
      BY <2>1, <3>1, <3>2, MessageTypes
  <2>5. CASE Dies(u)
    <3>1. CASE dnrequest[u] # NULL /\ Open(dnrequest[u])
      <4>1. dnrequest[u] \in Endpoints
        BY <3>1 DEF Types
      <4> QED
        BY <2>1, <2>5, <3>1, <4>1, MessageTypes DEF Dies
    <3>2. CASE ~(dnrequest[u] # NULL /\ Open(dnrequest[u]))
      BY <2>5, <3>2, SameQueued DEF Dies
    <3> QED
      BY <3>1, <3>2
  <2> QED
    BY <2>2, <2>3, <2>4, <2>5
<1>4. RequestOK(e, t) /\ (DeadKnown(e, t) => DeadKnown(e, t)')
  BY <1>2, <1>3 DEF RequestInv, DeadKnown
<1>5. CASE ~(Dies(u) /\ t = u)
  <2>1. alive'[t] = alive[t] /\ dnrequest'[t] = dnrequest[t]
    BY <1>5 DEF Connect, Disconnect, DisconnectRpc, Dies, kernelVars, Types
  <2> QED
    BY <1>1, <1>2, <1>4, <2>1, RequestFrame
<1>6. CASE Dies(u) /\ t = u
  <2> SUFFICES ASSUME ~superseded[u], Of(e, u) # {} PROVE RequestOK(e, u)'
    BY <1>1, <1>2, <1>6 DEF RequestOK
  <2>1. alive[u] /\ ~alive'[u]
    BY <1>6 DEF Dies, Types
  <2>2. dnrequest[u] = e /\ Open(e) /\ e # NULL
    BY <1>4, <1>6, <2>1, EndpointAssumption DEF RequestOK, ThreadInv, ThreadOK, Of
  <2>3. Post(e, Message("dead", u)) /\ Message("dead", u) \in Messages
    BY <1>6, <2>2, MessageTypes DEF Dies
  <2>4. Len(queue[e]) + 1 \in Nat
    BY <2>2 DEF Open, Types
  <2>5. \E i \in Nat : Queued(e, i, "dead", u)'
    <3> DEFINE n == Len(queue[e]) + 1
    <3>1. PICK m \in Nat : m = n
      BY <2>4
    <3>2. Queued(e, m, "dead", u)'
      BY <2>2, <2>3, <3>1, PostQueued
    <3> QED
      BY <3>2
  <2> QED
    BY <1>1, <1>2, <1>4, <1>6, <2>1, <2>5 DEF RequestOK, DeadKnown
<1> QED
  BY <1>5, <1>6

\* A step of the thread of e that releases one reference at most, and learns
\* of no death.
LEMMA RequestThread ==
  ASSUME Types, RefInv, RequestInv, NEW e \in Endpoints,
         UNCHANGED <<alive, superseded, queue>>,
         thread[e].pc # "dead",
         \A x \in Endpoints : x # e => thread'[x] = thread[x],
         \A x \in Endpoints, s \in Tasks : Of(x, s)' \subseteq Of(x, s),
         \/ UNCHANGED dnrequest
         \/ \E u \in Tasks : Deallocate(u, 1) /\ Holder(e, 0, u)
  PROVE  RequestInv'
<1> SUFFICES ASSUME NEW t \in Tasks, NEW f \in Endpoints PROVE RequestOK(f, t)'
  BY DEF RequestInv
<1>1. DeadKnown(f, t) => DeadKnown(f, t)'
  <2>1. Serving(f, {"dead"}, t) => Serving(f, {"dead"}, t)'
    BY DEF Serving
  <2> QED
    BY <2>1, SameQueued DEF DeadKnown
<1>2. Of(f, t)' # {} => dnrequest'[t] = dnrequest[t]
  <2>1. CASE UNCHANGED dnrequest
    BY <2>1
  <2>2. ASSUME NEW u \in Tasks, Deallocate(u, 1), Holder(e, 0, u), Of(f, t)' # {}
        PROVE  dnrequest'[t] = dnrequest[t]
    <3>1. CASE t # u
      BY <2>2, <3>1 DEF Deallocate, Types
    <3>2. CASE t = u
      <4>1. PICK i \in Of(f, t) : TRUE
        BY <2>2
      <4>2. i \in HKeys /\ i # 0 /\ Holder(f, i, t) /\ 0 \in HKeys
        BY HolderKeys DEF Holder
      <4> QED
        BY <2>2, <3>2, <4>2, RequestKept
    <3> QED
      BY <3>1, <3>2
  <2> QED
    BY <2>1, <2>2
<1> QED
  BY <1>1, <1>2, RequestFrame DEF RequestInv

LEMMA RequestGiveUp ==
  ASSUME Types, ThreadInv, RefInv, RequestInv, NEW e \in Endpoints,
         thread[e].pc \in SetUp \cup {"connect"},
         NEW unmap, NEW destroy, GiveUp(e, unmap, destroy)
  PROVE  RequestInv'
<1>1. /\ UNCHANGED <<alive, superseded, queue, conns>> /\ thread[e].pc # "dead"
      /\ \A x \in Endpoints : x # e => thread'[x] = thread[x]
  BY DoneTypes DEF GiveUp, epVars, SetUp
<1>2. \A x \in Endpoints, s \in Tasks : Of(x, s)' \subseteq Of(x, s)
  BY <1>1 DEF Of, Active
<1>3. \/ UNCHANGED dnrequest
      \/ \E u \in Tasks : Deallocate(u, 1) /\ Holder(e, 0, u)
  <2>1. thread[e].task \in Tasks
    BY DEF ThreadInv, ThreadOK, SetUp
  <2>2. thread[e].right => Holder(e, 0, thread[e].task)
    BY DEF Holder, Serving
  <2> QED
    BY <2>1, <2>2 DEF GiveUp, DestroyRequest
<1> QED
  BY <1>1, <1>2, <1>3, RequestThread

\* The other steps of the connect handler, and the reactor's.
LEMMA RequestSame ==
  ASSUME Types, ThreadInv, RefInv, RequestInv, NEW e \in Endpoints,
         \/ Share(e, "share_fwd", "share_rev", thread[e].fwd)
         \/ Share(e, "share_rev", "notify", thread[e].rev)
         \/ Reply(e) \/ PumpTimeout(e) \/ Event(e) \/ Drained(e)
         \/ thread[e].pc # "dead" /\ \E c \in Threads : Create(e, c)
  PROVE  RequestInv'
<1>1. UNCHANGED <<alive, superseded, queue, conns, dnrequest>> /\ thread[e].pc # "dead"
  BY DEF Share, Reply, PumpTimeout, Event, Drained, Create, kernelVars, epVars, At
<1>2. \A x \in Endpoints : x # e => thread'[x] = thread[x]
  BY DoneTypes, TurnTypes DEF Share, Reply, PumpTimeout, Event, Create, Types
<1>3. \A x \in Endpoints, s \in Tasks : Of(x, s)' \subseteq Of(x, s)
  BY <1>1 DEF Of, Active
<1> QED
  BY <1>1, <1>2, <1>3, RequestThread

\* A request replaces no other, or is recorded as having done so.
LEMMA RequestRegisters ==
  ASSUME Types, ThreadInv, RequestInv, NEW e \in Endpoints, Registers(e)
  PROVE  RequestInv'
<1> SUFFICES ASSUME NEW t \in Tasks, NEW f \in Endpoints PROVE RequestOK(f, t)'
  BY DEF RequestInv
<1>1. PICK i \in Idx, u \in Tasks :
        /\ i = thread[e].slot /\ u = thread[e].task
        /\ conns'[e][i].task = u
        /\ \A x \in Endpoints, j \in Idx :
             x # e \/ j # i => conns'[x][j] = conns[x][j]
  <2>1. /\ thread[e].slot \in Idx /\ thread[e].task \in Tasks
        /\ conns'[e][thread[e].slot] =
             Conn(thread[e].task, thread[e].fwd, thread[e].rev)
        /\ \A x \in Endpoints, j \in Idx :
             x # e \/ j # thread[e].slot => conns'[x][j] = conns[x][j]
    BY StoreTypes DEF Registers
  <2>2. conns'[e][thread[e].slot].task = thread[e].task
    BY <2>1 DEF Conn
  <2> QED
    BY <2>1, <2>2
<1>2. Of(f, t)' \subseteq Of(f, t) \cup IF f = e /\ t = u THEN {i} ELSE {}
  BY <1>1 DEF Of, Active
<1>3. /\ UNCHANGED alive /\ alive[u] /\ dnrequest'[u] = e
      /\ superseded'[u] = (superseded[u] \/ (dnrequest[u] # NULL /\ Of(dnrequest[u], u) # {}))
      /\ \A s \in Tasks : s # u => /\ dnrequest'[s] = dnrequest[s]
                                   /\ superseded'[s] = superseded[s]
  BY <1>1 DEF Registers, RequestNotification, Types
<1>4. RequestOK(f, t)
  BY DEF RequestInv
<1>5. CASE t # u
  <2>1. Serving(f, {"dead"}, t) => Serving(f, {"dead"}, t)'
    <3>1. thread[e].pc # "dead" /\ \A x \in Endpoints : x # e => thread'[x] = thread[x]
      BY DEF Registers, At, Types
    <3> QED
      BY <3>1 DEF Serving
  <2>2. \A n \in Nat : Queued(f, n, "dead", t) => Queued(f, n, "dead", t)'
    BY RegistersQueued DEF Kinds
  <2>3. DeadKnown(f, t) => DeadKnown(f, t)'
    BY <2>1, <2>2 DEF DeadKnown
  <2> QED
    BY <1>2, <1>3, <1>4, <1>5, <2>3, RequestFrame
<1>6. CASE t = u
  <2>1. CASE superseded'[u]
    BY <1>6, <2>1 DEF RequestOK
  <2>2. CASE ~superseded'[u]
    <3>1. Of(f, u) = {}
      BY <1>3, <1>4, <1>6, <2>2, EndpointAssumption DEF RequestOK
    <3>2. Of(f, u)' \subseteq {i} /\ (f # e => Of(f, u)' = {})
      BY <1>2, <1>6, <3>1
    <3> QED
      BY <1>3, <1>6, <3>2 DEF RequestOK
  <2> QED
    BY <2>1, <2>2
<1> QED
  BY <1>5, <1>6

\* The slots after a handler has cleared one of S.
LEMMA OfCleared ==
  ASSUME Types, Counted, NEW e \in Endpoints, NEW u, NEW S, S \subseteq Of(e, u),
         IF S = {} THEN UNCHANGED conns ELSE Clear(e, Min(S))
  PROVE  /\ \A x \in Endpoints, s \in Tasks : Of(x, s)' \subseteq Of(x, s)
         /\ S # {} /\ (\A i, j \in Of(e, u) : i = j) => Of(e, u)' = {}
<1>1. CASE S = {}
  BY <1>1 DEF Of, Active
<1>2. CASE S # {}
  <2> DEFINE i == Min(S)
  <2>1. S \subseteq Nat
    BY DEF Of, Active, Idx
  <2>2. i \in S /\ i \in Active(e)
    BY <1>2, <2>1, MinMember DEF Of
  <2>3. Clear(e, i)
    BY <1>2
  <2> HIDE DEF i
  <2>4. /\ conns'[e][i] = NULL
        /\ \A x \in Endpoints, j \in Idx : x # e \/ j # i => conns'[x][j] = conns[x][j]
    BY <2>2, <2>3, ClearTypes
  <2>5. \A x \in Endpoints, s \in Tasks : Of(x, s)' \subseteq Of(x, s)
    BY <2>4 DEF Of, Active
  <2>6. Of(e, u)' \subseteq Of(e, u) \ {i}
    BY <2>4 DEF Of, Active
  <2> QED
    BY <2>2, <2>5, <2>6
<1> QED
  BY <1>1, <1>2

LEMMA RequestCleanupDead ==
  ASSUME Types, Counted, ThreadInv, RequestInv, NEW e \in Endpoints, CleanupDead(e)
  PROVE  RequestInv'
<1> SUFFICES ASSUME NEW t \in Tasks, NEW f \in Endpoints PROVE RequestOK(f, t)'
  BY DEF RequestInv
<1>1. PICK u \in Tasks : u = thread[e].task /\ ~alive[u] /\ Deallocate(u, 1)
  BY DEF CleanupDead, At, ThreadInv, ThreadOK
<1>2. /\ UNCHANGED <<alive, superseded, queue>>
      /\ \A x \in Endpoints : x # e => thread'[x] = thread[x]
  BY DoneTypes DEF CleanupDead
<1>3. IF Of(e, u) = {} THEN UNCHANGED conns ELSE Clear(e, Min(Of(e, u)))
  BY <1>1 DEF CleanupDead, SlotOf
<1>4. /\ Of(f, t)' \subseteq Of(f, t)
      /\ Of(e, u) # {} /\ (\A i, j \in Of(e, u) : i = j) => Of(e, u)' = {}
  <2> DEFINE S == Of(e, u)
  <2>1. S \subseteq Of(e, u) /\ IF S = {} THEN UNCHANGED conns ELSE Clear(e, Min(S))
    BY <1>3
  <2> HIDE DEF S
  <2> QED
    BY <2>1, OfCleared DEF S
<1>5. RequestOK(f, t)
  BY DEF RequestInv
<1>6. CASE t = u /\ f = e
  BY <1>2, <1>4, <1>5, <1>6 DEF RequestOK
<1>7. CASE ~(t = u /\ f = e)
  <2>1. DeadKnown(f, t) => DeadKnown(f, t)'
    <3>1. Serving(f, {"dead"}, t) => Serving(f, {"dead"}, t)'
      BY <1>1, <1>2, <1>7 DEF Serving
    <3> QED
      BY <1>2, <3>1, SameQueued DEF DeadKnown
  <2>2. alive[t] => dnrequest'[t] = dnrequest[t]
    BY <1>1 DEF Deallocate, Types
  <2> QED
    BY <1>2, <1>4, <1>5, <2>1, <2>2, RequestFrame
<1> QED
  BY <1>6, <1>7

LEMMA RequestDisconnectHandler ==
  ASSUME Types, Counted, ThreadInv, RefInv, RequestInv, NEW e \in Endpoints,
         DisconnectHandler(e)
  PROVE  RequestInv'
<1>1. PICK u \in Tasks : u = thread[e].task
  BY DEF DisconnectHandler, At, ThreadInv, ThreadOK
<1>2. /\ UNCHANGED <<alive, superseded, queue>> /\ thread[e].pc = "disconnect"
      /\ \A x \in Endpoints : x # e => thread'[x] = thread[x]
  BY DoneTypes DEF DisconnectHandler, At
<1> DEFINE S == IF thread[e].right THEN SlotOf(e, u) ELSE {}
<1>3. S \subseteq Of(e, u) /\ IF S = {} THEN UNCHANGED conns ELSE Clear(e, Min(S))
  BY <1>1 DEF DisconnectHandler, SlotOf
<1>4. \A x \in Endpoints, s \in Tasks : Of(x, s)' \subseteq Of(x, s)
  <2> HIDE DEF S
  <2> QED
    BY <1>3, OfCleared
<1>5. \/ UNCHANGED dnrequest
      \/ \E s \in Tasks : Deallocate(s, 1) /\ Holder(e, 0, s)
  <2>1. UNCHANGED dnrequest \/ (Deallocate(u, 1) /\ thread[e].right)
    BY <1>1 DEF DisconnectHandler, DestroyRequest
  <2>2. thread[e].right => Holder(e, 0, u)
    BY <1>1, <1>2 DEF Holder, Serving
  <2> QED
    BY <2>1, <2>2
<1> QED
  BY <1>2, <1>4, <1>5, RequestThread

LEMMA RequestReceive ==
  ASSUME Types, ThreadInv, RequestInv, NEW e \in Endpoints, Receive(e)
  PROVE  RequestInv'
<1> SUFFICES ASSUME NEW t \in Tasks, NEW f \in Endpoints PROVE RequestOK(f, t)'
  BY DEF RequestInv
<1>1. /\ UNCHANGED <<alive, superseded, conns, dnrequest>> /\ thread[e].pc = "idle"
      /\ \A x \in Endpoints : x # e => thread'[x] = thread[x]
  BY TypesReceive DEF Receive, CanReceive, At
<1>2. PICK u \in Tasks, k \in {"connect", "dead", "disconnect", "send_once"} :
        /\ Queued(e, 1, k, u)
        /\ thread'[e].pc = IF k # "send_once" THEN k
                           ELSE IF e \in Reactors THEN "event" ELSE "idle"
        /\ k # "send_once" => thread'[e].task = u
  BY ReceiveMessage
<1>3. Of(f, t)' = Of(f, t)
  BY <1>1 DEF Of, Active
<1>4. ASSUME DeadKnown(f, t) PROVE DeadKnown(f, t)'
  <2>1. CASE f # e
    <3>1. Serving(f, {"dead"}, t) => Serving(f, {"dead"}, t)'
      BY <1>1, <2>1 DEF Serving
    <3>2. \A i \in Nat : Queued(f, i, "dead", t) => Queued(f, i, "dead", t)'
      BY <2>1, TailQueued
    <3> QED
      BY <1>4, <3>1, <3>2 DEF DeadKnown
  <2>2. CASE f = e
    <3>1. PICK i \in Nat : Queued(e, i, "dead", t)
      BY <1>1, <1>4, <2>2 DEF DeadKnown, Serving
    <3>2. i # 0
      BY <3>1, TailQueued
    <3>3. CASE i = 1
      <4>1. k = "dead" /\ u = t
        BY <1>2, <3>1, <3>3, MessagesDiffer DEF Queued
      <4> QED
        BY <1>2, <2>2, <4>1 DEF DeadKnown, Serving
    <3>4. CASE i # 1
      <4>1. PICK n \in Nat : i = n + 1 /\ n # 0
        <5>1. i - 1 \in Nat /\ i = (i - 1) + 1 /\ i - 1 # 0
          BY <3>2, <3>4
        <5> QED
          BY <5>1
      <4>2. Queued(e, n, "dead", t)'
        BY <3>1, <4>1, TailQueued
      <4> QED
        BY <2>2, <4>2 DEF DeadKnown
    <3> QED
      BY <3>3, <3>4
  <2> QED
    BY <2>1, <2>2
<1> QED
  BY <1>1, <1>3, <1>4, RequestFrame DEF RequestInv

LEMMA RequestDestroy ==
  ASSUME Types, ThreadInv, RefInv, RequestInv, NEW e \in Endpoints, Destroy(e)
  PROVE  RequestInv'
<1> SUFFICES ASSUME NEW t \in Tasks, NEW f \in Endpoints PROVE RequestOK(f, t)'
  BY DEF RequestInv
<1>1. /\ UNCHANGED <<alive, superseded, thread>>
      /\ \A x \in Endpoints : x # e => conns'[x] = conns[x] /\ queue'[x] = queue[x]
      /\ \A i \in Idx : conns'[e][i] = NULL
  BY DEF Destroy, Types
<1>2. CASE f = e
  BY <1>1, <1>2 DEF RequestOK, Of, Active
<1>3. CASE f # e
  <2>1. Of(f, t)' = Of(f, t)
    BY <1>1, <1>3 DEF Of, Active
  <2>2. Serving(f, {"dead"}, t) => Serving(f, {"dead"}, t)'
    BY <1>1 DEF Serving
  <2>3. \A i : Queued(f, i, "dead", t) <=> Queued(f, i, "dead", t)'
    BY <1>1, <1>3, SameQueued
  <2>4. Of(f, t)' # {} => dnrequest'[t] = dnrequest[t]
    <3> SUFFICES ASSUME Of(f, t)' # {} PROVE dnrequest'[t] = dnrequest[t]
      OBVIOUS
    <3>1. PICK i \in HKeys : Holder(f, i, t)'
      BY <2>1, HolderKeys DEF Holder
    <3>2. HoldersOf(t)' # {}
      BY <3>1, HoldersFinite
    <3>3. Cardinality(HoldersOf(t)') # 0
      BY <3>2, HoldersFinite, FS_EmptySet
    <3>4. urefs'[t] # 0
      BY <3>3, RefDestroy, HoldersFinite DEF RefInv
    <3> QED
      BY <3>4 DEF Destroy
  <2> QED
    BY <1>1, <2>1, <2>2, <2>3, <2>4, RequestFrame DEF RequestInv, DeadKnown
<1> QED
  BY <1>2, <1>3

-----------------------------------------------------------------------------
(* The reactors. *)

LEMMA ToldFrame ==
  ASSUME NEW f, conns'[f] = conns[f], thread'[f] = thread[f],
         pending_conn_idx'[f] = pending_conn_idx[f],
         pending_dead'[f] = pending_dead[f]
  PROVE  Told(f)' = Told(f)
<1>1. Active(f)' = Active(f)
  BY DEF Active
<1>2. DeadEvent(f)' = DeadEvent(f)
  BY DEF DeadEvent, At
<1>3. {Pair(conns'[f][i].fwd, conns'[f][i].rev) : i \in Active(f) \ {pending_conn_idx[f]}}
      = {Pair(conns[f][i].fwd, conns[f][i].rev) : i \in Active(f) \ {pending_conn_idx[f]}}
  OBVIOUS
<1> QED
  BY <1>1, <1>2, <1>3 DEF Told, Pair

\* A step that leaves a reactor what it polls: what it has been told of stays so
\* or goes, and no new channel is one that it polls.
LEMMA PollFrame ==
  ASSUME NEW f \in Reactors, PollOK(f),
         served'[f] = served[f], pollset'[f] = pollset[f],
         \A p \in served[f] :
           /\ p \in Told(f) => p \in Told(f)' \/ ChannelsOf(p) \cap live' = {}
           /\ ChannelsOf(p) \cap live' \subseteq live
  PROVE  PollOK(f)'
<1>1. pollset'[f] \subseteq {p.rev : p \in served'[f]}
  BY DEF PollOK
<1>2. ASSUME NEW p \in served'[f] \ Told(f)' PROVE ChannelsOf(p) \cap live' = {}
  <2>1. p \in served[f] /\ p \notin Told(f)'
    OBVIOUS
  <2>2. CASE p \in Told(f)
    BY <2>1, <2>2
  <2>3. CASE p \notin Told(f)
    BY <2>1, <2>3 DEF PollOK
  <2> QED
    BY <2>2, <2>3
<1> QED
  BY <1>1, <1>2 DEF PollOK, ChannelsOf

\* A step of the thread of e that changes no pollset, with what it does to the
\* events and slots of e itself given.
LEMMA PollServer ==
  ASSUME Types, PollInv, NEW e \in Endpoints, UNCHANGED <<served, pollset>>,
         \A f \in Reactors : \A p \in served[f] : ChannelsOf(p) \cap live' \subseteq live,
         \A x \in Endpoints : x # e =>
            /\ thread'[x] = thread[x] /\ conns'[x] = conns[x]
            /\ pending_conn_idx'[x] = pending_conn_idx[x]
            /\ pending_dead'[x] = pending_dead[x],
         e \in Reactors => \A p \in Told(e) :
            p \in Told(e)' \/ ChannelsOf(p) \cap live' = {}
  PROVE  PollInv'
<1> SUFFICES ASSUME NEW f \in Reactors PROVE PollOK(f)'
  BY DEF PollInv
<1>1. f \in Endpoints /\ PollOK(f)
  BY EndpointAssumption DEF PollInv
<1>2. f # e => Told(f)' = Told(f)
  BY <1>1, ToldFrame
<1> QED
  BY <1>1, <1>2, PollFrame

\* A step that changes nothing of the slots, the events and the channels.
LEMMA PollSame ==
  ASSUME PollInv,
         UNCHANGED <<conns, thread, pending_conn_idx, pending_dead, served, pollset, live>>
  PROVE  PollInv'
<1> SUFFICES ASSUME NEW f \in Reactors PROVE PollOK(f)'
  BY DEF PollInv
<1>1. PollOK(f) /\ Told(f)' = Told(f)
  BY ToldFrame DEF PollInv
<1> QED
  BY <1>1, PollFrame

LEMMA PollClient ==
  ASSUME PollInv, NEW u \in Tasks,
         \/ \E e \in Endpoints : Connect(u, e)
         \/ Disconnect(u) \/ DisconnectRpc(u) \/ Dies(u)
  PROVE  PollInv'
<1>1. UNCHANGED <<conns, thread, pending_conn_idx, pending_dead, served, pollset, live>>
  BY DEF Connect, Disconnect, DisconnectRpc, Dies, epVars, serverVars
<1> QED
  BY <1>1, PollSame

\* A step of the thread of e that changes no slot and has no dead client to
\* report, before or after.
LEMMA PollQuiet ==
  ASSUME Types, PollInv, NEW e \in Endpoints, UNCHANGED <<conns, served, pollset>>,
         \A f \in Reactors : \A p \in served[f] : ChannelsOf(p) \cap live' \subseteq live,
         \A x \in Endpoints : x # e =>
            /\ thread'[x] = thread[x]
            /\ pending_conn_idx'[x] = pending_conn_idx[x]
            /\ pending_dead'[x] = pending_dead[x],
         pending_conn_idx'[e] = pending_conn_idx[e],
         At(e, "event") => pending_dead[e] = NULL
  PROVE  PollInv'
<1>1. DeadEvent(e) = {} /\ Active(e)' = Active(e)
  BY DEF DeadEvent, Active
<1>2. \A p \in Told(e) : p \in Told(e)'
  BY <1>1 DEF Told, Pair
<1> QED
  BY <1>2, PollServer

LEMMA PollGiveUp ==
  ASSUME Types, PendingInv, PollInv, NEW e \in Endpoints,
         thread[e].pc \in SetUp \cup {"connect"},
         NEW unmap, NEW destroy, GiveUp(e, unmap, destroy)
  PROVE  PollInv'
<1>1. /\ UNCHANGED <<conns, served, pollset, pending_conn_idx, pending_dead>>
      /\ \A x \in Endpoints : x # e => thread'[x] = thread[x]
  BY DoneTypes DEF GiveUp, epVars
<1>2. live' \subseteq live
  BY DEF GiveUp
<1>3. ~At(e, "event")
  BY DEF SetUp, At
<1> QED
  BY <1>1, <1>2, <1>3, PollQuiet

\* A new channel is not one that a reactor polls.
LEMMA NewChannelUnpolled ==
  ASSUME Unused # {}, NEW f \in Reactors, NEW p \in served[f]
  PROVE  NewChannel \notin ChannelsOf(p)
<1>1. Unused \subseteq Nat
  BY EndpointAssumption DEF Unused, Channels
<1>2. NewChannel \in Unused
  BY <1>1, MinMember DEF NewChannel
<1> DEFINE P == UNION {Polled(g) : g \in Reactors}
<1>3. NewChannel \notin P
  BY <1>2 DEF Unused
<1>4. Polled(f) \subseteq P
  OBVIOUS
<1> QED
  BY <1>3, <1>4 DEF Polled

LEMMA PollConnecting ==
  ASSUME Types, PendingInv, PollInv, NEW e \in Endpoints, thread[e].pc \in Connecting,
         \/ \E c \in Threads : Create(e, c)
         \/ Share(e, "share_fwd", "share_rev", thread[e].fwd)
         \/ Share(e, "share_rev", "notify", thread[e].rev)
         \/ Reply(e)
  PROVE  PollInv'
<1>1. /\ UNCHANGED <<conns, served, pollset, pending_conn_idx, pending_dead>>
      /\ \A x \in Endpoints : x # e => thread'[x] = thread[x]
      /\ live' = live \/ (Unused # {} /\ live' = live \cup {NewChannel})
  <2>1. CASE \E c \in Threads : Create(e, c)
    BY <2>1 DEF Create, epVars, Types
  <2>2. CASE \/ Share(e, "share_fwd", "share_rev", thread[e].fwd)
             \/ Share(e, "share_rev", "notify", thread[e].rev)
    BY <2>2 DEF Share, epVars, Types
  <2>3. CASE Reply(e)
    BY <2>3, DoneTypes DEF Reply, epVars
  <2> QED
    BY <2>1, <2>2, <2>3
<1>2. \A f \in Reactors : \A p \in served[f] : ChannelsOf(p) \cap live' \subseteq live
  BY <1>1, NewChannelUnpolled
<1>3. ~At(e, "event")
  BY DEF Connecting, SetUp, At
<1> QED
  BY <1>1, <1>2, <1>3, PollQuiet

LEMMA PollReceive ==
  ASSUME Types, PendingInv, PollInv, NEW e \in Endpoints,
         Receive(e) \/ PumpTimeout(e)
  PROVE  PollInv'
<1>1. /\ UNCHANGED <<conns, served, pollset, live>> /\ thread[e].pc = "idle"
      /\ \A x \in Endpoints : x # e => thread'[x] = thread[x]
  BY TypesReceive, TurnTypes DEF Receive, CanReceive, PumpTimeout, At
<1>2. ResetPending(e)
  BY DEF Receive, PumpTimeout
<1>3. /\ \A x \in Endpoints : x # e =>
           /\ pending_conn_idx'[x] = pending_conn_idx[x]
           /\ pending_dead'[x] = pending_dead[x]
      /\ pending_conn_idx'[e] = 0
  BY <1>2 DEF ResetPending, Types
<1>4. pending_conn_idx[e] = 0
  BY <1>1 DEF PendingInv, PendingOK
<1> QED
  BY <1>1, <1>3, <1>4, PollQuiet DEF At

LEMMA PollDrained ==
  ASSUME Types, PollInv, NEW e \in Endpoints, Drained(e)
  PROVE  PollInv'
<1>1. /\ UNCHANGED <<conns, pending_conn_idx, pending_dead, served, pollset, live>>
      /\ \A x \in Endpoints : x # e => thread'[x] = thread[x]
      /\ ~At(e, "event")
  BY DEF Drained, epVars, Types, At
<1> QED
  BY <1>1, PollQuiet

\* The channels of an endpoint that is no reactor's.
LEMMA PollDestroy ==
  ASSUME Types, PollInv, NEW e \in Endpoints, Destroy(e)
  PROVE  PollInv'
<1>1. /\ e \notin Reactors /\ live' \subseteq live
      /\ UNCHANGED <<pending_conn_idx, pending_dead, served, pollset, thread>>
      /\ \A x \in Endpoints : x # e => conns'[x] = conns[x]
  BY DEF Destroy, Types
<1> QED
  BY <1>1, PollServer

\* A slot that is cleared: its channels are gone or become the event.
LEMMA PollCleared ==
  ASSUME Types, PendingInv, PollInv, NEW e \in Endpoints, NEW i \in Active(e),
         thread[e].pc \in {"dead", "disconnect"},
         Clear(e, i), UNCHANGED <<pending_conn_idx, served, pollset>>,
         live' \subseteq live,
         \A x \in Endpoints : x # e =>
           thread'[x] = thread[x] /\ pending_dead'[x] = pending_dead[x],
         e \in Reactors => \/ ChannelsOf(conns[e][i]) \cap live' = {}
                           \/ Pair(conns[e][i].fwd, conns[e][i].rev) \in DeadEvent(e)'
  PROVE  PollInv'
<1>1. /\ \A x \in Endpoints : x # e => conns'[x] = conns[x]
      /\ i \in Idx /\ conns'[e][i] = NULL
      /\ \A j \in Idx : j # i => conns'[e][j] = conns[e][j]
  BY ClearTypes DEF Active, Clear, Types
<1>2. DeadEvent(e) = {} /\ pending_conn_idx[e] = 0
  BY DEF DeadEvent, At, PendingInv, PendingOK
<1>3. ASSUME e \in Reactors, NEW p \in Told(e)
      PROVE  p \in Told(e)' \/ ChannelsOf(p) \cap live' = {}
  <2>1. PICK j \in Active(e) : p = Pair(conns[e][j].fwd, conns[e][j].rev)
    BY <1>2, <1>3 DEF Told
  <2>2. CASE j # i
    <3>1. j \in Active(e)' /\ conns'[e][j] = conns[e][j] /\ j # pending_conn_idx'[e]
      BY <1>1, <1>2, <2>2 DEF Active, Idx
    <3>2. p = Pair(conns'[e][j].fwd, conns'[e][j].rev)
      BY <2>1, <3>1
    <3> QED
      BY <3>1, <3>2 DEF Told, Pair
  <2>3. CASE j = i
    <3>1. ChannelsOf(p) = ChannelsOf(conns[e][i])
      BY <2>1, <2>3 DEF ChannelsOf, Pair
    <3> QED
      BY <1>3, <2>1, <2>3, <3>1 DEF Told
  <2> QED
    BY <2>2, <2>3
<1> QED
  BY <1>1, <1>3, PollServer

LEMMA PollHandled ==
  ASSUME Types, PendingInv, PollInv, NEW e \in Endpoints,
         CleanupDead(e) \/ DisconnectHandler(e)
  PROVE  PollInv'
<1> DEFINE t == thread[e].task
           i == Min(Of(e, t))
           c == conns[e][i]
<1>1. /\ HandlerDone(e) /\ thread[e].pc \in {"dead", "disconnect"}
      /\ UNCHANGED <<pending_conn_idx, served, pollset>>
  BY DEF CleanupDead, DisconnectHandler, At
<1>2. \A x \in Endpoints : x # e => thread'[x] = thread[x]
  BY <1>1, DoneTypes
<1>3. CASE UNCHANGED <<live, conns, pending_dead>>
  BY <1>1, <1>2, <1>3, PollQuiet DEF At
<1>4. CASE /\ Of(e, t) # {} /\ Clear(e, i) /\ UNCHANGED pending_dead
           /\ live' = live \ ChannelsOf(c)
  <2>1. i \in Active(e)
    BY <1>4, SlotPicked DEF Of
  <2> HIDE DEF i
  <2> QED
    BY <1>1, <1>2, <1>4, <2>1, PollCleared
<1>5. CASE Of(e, t) # {} /\ Clear(e, i) /\ DisposeDead(e, c)
  <2>1. i \in Active(e)
    BY <1>5, SlotPicked DEF Of
  <2> HIDE DEF i
  <2>2. /\ live' \subseteq live
        /\ \A x \in Endpoints : x # e => pending_dead'[x] = pending_dead[x]
    BY <1>5 DEF DisposeDead, Types
  <2>3. ASSUME e \in Reactors PROVE Pair(c.fwd, c.rev) \in DeadEvent(e)'
    <3>1. pending_dead'[e] = Pair(c.fwd, c.rev)
      BY <1>5, <2>3 DEF DisposeDead, Types
    <3>2. c \in Conns
      BY <2>1 DEF Types, Active
    <3>3. Pair(c.fwd, c.rev) \in Pairs
      BY <3>2 DEF Pair, Pairs, Conns
    <3>4. thread'[e].pc = "event"
      BY <1>1, <2>3, DoneTypes
    <3> QED
      BY <3>1, <3>3, <3>4, EndpointAssumption DEF DeadEvent, At
  <2> QED
    BY <1>1, <1>2, <1>5, <2>1, <2>2, <2>3, PollCleared
<1> QED
  BY <1>3, <1>4, <1>5 DEF CleanupDead, DisconnectHandler, SlotOf

LEMMA PollRegisters ==
  ASSUME Types, ThreadInv, PendingInv, PollInv, NEW e \in Endpoints, Registers(e)
  PROVE  PollInv'
<1>1. At(e, "notify") /\ Store(e)
  BY DEF Registers
<1>2. PICK i \in Idx : i = thread[e].slot
  BY <1>1, StoreTypes
<1>3. /\ conns[e][i] = NULL /\ conns'[e][i] # NULL
      /\ \A x \in Endpoints, j \in Idx : x # e \/ j # i => conns'[x][j] = conns[x][j]
  BY <1>1, <1>2, StoreTypes
<1>4. /\ UNCHANGED <<served, pollset, pending_dead, live>>
      /\ \A x \in Endpoints : x # e => thread'[x] = thread[x]
      /\ \A x \in Endpoints : x # e => pending_conn_idx'[x] = pending_conn_idx[x]
      /\ \A x \in Endpoints : x # e => conns'[x] = conns[x]
  BY DEF Registers, Store, Types
<1>5. e \in Reactors => pending_conn_idx'[e] = i
  BY <1>1, <1>2 DEF Store, Types
<1>6. DeadEvent(e) = {} /\ pending_conn_idx[e] = 0
  BY <1>1 DEF PendingInv, PendingOK, At, DeadEvent
<1>7. ASSUME e \in Reactors, NEW p \in Told(e) PROVE p \in Told(e)'
  <2>1. PICK j \in Active(e) : p = Pair(conns[e][j].fwd, conns[e][j].rev)
    BY <1>6, <1>7 DEF Told
  <2>2. j # i /\ conns'[e][j] = conns[e][j] /\ j \in Active(e)' /\ pending_conn_idx'[e] # j
    BY <1>3, <1>5, <1>7 DEF Active
  <2>3. p = Pair(conns'[e][j].fwd, conns'[e][j].rev)
    BY <2>1, <2>2
  <2> QED
    BY <2>2, <2>3 DEF Told, Pair
<1> QED
  BY <1>4, <1>7, PollServer

\* No slot has a channel of the client that is reported dead.
LEMMA DeadApart ==
  ASSUME ThreadInv, PendingInv, OwnInv, NEW e \in Endpoints,
         At(e, "event"), pending_dead[e] # NULL
  PROVE  \A i \in Active(e) :
           ChannelsOf(conns[e][i]) \cap ChannelsOf(pending_dead[e]) = {}
<1> SUFFICES ASSUME NEW i \in Active(e)
             PROVE  ChannelsOf(conns[e][i]) \cap ChannelsOf(pending_dead[e]) = {}
  OBVIOUS
<1>1. i \in Idx /\ conns[e][i] # NULL
  BY DEF Active
<1>2. own[e][i] = ChannelsOf(conns[e][i]) /\ own[e][0] = InHand(e)
      /\ i \in Keys /\ 0 \in Keys /\ i # 0
  BY <1>1, OwnValue
<1>3. InHand(e) = ChannelsOf(pending_dead[e])
  BY InHandValue DEF At
<1>4. own[e][i] \cap own[e][0] = {}
  BY <1>2 DEF OwnInv, Sound, Keys
<1> QED
  BY <1>2, <1>3, <1>4

LEMMA PollEvent ==
  ASSUME Types, ThreadInv, PendingInv, OwnInv, PollInv, NEW e \in Endpoints, Event(e)
  PROVE  PollInv'
<1>1. /\ UNCHANGED <<conns, pending_dead>> /\ thread[e].pc = "event"
      /\ thread'[e].pc \in {"idle", "drain"} /\ pending_conn_idx'[e] = 0
      /\ \A x \in Endpoints : x # e =>
           /\ thread'[x] = thread[x] /\ pending_conn_idx'[x] = pending_conn_idx[x]
           /\ served'[x] = served[x] /\ pollset'[x] = pollset[x]
      /\ live' \subseteq live
  <2>1. /\ thread'[e].pc \in {"idle", "drain"}
        /\ \A x \in Endpoints : x # e => thread'[x] = thread[x]
    BY TurnTypes DEF Event
  <2> QED
    BY <2>1 DEF Event, EventNew, EventDead, At, Types
<1>2. PollOK(e) /\ e \in Reactors
  BY <1>1 DEF ThreadInv, ThreadOK, PollInv
<1> DEFINE P(i) == Pair(conns[e][i].fwd, conns[e][i].rev)
<1>3. Told(e)' = {P(i) : i \in Active(e)}
  <2>1. Active(e)' = Active(e) /\ DeadEvent(e)' = {}
    BY <1>1 DEF Active, DeadEvent, At
  <2>2. Active(e) \ {0} = Active(e)
    BY DEF Active, Idx
  <2> QED
    BY <1>1, <2>1, <2>2 DEF Told
<1>4. PollOK(e)'
  <2>1. CASE pending_conn_idx[e] # 0
    <3> DEFINE i == pending_conn_idx[e]
    <3>1. i \in Active(e) /\ DeadEvent(e) = {}
      BY <2>1 DEF PendingInv, PendingOK, DeadEvent
    <3>2. \/ served'[e] = served[e] \cup {P(i)} /\ pollset'[e] = pollset[e] \cup {P(i).rev}
          \/ served'[e] = served[e] /\ pollset'[e] = pollset[e]
      BY <2>1 DEF Event, EventNew, Types, Pair
    <3>3. P(i) \in Told(e)' /\ Told(e) \subseteq Told(e)'
      BY <1>3, <3>1 DEF Told
    <3> HIDE DEF P, i
    <3>4. pollset'[e] \subseteq {p.rev : p \in served'[e]}
      BY <1>2, <3>2 DEF PollOK
    <3>5. \A p \in served'[e] \ Told(e)' : ChannelsOf(p) \cap live' = {}
      BY <1>1, <1>2, <3>2, <3>3 DEF PollOK
    <3> QED
      BY <3>4, <3>5 DEF PollOK, ChannelsOf
  <2>2. CASE pending_conn_idx[e] = 0 /\ pending_dead[e] # NULL
    <3> DEFINE d == pending_dead[e]
    <3>1. EventDead(e, d)
      BY <2>2 DEF Event
    <3>2. /\ served'[e] = served[e] \ {d} /\ pollset'[e] = pollset[e] \ {d.rev}
          /\ live' = live \ ChannelsOf(d)
      BY <3>1 DEF EventDead, Types
    <3>3. Told(e) = Told(e)' \cup {d}
      <4>1. DeadEvent(e) = {d}
        BY <1>1, <2>2 DEF DeadEvent, At
      <4>2. Active(e) \ {0} = Active(e)
        BY DEF Active, Idx
      <4> QED
        BY <1>3, <2>2, <4>1, <4>2 DEF Told
    <3> HIDE DEF d
    <3>4. pollset'[e] \subseteq {p.rev : p \in served'[e]}
      <4> SUFFICES ASSUME NEW x \in pollset'[e] PROVE \E p \in served'[e] : x = p.rev
        OBVIOUS
      <4>1. PICK p \in served[e] : x = p.rev
        BY <1>2, <3>2 DEF PollOK
      <4> QED
        BY <3>2, <4>1
    <3>5. \A p \in served'[e] \ Told(e)' : ChannelsOf(p) \cap live' = {}
      BY <1>1, <1>2, <3>2, <3>3 DEF PollOK
    <3> QED
      BY <3>4, <3>5 DEF PollOK, ChannelsOf
  <2>3. CASE pending_conn_idx[e] = 0 /\ pending_dead[e] = NULL
    <3>1. DeadEvent(e) = {} /\ Active(e) \ {0} = Active(e)
      BY <2>3 DEF DeadEvent, Active, Idx
    <3>2. served'[e] = served[e] /\ pollset'[e] = pollset[e]
      BY <2>3 DEF Event
    <3>3. Told(e)' = Told(e)
      BY <1>3, <2>3, <3>1 DEF Told
    <3> QED
      BY <1>1, <1>2, <3>2, <3>3 DEF PollOK, ChannelsOf
  <2> QED
    BY <2>1, <2>2, <2>3
<1> SUFFICES ASSUME NEW f \in Reactors, f # e PROVE PollOK(f)'
  BY <1>4 DEF PollInv
<1>5. f \in Endpoints /\ PollOK(f)
  BY EndpointAssumption DEF PollInv
<1>6. Told(f)' = Told(f)
  BY <1>1, <1>5, ToldFrame
<1> QED
  BY <1>1, <1>5, <1>6, PollFrame

-----------------------------------------------------------------------------
(* The invariant holds initially, and every step keeps it. *)

LEMMA InvInit == Init => EndpointInv
<1> SUFFICES ASSUME Init PROVE EndpointInv
  OBVIOUS
<1>1. Types
  BY TypesInit
<1>2. \A e \in Endpoints :
        /\ thread[e] = Idle /\ pending_conn_idx[e] = 0 /\ pending_dead[e] = NULL
        /\ queue[e] = << >> /\ n_clients[e] = 0
        /\ \A i \in Idx : conns[e][i] = NULL
        /\ served[e] = {} /\ pollset[e] = {}
  BY DEF Init
<1>3. \A e \in Endpoints : thread[e].pc = "idle" /\ thread[e].task = NULL
                           /\ thread[e].fwd = 0 /\ thread[e].rev = 0
  BY <1>2 DEF Idle
<1>4. \A t \in Tasks : handles[t] = {} /\ mapped[t] = {} /\ alive[t] /\ urefs[t] = 0
                       /\ waiting[t] = NULL
  BY DEF Init
<1>5. \A e \in Endpoints : Open(e) /\ Active(e) = {}
  <2>1. << >> \in Seq(Messages)
    OBVIOUS
  <2> QED
    BY <1>2, <2>1, EndpointAssumption DEF Open, Active
<1>6. \A e \in Endpoints, t \in Tasks : Of(e, t) = {}
  BY <1>5 DEF Of
<1>7. \A e \in Endpoints, i \in Nat : \A k, t : ~Queued(e, i, k, t)
  BY <1>2 DEF Queued
<1>8. \A e \in Endpoints, t \in Tasks : \A pcs : ~Serving(e, pcs, t)
  BY <1>3, EndpointAssumption DEF Serving
<1>9. Counted
  BY <1>2, <1>5, FS_EmptySet DEF Counted
<1>10. ThreadInv
  BY <1>3, <1>5 DEF ThreadInv, ThreadOK, SetUp, Connecting
<1>11. PendingInv
  BY <1>2, <1>3 DEF PendingInv, PendingOK, At
<1>12. OwnInv
  <2>1. \A e \in Endpoints : own[e][0] = {}
    BY <1>3, OwnValue DEF InHand
  <2>2. \A e \in Endpoints, k \in Keys : own[e][k] = {}
    BY <1>2, <2>1, OwnValue
  <2>3. live = {}
    BY DEF Init
  <2> HIDE DEF own
  <2> QED
    BY <2>2, <2>3 DEF OwnInv, Sound, Keys
<1>13. MapInv
  BY <1>3, <1>4 DEF MapInv, SharedOK
<1>14. QueueInv
  BY <1>3, <1>4, <1>7, <1>8 DEF QueueInv, QueueOK, Holds
<1>15. RefInv
  <2> SUFFICES ASSUME NEW t \in Tasks PROVE urefs[t] >= Cardinality(HoldersOf(t))
    BY DEF RefInv
  <2>1. \A e \in Endpoints, k \in HKeys : ~Holder(e, k, t)
    BY <1>6, <1>7, <1>8 DEF Holder, DeadKnown
  <2>2. HoldersOf(t) = {}
    BY <2>1 DEF HoldersOf, HKeys
  <2> QED
    BY <1>4, <2>2, FS_EmptySet
<1>16. RequestInv
  BY <1>6 DEF RequestInv, RequestOK
<1>17. PollInv
  <2> SUFFICES ASSUME NEW e \in Reactors PROVE PollOK(e)
    BY DEF PollInv
  <2>1. e \in Endpoints
    BY EndpointAssumption
  <2> QED
    BY <1>2, <2>1 DEF PollOK
<1> QED
  BY <1>1, <1>9, <1>10, <1>11, <1>12, <1>13, <1>14, <1>15, <1>16, <1>17
  DEF EndpointInv

\* What a successful creation puts into the hands of the thread.
LEMMA CreatedThread ==
  ASSUME Types, Counted, NEW e \in Endpoints,
         \/ /\ At(e, "connect") /\ ~Full(e)
            /\ Create(e, [thread[e] EXCEPT !.pc = "rev", !.slot = FreeSlot(e),
                                           !.fwd = NewChannel])
         \/ /\ At(e, "rev")
            /\ Create(e, [thread[e] EXCEPT !.pc = "share_fwd", !.rev = NewChannel])
  PROVE  \E c \in Threads : /\ c.task = thread[e].task /\ c.right = thread[e].right
                            /\ c.pc \in SetUp /\ Create(e, c)
<1>1. thread[e] \in Threads
  BY DEF Types
<1>2. NewChannel \in Channels
  BY NewChannelUnused DEF Create
<1>3. CASE At(e, "connect")
  <2> DEFINE d == [thread[e] EXCEPT !.pc = "rev", !.slot = FreeSlot(e),
                                    !.fwd = NewChannel]
  <2>1. ~Full(e) /\ Create(e, d)
    BY <1>3 DEF At
  <2>2. FreeSlot(e) \in Idx
    BY <2>1, FreeSlotFree
  <2>3. /\ d \in Threads /\ d.pc = "rev"
        /\ d.task = thread[e].task /\ d.right = thread[e].right
    BY <1>1, <1>2, <2>2 DEF Threads, Pcs, Connecting, SetUp
  <2> HIDE DEF d
  <2> QED
    BY <2>1, <2>3 DEF SetUp
<1>4. CASE At(e, "rev")
  <2> DEFINE d == [thread[e] EXCEPT !.pc = "share_fwd", !.rev = NewChannel]
  <2>1. Create(e, d)
    BY <1>4 DEF At
  <2>2. /\ d \in Threads /\ d.pc = "share_fwd"
        /\ d.task = thread[e].task /\ d.right = thread[e].right
    BY <1>1, <1>2 DEF Threads, Pcs, Connecting, SetUp
  <2> HIDE DEF d
  <2> QED
    BY <2>1, <2>2 DEF SetUp
<1> QED
  BY <1>3, <1>4

LEMMA InvClient ==
  ASSUME EndpointInv, Counted', NEW t \in Tasks,
         \/ \E e \in Endpoints : Connect(t, e)
         \/ Disconnect(t) \/ DisconnectRpc(t) \/ Dies(t)
  PROVE  EndpointInv'
<1> USE DEF EndpointInv
<1>1. Types'
  BY TypesClient, TypesDies
<1>2. ThreadInv' /\ PendingInv'
  BY ThreadClient
<1>3. OwnInv'
  BY OwnClient
<1>4. MapInv'
  BY MapClient
<1>5. QueueInv'
  BY QueueConnect, QueueDetach, QueueDies
<1>6. RefInv'
  BY RefClient
<1>7. RequestInv'
  BY RequestClient
<1>8. PollInv'
  BY PollClient
<1> QED
  BY <1>1, <1>2, <1>3, <1>4, <1>5, <1>6, <1>7, <1>8

\* A handler that gives up destroys what it created and unmaps what it shared.
LEMMA InvGiveUp ==
  ASSUME EndpointInv, Counted', NEW e \in Endpoints,
         thread[e].pc \in SetUp \cup {"connect"},
         NEW unmap, NEW destroy, GiveUp(e, unmap, destroy), destroy = InHand(e),
         unmap \subseteq InHand(e),
         {thread[e].fwd, thread[e].rev} \cap mapped[thread[e].task] \subseteq unmap
  PROVE  EndpointInv'
<1> USE DEF EndpointInv
<1>1. thread[e].task \in Tasks
  BY DEF ThreadInv, ThreadOK, SetUp
<1>2. RefInv' /\ urefs' \in [Tasks -> Nat]
  BY RefGiveUp
<1>3. Types'
  BY <1>1, <1>2, TypesGiveUp
<1>4. ThreadInv' /\ PendingInv'
  BY ThreadGiveUp
<1>5. OwnInv'
  BY OwnGiveUp
<1>6. MapInv'
  BY MapGiveUp
<1>7. QueueInv'
  BY QueueGiveUp
<1>8. RequestInv'
  BY RequestGiveUp
<1>9. PollInv'
  BY PollGiveUp
<1> QED
  BY <1>2, <1>3, <1>4, <1>5, <1>6, <1>7, <1>8, <1>9

LEMMA InvCreate ==
  ASSUME EndpointInv, Counted', NEW e \in Endpoints,
         \/ /\ At(e, "connect") /\ ~Full(e)
            /\ Create(e, [thread[e] EXCEPT !.pc = "rev", !.slot = FreeSlot(e),
                                           !.fwd = NewChannel])
         \/ /\ At(e, "rev")
            /\ Create(e, [thread[e] EXCEPT !.pc = "share_fwd", !.rev = NewChannel])
  PROVE  EndpointInv'
<1> USE DEF EndpointInv
<1>1. PICK c \in Threads : /\ c.task = thread[e].task /\ c.right = thread[e].right
                           /\ c.pc \in SetUp /\ Create(e, c)
  BY CreatedThread
<1>2. thread[e].pc \in SetUp \cup {"connect"} /\ thread[e].pc \in Connecting
      /\ thread[e].pc # "dead" /\ c.pc \in Connecting
  BY <1>1 DEF At, SetUp, Connecting
<1>3. Types' /\ ThreadInv' /\ PendingInv'
  BY ThreadCreate
<1>4. OwnInv'
  BY OwnCreate
<1>5. MapInv'
  BY MapCreate
<1>6. QueueInv'
  BY <1>1, <1>2, QueueCreate
<1>7. RefInv'
  BY <1>1, <1>2, RefCreate
<1>8. RequestInv'
  BY <1>1, <1>2, RequestSame
<1>9. PollInv'
  BY <1>1, <1>2, PollConnecting
<1> QED
  BY <1>3, <1>4, <1>5, <1>6, <1>7, <1>8, <1>9

LEMMA InvShare ==
  ASSUME EndpointInv, Counted', NEW e \in Endpoints,
         \/ Share(e, "share_fwd", "share_rev", thread[e].fwd)
         \/ Share(e, "share_rev", "notify", thread[e].rev)
  PROVE  EndpointInv'
<1> USE DEF EndpointInv
<1>1. thread[e].pc \in Connecting
  BY DEF Share, At, Connecting, SetUp
<1>2. Types' /\ ThreadInv' /\ PendingInv'
  BY ThreadShare
<1>3. OwnInv' /\ MapInv' /\ QueueInv' /\ RefInv'
  BY OwnShare, MapShare, QueueShare, RefShare
<1>4. RequestInv'
  BY RequestSame
<1>5. PollInv'
  BY <1>1, PollConnecting
<1> QED
  BY <1>2, <1>3, <1>4, <1>5

LEMMA InvRegisters ==
  ASSUME EndpointInv, Counted', NEW e \in Endpoints, Registers(e)
  PROVE  EndpointInv'
<1> USE DEF EndpointInv
<1>1. Types' /\ ThreadInv' /\ PendingInv'
  BY TypesRegisters, ThreadRegisters
<1>2. OwnInv' /\ MapInv' /\ QueueInv'
  BY OwnRegisters, MapRegisters, QueueRegisters
<1>3. RefInv' /\ RequestInv' /\ PollInv'
  BY RefRegisters, RequestRegisters, PollRegisters
<1> QED
  BY <1>1, <1>2, <1>3

LEMMA InvReply ==
  ASSUME EndpointInv, Counted', NEW e \in Endpoints, Reply(e)
  PROVE  EndpointInv'
<1> USE DEF EndpointInv
<1>1. Types' /\ ThreadInv' /\ PendingInv'
  BY TypesReply, ThreadReply
<1>2. OwnInv' /\ MapInv' /\ QueueInv'
  BY OwnReply, MapReply, QueueReply
<1>3. RefInv' /\ RequestInv'
  BY RefReplyPump, RequestSame
<1>4. PollInv'
  BY PollConnecting DEF Reply, At, Connecting
<1> QED
  BY <1>1, <1>2, <1>3, <1>4

LEMMA InvHandled ==
  ASSUME EndpointInv, Counted', NEW e \in Endpoints,
         CleanupDead(e) \/ DisconnectHandler(e)
  PROVE  EndpointInv'
<1> USE DEF EndpointInv
<1>1. RefInv' /\ urefs' \in [Tasks -> Nat]
  BY RefHandled
<1>2. Types'
  BY <1>1, TypesCleanupDead, TypesDisconnectHandler
<1>3. ThreadInv' /\ PendingInv'
  BY ThreadCleanupDead, ThreadDisconnectHandler
<1>4. OwnInv'
  BY OwnCleanupDead, OwnDisconnectHandler
<1>5. MapInv'
  BY MapCleanupDead, MapDisconnectHandler
<1>6. QueueInv'
  BY QueueHandled
<1>7. RequestInv'
  BY RequestCleanupDead, RequestDisconnectHandler
<1>8. PollInv'
  BY PollHandled
<1> QED
  BY <1>1, <1>2, <1>3, <1>4, <1>5, <1>6, <1>7, <1>8

LEMMA InvReceive ==
  ASSUME EndpointInv, Counted', NEW e \in Endpoints, Receive(e)
  PROVE  EndpointInv'
<1> USE DEF EndpointInv
<1>1. Types' /\ ThreadInv' /\ PendingInv'
  BY TypesReceive, ThreadReceive
<1>2. OwnInv' /\ MapInv' /\ QueueInv'
  BY OwnReceive, MapReceive, QueueReceive
<1>3. RefInv' /\ RequestInv' /\ PollInv'
  BY RefReceive, RequestReceive, PollReceive
<1> QED
  BY <1>1, <1>2, <1>3

LEMMA InvPump ==
  ASSUME EndpointInv, Counted', NEW e \in Endpoints,
         PumpTimeout(e) \/ Event(e) \/ Drained(e)
  PROVE  EndpointInv'
<1> USE DEF EndpointInv
<1>1. Types' /\ ThreadInv' /\ PendingInv'
  BY TypesPump, ThreadPump
<1>2. OwnInv' /\ MapInv' /\ QueueInv'
  BY OwnPump, MapPump, QueueHandled
<1>3. RefInv' /\ RequestInv'
  BY RefReplyPump, RequestSame
<1>4. PollInv'
  BY PollReceive, PollEvent, PollDrained
<1> QED
  BY <1>1, <1>2, <1>3, <1>4

LEMMA InvDestroy ==
  ASSUME EndpointInv, Counted', NEW e \in Endpoints, Destroy(e)
  PROVE  EndpointInv'
<1> USE DEF EndpointInv
<1>1. RefInv' /\ urefs' \in [Tasks -> Nat]
  BY RefDestroy
<1>2. Types' /\ ThreadInv' /\ PendingInv'
  BY <1>1, TypesDestroy, ThreadDestroy
<1>3. OwnInv' /\ MapInv' /\ QueueInv'
  BY OwnDestroy, MapDestroy, QueueDestroy
<1>4. RequestInv' /\ PollInv'
  BY RequestDestroy, PollDestroy
<1> QED
  BY <1>1, <1>2, <1>3, <1>4

\* A handler gives up with all that it created destroyed, and nothing of it
\* left mapped.
LEMMA InvRefuses ==
  ASSUME EndpointInv, Counted', NEW e \in Endpoints, NEW c, c = thread[e],
         \/ c.pc = "connect" /\ GiveUp(e, {}, {})
         \/ c.pc = "rev" /\ GiveUp(e, {}, {c.fwd})
         \/ c.pc = "share_fwd" /\ GiveUp(e, {}, {c.fwd, c.rev})
         \/ c.pc = "share_rev" /\ GiveUp(e, {c.fwd}, {c.fwd, c.rev})
         \/ c.pc = "notify" /\ GiveUp(e, {c.fwd, c.rev}, {c.fwd, c.rev})
  PROVE  EndpointInv'
<1>1. ThreadOK(e) /\ SharedOK(e) /\ thread[e].task \in Tasks
  BY DEF EndpointInv, ThreadInv, ThreadOK, MapInv
<1>2. mapped[thread[e].task] \subseteq Channels
  BY <1>1 DEF EndpointInv, Types
<1>3. 0 \notin mapped[thread[e].task]
  BY <1>2 DEF Channels
<1>4. PICK unmap, destroy : /\ GiveUp(e, unmap, destroy) /\ destroy = InHand(e)
                            /\ unmap \subseteq InHand(e)
                            /\ {c.fwd, c.rev} \cap mapped[c.task] \subseteq unmap
  <2>1. CASE c.pc = "connect"
    <3>1. InHand(e) = {}
      BY <2>1, InHandValue DEF EndpointInv
    <3>2. {c.fwd, c.rev} \cap mapped[c.task] = {}
      BY <1>1, <1>3, <2>1 DEF ThreadOK
    <3> QED
      BY <2>1, <3>1, <3>2
  <2>2. CASE c.pc = "rev"
    <3>1. InHand(e) = {c.fwd}
      BY <2>2, InHandValue DEF EndpointInv
    <3>2. {c.fwd, c.rev} \cap mapped[c.task] = {}
      BY <1>1, <1>3, <2>2 DEF ThreadOK, SharedOK
    <3> QED
      BY <2>2, <3>1, <3>2
  <2>3. CASE c.pc \in {"share_fwd", "share_rev", "notify"}
    <3>1. InHand(e) = {c.fwd, c.rev}
      BY <2>3, InHandValue DEF EndpointInv, SetUp
    <3>2. CASE c.pc = "share_fwd"
      <4>1. {c.fwd, c.rev} \cap mapped[c.task] = {}
        BY <1>1, <3>2 DEF SharedOK
      <4> QED
        BY <3>1, <3>2, <4>1
    <3>3. CASE c.pc = "share_rev"
      <4>1. {c.fwd, c.rev} \cap mapped[c.task] \subseteq {c.fwd}
        BY <1>1, <3>3 DEF SharedOK
      <4> QED
        BY <3>1, <3>3, <4>1
    <3>4. CASE c.pc = "notify"
      BY <3>1, <3>4
    <3> QED
      BY <2>3, <3>2, <3>3, <3>4
  <2> QED
    BY <2>1, <2>2, <2>3
<1>5. thread[e].pc \in SetUp \cup {"connect"}
  BY DEF SetUp
<1> QED
  BY <1>4, <1>5, InvGiveUp

LEMMA InvSame ==
  ASSUME EndpointInv, UNCHANGED vars
  PROVE  EndpointInv'
<1> USE DEF vars, kernelVars, epVars, serverVars, clientVars
<1>1. Types' /\ Counted'
  BY DEF EndpointInv, Types, Counted, Active
<1>2. ThreadInv'
  BY DEF EndpointInv, ThreadInv, ThreadOK, Active, Open
<1>3. PendingInv'
  BY DEF EndpointInv, PendingInv, PendingOK, Active, At
<1>4. OwnInv'
  BY DEF EndpointInv, OwnInv, Sound, own, InHand
<1>5. MapInv'
  BY DEF EndpointInv, MapInv, HandleOK, SharedOK, Justified, Open
<1>6. QueueInv'
  BY DEF EndpointInv, QueueInv, QueueOK, Queued, Serving, Holds, Open
<1>7. RefInv'
  <2> SUFFICES ASSUME NEW t \in Tasks
               PROVE  urefs'[t] >= Cardinality(HoldersOf(t)')
    BY DEF RefInv
  <2>1. \A f \in Endpoints, k \in HKeys : Holder(f, k, t)' => Holder(f, k, t)
    BY DEF Holder, DeadKnown, Serving, Queued, Open, Of, Active
  <2> QED
    BY <2>1, RefSame DEF EndpointInv, Types
<1>8. RequestInv'
  BY DEF EndpointInv, RequestInv, RequestOK, DeadKnown, Serving, Queued, Open, Of, Active
<1>9. PollInv'
  BY PollSame DEF EndpointInv
<1> QED
  BY <1>1, <1>2, <1>3, <1>4, <1>5, <1>6, <1>7, <1>8, <1>9 DEF EndpointInv

LEMMA InvStep == EndpointInv /\ [Next]_vars => EndpointInv'
<1> SUFFICES ASSUME EndpointInv, [Next]_vars PROVE EndpointInv'
  OBVIOUS
<1>1. CASE UNCHANGED vars
  BY <1>1, InvSame
<1>2. CASE Next
  <2>1. Counted'
    BY <1>2, CountedStep
  <2>2. ASSUME NEW t \in Tasks,
               \/ \E e \in Endpoints : Connect(t, e)
               \/ Disconnect(t) \/ DisconnectRpc(t) \/ Dies(t)
        PROVE  EndpointInv'
    BY <2>1, <2>2, InvClient
  <2>3. ASSUME NEW e \in Endpoints, Thread(e) \/ Destroy(e)
        PROVE  EndpointInv'
    <3>1. CASE CreateFwd(e)
      BY <2>1, <3>1, InvCreate, InvRefuses DEF CreateFwd, At
    <3>2. CASE CreateRev(e)
      BY <2>1, <3>2, InvCreate, InvRefuses DEF CreateRev, At
    <3>3. CASE ShareFwd(e)
      BY <2>1, <3>3, InvShare, InvRefuses DEF ShareFwd, At
    <3>4. CASE ShareRev(e)
      BY <2>1, <3>4, InvShare, InvRefuses DEF ShareRev, At
    <3>5. CASE Notify(e)
      <4>1. Registers(e) \/ ( /\ thread[e].pc = "notify"
                              /\ GiveUp(e, {thread[e].fwd, thread[e].rev},
                                           {thread[e].fwd, thread[e].rev}))
        BY <3>5 DEF Notify, Registers, At
      <4> QED
        BY <2>1, <4>1, InvRegisters, InvRefuses
    <3>6. CASE Reply(e)
      BY <2>1, <3>6, InvReply
    <3>7. CASE CleanupDead(e) \/ DisconnectHandler(e)
      BY <2>1, <3>7, InvHandled
    <3>8. CASE Receive(e)
      BY <2>1, <3>8, InvReceive
    <3>9. CASE PumpTimeout(e) \/ Event(e) \/ Drained(e)
      BY <2>1, <3>9, InvPump
    <3>10. CASE Destroy(e)
      BY <2>1, <3>10, InvDestroy
    <3> QED
      BY <2>3, <3>1, <3>2, <3>3, <3>4, <3>5, <3>6, <3>7, <3>8, <3>9, <3>10
      DEF Thread, Pump, Handler
  <2> QED
    BY <1>2, <2>2, <2>3 DEF Next
<1> QED
  BY <1>1, <1>2

-----------------------------------------------------------------------------
(* The theorems. *)

LEMMA InvAlways == Spec => []EndpointInv
  BY InvInit, InvStep, PTL DEF Spec

LEMMA InvTypeOK == EndpointInv => TypeOK
<1> SUFFICES ASSUME EndpointInv PROVE TypeOK
  OBVIOUS
<1>1. n_clients \in [Endpoints -> 0 .. MAX_CLIENTS]
  <2>1. \A e \in Endpoints : n_clients[e] \in 0 .. MAX_CLIENTS
    BY SlotsFinite, EndpointAssumption DEF EndpointInv, Counted
  <2> QED
    BY <2>1 DEF EndpointInv, Types
<1>2. \A e \in Endpoints : Open(e) => \A i \in DOMAIN queue[e] : queue[e][i] \in Messages
  <2> SUFFICES ASSUME NEW e \in Endpoints, Open(e), NEW i \in DOMAIN queue[e]
               PROVE  queue[e][i] \in Messages
    OBVIOUS
  <2>1. queue[e] \in Seq(Messages)
    BY DEF EndpointInv, Types, Open
  <2> QED
    BY <2>1
<1>3. \A e \in Endpoints : \A i \in Active(e) : conns[e][i] \in Conns
  BY DEF EndpointInv, Types, Active
<1> QED
  BY <1>1, <1>2, <1>3 DEF EndpointInv, Types, TypeOK

\* What a slot or a thread owns is there.
LEMMA OwnedLive ==
  ASSUME OwnInv, NEW e \in Endpoints
  PROVE  /\ InHand(e) \subseteq live
         /\ \A i \in Active(e) : ChannelsOf(conns[e][i]) \subseteq live
<1>1. InHand(e) = own[e][0] /\ 0 \in Keys
  BY OwnValue
<1>2. \A i \in Active(e) : i \in Keys /\ own[e][i] = ChannelsOf(conns[e][i])
  BY OwnValue DEF Active
<1> QED
  BY <1>1, <1>2 DEF OwnInv, Sound, Keys

LEMMA InvNoChannelLeak == EndpointInv => NoChannelLeak
<1> SUFFICES ASSUME EndpointInv PROVE NoChannelLeak
  OBVIOUS
<1>1. ASSUME NEW x \in live
      PROVE  \E e \in Endpoints : x \in Connected(e) \cup InHand(e)
  <2>1. PICK e \in Endpoints, k \in Keys : x \in own[e][k]
    BY <1>1 DEF EndpointInv, OwnInv, Sound, Keys
  <2>2. CASE k = 0
    BY <2>1, <2>2, OwnValue
  <2>3. CASE k # 0
    <3>1. k \in Active(e) /\ x \in ChannelsOf(conns[e][k])
      BY <2>1, <2>3, OwnValue DEF Active
    <3> QED
      BY <3>1 DEF Connected
  <2> QED
    BY <2>2, <2>3
<1>2. \A e \in Endpoints : Connected(e) \cup InHand(e) \subseteq live
  BY OwnedLive DEF EndpointInv, Connected
<1> HIDE DEF EndpointInv
<1> QED
  BY <1>1, <1>2 DEF NoChannelLeak

LEMMA InvNoMappingLeft == EndpointInv => NoMappingLeft
<1> SUFFICES ASSUME EndpointInv PROVE NoMappingLeft
  OBVIOUS
<1> DEFINE A(t) == UNION {ChannelsOf(h) : h \in handles[t]}
           B(t) == UNION {{thread[e].fwd, thread[e].rev} :
                           e \in {x \in Endpoints : thread[x].task = t}}
<1>1. ASSUME NEW t \in Tasks, NEW x \in mapped[t] PROVE x \in A(t) \cup B(t)
  <2>1. Justified(t, x)
    BY DEF EndpointInv, MapInv
  <2>2. CASE \E h \in handles[t] : x \in ChannelsOf(h)
    BY <2>2
  <2>3. CASE \E e \in Endpoints :
               thread[e].task = t /\ x \in {thread[e].fwd, thread[e].rev}
    BY <2>3
  <2> QED
    BY <2>1, <2>2, <2>3 DEF Justified
<1> HIDE DEF A, B
<1>2. \A t \in Tasks : mapped[t] \subseteq A(t) \cup B(t)
  BY <1>1
<1> QED
  BY <1>2 DEF A, B, NoMappingLeft

LEMMA InvNoStrandedSlot == EndpointInv => NoStrandedSlot
<1> SUFFICES ASSUME EndpointInv, NEW e \in Endpoints, NEW t \in Tasks,
                    ~alive[t], Of(e, t) # {}, ~superseded[t]
             PROVE  Pending(e, "dead", t) \/ (At(e, "dead") /\ thread[e].task = t)
  BY DEF NoStrandedSlot
<1>1. DeadKnown(e, t)
  BY DEF EndpointInv, RequestInv, RequestOK
<1> QED
  BY <1>1 DEF DeadKnown, Serving, Queued, Pending, At

\* A channel that thread f takes from those that exist, by itself or as the
\* caller of its pump.
Destroys(f, x) ==
  \/ thread[f].pc \in SetUp /\ x \in own[f][0] /\ UNCHANGED served
  \/ /\ f \notin Reactors \/ At(f, "disconnect")
     /\ \E k \in Keys : x \in own[f][k]
     /\ UNCHANGED served
  \/ /\ At(f, "event") /\ pending_dead[f] # NULL /\ x \in own[f][0]
     /\ served' = [served EXCEPT ![f] = @ \ {pending_dead[f]}]

\* Whoever destroys a channel owns it.
LEMMA DestroyerOwns ==
  ASSUME EndpointInv, Next, NEW x \in live, x \notin live'
  PROVE  \E f \in Endpoints : Destroys(f, x)
<1> USE DEF EndpointInv
<1>1. ASSUME NEW f \in Endpoints, thread[f].pc \in SetUp \cup {"connect"},
             NEW unmap, NEW destroy, GiveUp(f, unmap, destroy),
             destroy \subseteq InHand(f)
      PROVE  Destroys(f, x)
  <2>1. x \in InHand(f) /\ UNCHANGED served
    BY <1>1 DEF GiveUp
  <2>2. thread[f].pc # "connect"
    BY <2>1, InHandValue
  <2> QED
    BY <1>1, <2>1, <2>2, OwnValue DEF Destroys
<1>2. ASSUME NEW f \in Endpoints,
             CreateFwd(f) \/ CreateRev(f) \/ ShareFwd(f) \/ ShareRev(f) \/ Notify(f)
      PROVE  Destroys(f, x)
  <2>1. PICK unmap, destroy : GiveUp(f, unmap, destroy)
           /\ \/ thread[f].pc = "connect" /\ destroy = {}
              \/ thread[f].pc = "rev" /\ destroy = {thread[f].fwd}
              \/ /\ thread[f].pc \in {"share_fwd", "share_rev", "notify"}
                 /\ destroy = {thread[f].fwd, thread[f].rev}
    BY <1>2 DEF CreateFwd, CreateRev, ShareFwd, ShareRev, Notify, Create, Share, At
  <2>2. destroy \subseteq InHand(f) /\ thread[f].pc \in SetUp \cup {"connect"}
    BY <2>1, InHandValue DEF SetUp
  <2> QED
    BY <1>1, <2>1, <2>2
<1>3. ASSUME NEW f \in Endpoints, NEW i \in Active(f), x \in ChannelsOf(conns[f][i]),
             f \notin Reactors \/ At(f, "disconnect"), UNCHANGED served
      PROVE  Destroys(f, x)
  <2>1. i \in Keys /\ x \in own[f][i]
    BY <1>3, OwnValue DEF Active
  <2> QED
    BY <1>3, <2>1 DEF Destroys
<1>4. ASSUME NEW f \in Endpoints, CleanupDead(f) PROVE Destroys(f, x)
  <2> DEFINE t == thread[f].task
             i == Min(Of(f, t))
  <2>1. Of(f, t) # {} /\ DisposeDead(f, conns[f][i]) /\ UNCHANGED served
    BY <1>4 DEF CleanupDead, SlotOf
  <2>2. f \notin Reactors /\ x \in ChannelsOf(conns[f][i])
    BY <2>1 DEF DisposeDead
  <2>3. i \in Active(f)
    BY <2>1, SlotPicked DEF Of
  <2> QED
    BY <1>3, <2>1, <2>2, <2>3
<1>5. ASSUME NEW f \in Endpoints, DisconnectHandler(f) PROVE Destroys(f, x)
  <2> DEFINE t == thread[f].task
             i == Min(Of(f, t))
  <2>1. /\ At(f, "disconnect") /\ Of(f, t) # {} /\ UNCHANGED served
        /\ live' = live \ ChannelsOf(conns[f][i])
    BY <1>5 DEF DisconnectHandler, SlotOf
  <2>2. i \in Active(f)
    BY <2>1, SlotPicked DEF Of
  <2> QED
    BY <1>3, <2>1, <2>2
<1>6. ASSUME NEW f \in Endpoints, Destroy(f) PROVE Destroys(f, x)
  <2>1. PICK i \in Active(f) : x \in ChannelsOf(conns[f][i])
    BY <1>6 DEF Destroy
  <2>2. f \notin Reactors /\ UNCHANGED served
    BY <1>6 DEF Destroy
  <2> QED
    BY <1>3, <2>1, <2>2
<1>7. ASSUME NEW f \in Endpoints, Event(f) PROVE Destroys(f, x)
  <2>1. /\ At(f, "event") /\ pending_dead[f] # NULL /\ EventDead(f, pending_dead[f])
    BY <1>7 DEF Event, EventNew
  <2>2. x \in InHand(f)
    BY <2>1, InHandValue DEF EventDead, At
  <2> QED
    BY <2>1, <2>2, OwnValue DEF Destroys, EventDead
<1>8. ASSUME NEW t \in Tasks,
             \/ \E e \in Endpoints : Connect(t, e)
             \/ Disconnect(t) \/ DisconnectRpc(t) \/ Dies(t)
      PROVE  FALSE
  BY <1>8 DEF Connect, Disconnect, DisconnectRpc, Dies, serverVars
<1>9. ASSUME NEW f \in Endpoints,
             Receive(f) \/ PumpTimeout(f) \/ Drained(f) \/ Reply(f)
      PROVE  FALSE
  BY <1>9 DEF Receive, PumpTimeout, Drained, Reply
<1> HIDE DEF EndpointInv
<1> QED
  BY <1>2, <1>4, <1>5, <1>6, <1>7, <1>8, <1>9 DEF Next, Thread, Pump, Handler

\* What a reactor has been told of has its owner at the reactor's endpoint.
LEMMA ToldOwned ==
  ASSUME EndpointInv, NEW e \in Endpoints, NEW p \in Told(e), NEW x \in ChannelsOf(p)
  PROVE  \/ At(e, "event") /\ p = pending_dead[e] /\ x \in own[e][0]
         \/ \E i \in Idx : x \in own[e][i]
<1>1. CASE p \in DeadEvent(e)
  <2>1. At(e, "event") /\ pending_dead[e] # NULL /\ p = pending_dead[e]
    BY <1>1 DEF DeadEvent
  <2>2. InHand(e) = ChannelsOf(p)
    BY <2>1, InHandValue DEF At, EndpointInv
  <2> QED
    BY <2>1, <2>2, OwnValue
<1>2. CASE p \notin DeadEvent(e)
  <2>1. PICK i \in Active(e) : p = Pair(conns[e][i].fwd, conns[e][i].rev)
    BY <1>2 DEF Told
  <2>2. ChannelsOf(p) = ChannelsOf(conns[e][i]) /\ i \in Idx /\ conns[e][i] # NULL
    BY <2>1 DEF ChannelsOf, Pair, Active
  <2> QED
    BY <2>2, OwnValue
<1> QED
  BY <1>1, <1>2

LEMMA InvKeepsPolled ==
  ASSUME EndpointInv, [Next]_vars, NEW e \in Reactors,
         (live \ live') \cap Polled(e)' # {}
  PROVE  At(e, "disconnect")
<1>1. PICK x \in live : x \notin live' /\ x \in Polled(e)'
  OBVIOUS
<1>2. Next
  BY <1>1 DEF vars, serverVars
<1>3. PICK f \in Endpoints : Destroys(f, x)
  BY <1>1, <1>2, DestroyerOwns
<1>4. e \in Endpoints /\ PollOK(e) /\ PollOK(e)'
  BY InvStep, EndpointAssumption DEF EndpointInv, PollInv
<1>5. PICK p \in served'[e] : x \in ChannelsOf(p)
  BY <1>1, <1>4 DEF Polled, PollOK, ChannelsOf
<1>6. p \in served[e] /\ (At(f, "event") /\ e = f => p # pending_dead[e])
  <2>1. served \in [Endpoints -> SUBSET Pairs]
    BY DEF EndpointInv, Types
  <2>2. CASE served' = [served EXCEPT ![f] = @ \ {pending_dead[f]}]
    BY <1>4, <1>5, <2>1, <2>2
  <2>3. CASE served' # [served EXCEPT ![f] = @ \ {pending_dead[f]}]
    <3>1. UNCHANGED served /\ (~At(f, "event") \/ f \notin Reactors)
      BY <1>3, <2>3 DEF Destroys, At, SetUp
    <3> QED
      BY <1>5, <3>1
  <2> QED
    BY <2>2, <2>3
<1>7. p \in Told(e)
  BY <1>1, <1>4, <1>5, <1>6 DEF PollOK
<1>8. \/ At(e, "event") /\ p = pending_dead[e] /\ x \in own[e][0]
      \/ \E i \in Idx : x \in own[e][i]
  BY <1>4, <1>5, <1>7, ToldOwned
<1>9. \A k, j \in Keys : x \in own[e][k] /\ x \in own[f][j] => e = f /\ k = j
  BY <1>4 DEF EndpointInv, OwnInv, Sound, Keys
<1>10. PICK k \in Keys : x \in own[e][k] /\ (k = 0 => At(e, "event") /\ p = pending_dead[e])
  BY <1>4, <1>8, OwnValue
<1>11. PICK j \in Keys : x \in own[f][j]
  BY <1>3, OwnValue DEF Destroys
<1>12. e = f /\ k = j
  BY <1>9, <1>10, <1>11
<1>13. x \in own[f][0] => k = 0
  BY <1>9, <1>10, OwnValue
<1> QED
  BY <1>3, <1>6, <1>10, <1>12, <1>13 DEF Destroys, At, SetUp

LEMMA InvClientSafe == EndpointInv => ClientSafe
<1> SUFFICES ASSUME EndpointInv PROVE ClientSafe
  OBVIOUS
<1>1. ClientKeepsChannels
  <2> SUFFICES ASSUME NEW t \in Tasks, NEW h \in handles[t], Open(h.ep)
               PROVE  /\ ChannelsOf(h) \subseteq live \cap mapped[t]
                      /\ Conn(t, h.fwd, h.rev) \in Range(conns[h.ep])
    BY DEF ClientKeepsChannels
  <2>1. HandleOK(t, h) /\ h.ep \in Endpoints
    BY DEF EndpointInv, MapInv, Types, Handles
  <2>2. PICK i \in Idx : conns[h.ep][i] = Conn(t, h.fwd, h.rev)
    BY <2>1 DEF HandleOK
  <2>3. conns[h.ep] \in [Idx -> Conns \cup {NULL}]
    BY <2>1 DEF EndpointInv, Types
  <2>4. conns[h.ep][i] # NULL
    <3>1. h \in Handles
      BY DEF EndpointInv, Types
    <3>2. Conn(t, h.fwd, h.rev) \in Conns
      BY <3>1 DEF Handles, Conn, Conns
    <3> QED
      BY <2>2, <3>2, EndpointAssumption
  <2>5. ChannelsOf(conns[h.ep][i]) = ChannelsOf(h)
    BY <2>2 DEF ChannelsOf, Conn
  <2>6. ChannelsOf(h) \subseteq live
    BY <2>1, <2>4, <2>5, OwnedLive DEF EndpointInv, Active
  <2> QED
    BY <2>1, <2>2, <2>3, <2>6 DEF HandleOK, Range
<1>2. NamesHeld
  <2> SUFFICES ASSUME NEW t \in Tasks
               PROVE  urefs[t] >= Cardinality({p \in Endpoints \X Idx :
                                                 p[2] \in Of(p[1], t)})
    BY DEF NamesHeld
  <2> DEFINE S == {p \in Endpoints \X Idx : p[2] \in Of(p[1], t)}
  <2>1. S \subseteq HoldersOf(t)
    BY HolderKeys DEF HoldersOf, Holder, HKeys
  <2>2. Cardinality(S) <= Cardinality(HoldersOf(t)) /\ Cardinality(S) \in Nat
    BY <2>1, HoldersFinite, FS_Subset, FS_CardinalityType
  <2> HIDE DEF S
  <2>3. urefs[t] >= Cardinality(HoldersOf(t)) /\ urefs[t] \in Nat
    BY DEF EndpointInv, RefInv, Types
  <2>4. urefs[t] >= Cardinality(S)
    BY <2>2, <2>3, HoldersFinite
  <2> QED
    BY <2>4 DEF S
<1> QED
  BY <1>1, <1>2 DEF ClientSafe

\* The fields of the endpoints keep their types whatever fails or dies, and
\* n_clients never exceeds max_clients: the search for a free slot behind the
\* limit check of connect_rpc always finds one.
THEOREM TypeCorrect == Spec => []TypeOK
  BY InvAlways, InvTypeOK, PTL

\* At whatever step a creation, a share or a notification request fails, or the
\* client dies: no channel leaks in the server or is destroyed under a
\* connection, no mapping stays in a refused client, and the slot of a dead
\* client has its dead-name message on the way, unless its request was replaced.
THEOREM EndpointLeaksNothing == Spec => []NothingLeaks
<1>1. EndpointInv => NothingLeaks
  BY InvNoChannelLeak, InvNoMappingLeft, InvNoStrandedSlot DEF NothingLeaks
<1> QED
  BY <1>1, InvAlways, PTL

\* Whatever the pump reports and in whatever order, and whatever fails or dies:
\* of the channels that a reactor polls and serves none is destroyed before the
\* reactor has let go of it, except by the handler of a disconnect request sent
\* to the reactor itself.
THEOREM ReactorKeepsItsChannels == Spec => ReactorKeepsPolled
<1>1. EndpointInv /\ [Next]_vars =>
        [\A e \in Reactors : (live \ live') \cap Polled(e)' # {} => At(e, "disconnect")]_vars
  BY InvKeepsPolled
<1> QED
  BY <1>1, InvAlways, PTL DEF Spec, ReactorKeepsPolled

\* As long as its endpoint exists, a client keeps the channels of its handles
\* and the server the reference on its name, however the others fail and die.
THEOREM ClientStaysSafe == Spec => []ClientSafe
  BY InvAlways, InvClientSafe, PTL
=============================================================================
