--------------------------- MODULE Flipc2Endpoint ---------------------------
(***************************************************************************)
(* The endpoints of one server task (flipc2_endpoint.c) with their clients *)
(* and, for the endpoints in Reactors, the reactor thread of ext_server    *)
(* that pumps them.  The other endpoints are served by threads that call   *)
(* flipc2_endpoint_accept in a loop.                                       *)
(*                                                                         *)
(* Clients connect, detach, and die at any moment, also between two steps  *)
(* of the handler that is serving them.  The kernel is modelled as far as  *)
(* it is used: a queue per endpoint port, the user references the server   *)
(* holds on the name of a client's task port, and the dead-name request on *)
(* that name, of which there is ONE: a new request replaces the old one.   *)
(***************************************************************************)
EXTENDS Naturals, Sequences, FiniteSets, SequencesExt, FiniteSetsExt

CONSTANTS
  Tasks,          \* client tasks
  Endpoints,      \* endpoints of the server task
  Reactors,       \* the endpoints that a reactor pumps
  MAX_CLIENTS,    \* max_clients of flipc2_endpoint_create
  MAX_CONNS,      \* FLIPC_REACTOR_MAX_CONNS, the size of a reactor's conns[]
  MAX_REQUESTS,   \* bound: connect and disconnect requests of all clients
  NULL

Idx      == 1 .. MAX_CLIENTS
Channels == 1 .. 2 * MAX_REQUESTS
Pairs    == [fwd : Channels, rev : Channels]
Conns    == [task : Tasks, fwd : Channels, rev : Channels]
Messages == [kind : {"connect", "dead", "disconnect", "send_once"}, task : Tasks]

\* NULL differs from whatever it stands in for.
ASSUME EndpointAssumption ==
  /\ IsFiniteSet(Endpoints) /\ Reactors \subseteq Endpoints
  /\ MAX_CLIENTS \in Nat \ {0} /\ MAX_CONNS \in Nat /\ MAX_REQUESTS \in Nat
  /\ NULL \notin Tasks \cup Endpoints \cup Conns \cup Pairs
  /\ NULL \notin Seq(Messages)

VARIABLES
  \* kernel: task alive; queue of each endpoint port (NULL: port destroyed);
  \* the server's references on the name of each task port, and the endpoint
  \* that the dead-name request on that name notifies
  alive, queue, urefs, dnrequest,
  \* server: channels not yet destroyed
  live,
  \* struct flipc2_endpoint
  conns, n_clients, pending_conn_idx, pending_dead,
  \* the thread of each endpoint, and the reactor's conns[] and pollset
  thread, served, pollset,
  \* clients: endpoint whose answer is awaited, handles, mapped channels
  waiting, handles, mapped,
  requests,       \* connect and disconnect requests sent so far
  \* history: a task's request was replaced while it covered a connection
  superseded

kernelVars == <<alive, queue, urefs, dnrequest>>
epVars     == <<conns, n_clients, pending_conn_idx, pending_dead>>
serverVars == <<live, thread, served, pollset>>
clientVars == <<waiting, handles, mapped, requests>>
vars       == <<kernelVars, epVars, serverVars, clientVars, superseded>>

Pair(f, r) == [fwd |-> f, rev |-> r]
Conn(t, f, r) == [task |-> t, fwd |-> f, rev |-> r]
Message(k, t) == [kind |-> k, task |-> t]
Idle == [pc |-> "idle", task |-> NULL, right |-> FALSE,
         slot |-> 0, fwd |-> 0, rev |-> 0]

\* flipc2_endpoint_create, and flipc2_pollset_create of a reactor.
Init ==
  /\ alive = [t \in Tasks |-> TRUE]
  /\ queue = [e \in Endpoints |-> <<>>]
  /\ urefs = [t \in Tasks |-> 0]
  /\ dnrequest = [t \in Tasks |-> NULL]
  /\ live = {}
  /\ conns = [e \in Endpoints |-> [i \in Idx |-> NULL]]
  /\ n_clients = [e \in Endpoints |-> 0]
  /\ pending_conn_idx = [e \in Endpoints |-> 0]
  /\ pending_dead = [e \in Endpoints |-> NULL]
  /\ thread = [e \in Endpoints |-> Idle]
  /\ served = [e \in Endpoints |-> {}]
  /\ pollset = [e \in Endpoints |-> {}]
  /\ waiting = [t \in Tasks |-> NULL]
  /\ handles = [t \in Tasks |-> {}]
  /\ mapped = [t \in Tasks |-> {}]
  /\ requests = 0
  /\ superseded = [t \in Tasks |-> FALSE]

Open(e)      == queue[e] # NULL
Active(e)    == {i \in Idx : conns[e][i] # NULL}
Of(e, t)     == {i \in Active(e) : conns[e][i].task = t}
At(e, pc)    == thread[e].pc = pc
ChannelsOf(c) == {c.fwd, c.rev}
Holds(t, e)  == \E h \in handles[t] : h.ep = e
Pending(e, kind, t) ==
  Open(e) /\ \E i \in DOMAIN queue[e] : queue[e][i] = Message(kind, t)

Post(e, m)   == queue' = [queue EXCEPT ![e] = Append(@, m)]

-----------------------------------------------------------------------------
(* The clients. *)

\* flipc2_endpoint_connect: look the name up, send the request and wait.  A
\* client asks for one connection to an endpoint at a time (vfs_flipc_get).
Connect(t, e) ==
  /\ alive[t] /\ waiting[t] = NULL /\ ~Holds(t, e) /\ Open(e)
  /\ requests < MAX_REQUESTS
  /\ requests' = requests + 1
  /\ waiting' = [waiting EXCEPT ![t] = e]
  /\ Post(e, Message("connect", t))
  /\ UNCHANGED <<alive, urefs, dnrequest, epVars, serverVars, handles, mapped,
                 superseded>>

\* flipc2_endpoint_disconnect: detach both channels; the server is not told.
Detach(t, h) ==
  /\ handles' = [handles EXCEPT ![t] = @ \ {h}]
  /\ mapped' = [mapped EXCEPT ![t] = @ \ ChannelsOf(h)]
  /\ UNCHANGED waiting

Disconnect(t) ==
  /\ alive[t]
  /\ \E h \in handles[t] : Detach(t, h)
  /\ UNCHANGED <<kernelVars, epVars, serverVars, requests, superseded>>

\* A client that sends flipc2_endpoint_disconnect_rpc before it detaches.
\* None of the clients in the tree does; accept loops and reactors serve it.
DisconnectRpc(t) ==
  /\ alive[t] /\ requests < MAX_REQUESTS
  /\ requests' = requests + 1
  /\ \E h \in handles[t] :
       /\ Open(h.ep)
       /\ Detach(t, h)
       /\ Post(h.ep, Message("disconnect", t))
  /\ UNCHANGED <<alive, urefs, dnrequest, epVars, serverVars, superseded>>

\* The task port dies: its mappings go, and the dead-name request, if there
\* is one, turns into a message and a reference for the name in it.
Dies(t) ==
  /\ alive[t]
  /\ alive' = [alive EXCEPT ![t] = FALSE]
  /\ waiting' = [waiting EXCEPT ![t] = NULL]
  /\ handles' = [handles EXCEPT ![t] = {}]
  /\ mapped' = [mapped EXCEPT ![t] = {}]
  /\ dnrequest' = [dnrequest EXCEPT ![t] = NULL]
  /\ IF dnrequest[t] = NULL THEN UNCHANGED <<queue, urefs>>
     ELSE /\ urefs' = [urefs EXCEPT ![t] = @ + 1]
          /\ IF Open(dnrequest[t]) THEN Post(dnrequest[t], Message("dead", t))
             ELSE UNCHANGED queue
  /\ UNCHANGED <<epVars, serverVars, requests, superseded>>

-----------------------------------------------------------------------------
(* The server: what several handlers do. *)

\* A handler has returned: pump goes on to report the event, accept returns
\* the new connection or takes the next message.
HandlerDone(e) ==
  thread' = [thread EXCEPT ![e] =
               IF e \in Reactors THEN [Idle EXCEPT !.pc = "event"] ELSE Idle]

\* mach_port_deallocate n times; the request goes with the last reference.
Deallocate(t, n) ==
  /\ urefs' = [urefs EXCEPT ![t] = @ - n]
  /\ dnrequest' = IF urefs[t] > n THEN dnrequest
                  ELSE [dnrequest EXCEPT ![t] = NULL]

\* Faulty variant: the handler that fails releases the right as well.
Bug_DestroyRequest(e, t, right) ==
  IF right /\ e \notin Reactors THEN Deallocate(t, 2)
  ELSE UNCHANGED <<urefs, dnrequest>>
\* mach_msg_server_once destroys the rights in a request whose handler failed;
\* flipc2_endpoint_pump does not.
DestroyRequest(e, t, right) ==
  IF right /\ e \notin Reactors THEN Deallocate(t, 1)
  ELSE UNCHANGED <<urefs, dnrequest>>

\* Faulty variant: the answer of a full endpoint is not sent.
Bug_Refused(e) ==
  /\ waiting' = [t \in Tasks |->
       IF t = thread[e].task /\ waiting[t] = e /\ n_clients[e] < MAX_CLIENTS
       THEN NULL ELSE waiting[t]]
  /\ UNCHANGED <<handles, requests>>
\* The error reply reaches the client if it is still there.
Refused(e) ==
  /\ waiting' = [t \in Tasks |->
       IF t = thread[e].task /\ waiting[t] = e THEN NULL ELSE waiting[t]]
  /\ UNCHANGED <<handles, requests>>

\* connect_rpc gives up: unmap from the client, destroy the channels, answer.
GiveUp(e, unmap, destroy) ==
  LET t == thread[e].task
  IN /\ mapped' = [mapped EXCEPT ![t] = @ \ unmap]
     /\ live' = live \ destroy
     /\ Refused(e)
     /\ DestroyRequest(e, t, thread[e].right)
     /\ HandlerDone(e)
     /\ UNCHANGED <<alive, queue, epVars, served, pollset, superseded>>

-----------------------------------------------------------------------------
(* ds_flipc2_endpoint_connect_rpc. *)

\* The free slot with the lowest index.
FreeSlot(e) == Min(Idx \ Active(e))

\* The client limit.
Full(e) == n_clients[e] >= MAX_CLIENTS

\* The channels in a reactor's pollset and conns[].
Polled(e) == pollset[e] \cup UNION {ChannelsOf(p) : p \in served[e]}

\* The numbers of no channel that exists, is mapped or is still polled: one
\* destroyed under a reactor stays distinct from the channels made later.
Unused ==
  Channels \ (live \cup (UNION Range(mapped)) \cup (UNION {Polled(e) : e \in Reactors}))
NewChannel == Min(Unused)

\* flipc2_channel_create_ex, which may fail, and does for want of memory.
Create(e, c) ==
  /\ Unused # {}
  /\ live' = live \cup {NewChannel}
  /\ thread' = [thread EXCEPT ![e] = c]
  /\ UNCHANGED <<kernelVars, epVars, served, pollset, clientVars, superseded>>

\* Check the limit, find the slot and create the forward channel.
CreateFwd(e) ==
  /\ At(e, "connect")
  /\ \/ /\ ~Full(e)
        /\ Create(e, [thread[e] EXCEPT !.pc = "rev", !.slot = FreeSlot(e),
                                       !.fwd = NewChannel])
     \/ GiveUp(e, {}, {})

\* Faulty variant: the first channel stays when the second is not created.
Bug_CreateRev(e) ==
  /\ At(e, "rev")
  /\ \/ Create(e, [thread[e] EXCEPT !.pc = "share_fwd", !.rev = NewChannel])
     \/ GiveUp(e, {}, {})
CreateRev(e) ==
  /\ At(e, "rev")
  /\ \/ Create(e, [thread[e] EXCEPT !.pc = "share_fwd", !.rev = NewChannel])
     \/ GiveUp(e, {}, {thread[e].fwd})

\* flipc2_channel_share[_isolated]: vm_remap into the client, which fails for
\* a dead task and for want of memory.
Share(e, pc, next, ch) ==
  /\ At(e, pc) /\ alive[thread[e].task]
  /\ mapped' = [mapped EXCEPT ![thread[e].task] = @ \cup {ch}]
  /\ thread' = [thread EXCEPT ![e].pc = next]
  /\ UNCHANGED <<kernelVars, epVars, live, served, pollset,
                 waiting, handles, requests, superseded>>

ShareFwd(e) ==
  \/ Share(e, "share_fwd", "share_rev", thread[e].fwd)
  \/ At(e, "share_fwd") /\ GiveUp(e, {}, {thread[e].fwd, thread[e].rev})

ShareRev(e) ==
  \/ Share(e, "share_rev", "notify", thread[e].rev)
  \/ /\ At(e, "share_rev")
     /\ GiveUp(e, {thread[e].fwd}, {thread[e].fwd, thread[e].rev})

\* mach_port_request_notification: the new request replaces the previous one,
\* whose send-once right is returned and deallocated; the port it was for gets
\* a send-once notification.
RequestNotification(e, t) ==
  LET prev == dnrequest[t]
  IN /\ dnrequest' = [dnrequest EXCEPT ![t] = e]
     /\ superseded' = [superseded EXCEPT ![t] =
                         @ \/ (prev # NULL /\ Of(prev, t) # {})]
     /\ IF prev # NULL /\ Open(prev) THEN Post(prev, Message("send_once", t))
        ELSE UNCHANGED queue

\* The connection takes its slot.
Store(e) ==
  LET c == thread[e]
  IN /\ conns' = [conns EXCEPT ![e][c.slot] = Conn(c.task, c.fwd, c.rev)]
     /\ n_clients' = [n_clients EXCEPT ![e] = @ + 1]
     /\ pending_conn_idx' =
          [pending_conn_idx EXCEPT ![e] = IF e \in Reactors THEN c.slot ELSE 0]
     /\ UNCHANGED pending_dead

\* The reply hands the channels to the client.
Accepted(e) ==
  LET c == thread[e]
  IN /\ waiting' = [waiting EXCEPT ![c.task] = NULL]
     /\ handles' = [handles EXCEPT ![c.task] =
                      @ \cup {[ep |-> e, fwd |-> c.fwd, rev |-> c.rev]}]
     /\ UNCHANGED <<mapped, requests>>

\* Request the dead-name notification, which fails for a dead task and for
\* want of memory, and store the connection.
Notify(e) ==
  LET c == thread[e]
  IN /\ At(e, "notify")
     /\ \/ /\ alive[c.task]
           /\ RequestNotification(e, c.task)
           /\ Store(e)
           /\ thread' = [thread EXCEPT ![e].pc = "reply"]
           /\ UNCHANGED <<alive, urefs, live, served, pollset, clientVars>>
        \/ GiveUp(e, {c.fwd, c.rev}, {c.fwd, c.rev})

\* The reply; a dead client does not get it.
Reply(e) ==
  /\ At(e, "reply")
  /\ IF alive[thread[e].task] THEN Accepted(e) ELSE UNCHANGED clientVars
  /\ HandlerDone(e)
  /\ UNCHANGED <<kernelVars, epVars, live, served, pollset, superseded>>

-----------------------------------------------------------------------------
(* The other handlers. *)

\* Clear slot i.
Clear(e, i) ==
  /\ conns' = [conns EXCEPT ![e][i] = NULL]
  /\ n_clients' = [n_clients EXCEPT ![e] = @ - 1]

\* Faulty variant: the reactor's channels are destroyed here as well.
Bug_DisposeDead(e, c) ==
  /\ live' = live \ ChannelsOf(c)
  /\ pending_dead' = [pending_dead EXCEPT ![e] = NULL]
\* What becomes of a dead client's channels: accept destroys them, the pump
\* records them for its caller.
DisposeDead(e, c) ==
  IF e \in Reactors
  THEN /\ pending_dead' = [pending_dead EXCEPT ![e] = Pair(c.fwd, c.rev)]
       /\ UNCHANGED live
  ELSE live' = live \ ChannelsOf(c) /\ UNCHANGED pending_dead

\* Faulty variant: the slot of any client will do.
Bug_SlotOf(e, t) == Active(e)
\* The slots whose client_task is t.
SlotOf(e, t) == Of(e, t)

\* flipc2_ep_cleanup_dead and flipc2_ep_cleanup_dead_reactor: the first slot of
\* the dead task.
CleanupDead(e) ==
  LET t == thread[e].task
  IN /\ At(e, "dead")
     /\ Deallocate(t, 1)
     /\ IF SlotOf(e, t) = {} THEN UNCHANGED <<live, conns, n_clients, pending_dead>>
        ELSE LET i == Min(SlotOf(e, t))
             IN Clear(e, i) /\ DisposeDead(e, conns[e][i])
     /\ HandlerDone(e)
     /\ UNCHANGED <<alive, queue, pending_conn_idx, served, pollset,
                    clientVars, superseded>>

\* ds_flipc2_endpoint_disconnect_rpc.  The right in the message is released by
\* the handler, or with the request when no slot is found; MACH_PORT_DEAD is
\* nobody's client_task.
DisconnectHandler(e) ==
  LET t == thread[e].task
      found == IF thread[e].right THEN SlotOf(e, t) ELSE {}
  IN /\ At(e, "disconnect")
     /\ IF found = {}
        THEN /\ DestroyRequest(e, t, thread[e].right)
             /\ UNCHANGED <<live, conns, n_clients>>
        ELSE LET i == Min(found)
             IN /\ Clear(e, i)
                /\ live' = live \ ChannelsOf(conns[e][i])
                /\ Deallocate(t, 1)
     /\ HandlerDone(e)
     /\ UNCHANGED <<alive, queue, pending_conn_idx, pending_dead, served,
                    pollset, clientVars, superseded>>

-----------------------------------------------------------------------------
(* flipc2_endpoint_pump, flipc2_endpoint_accept and the reactor's loop. *)

\* No event so far in this call.
ResetPending(e) ==
  /\ pending_conn_idx' = [pending_conn_idx EXCEPT ![e] = 0]
  /\ pending_dead' = [pending_dead EXCEPT ![e] = NULL]

\* Faulty variant: a reactor pumps only while it has no clients.
Bug_CanReceive(e) ==
  Open(e) /\ At(e, "idle") /\ queue[e] # <<>> /\ served[e] = {}
\* The thread is in its receive call and there is a message.
CanReceive(e) == Open(e) /\ At(e, "idle") /\ queue[e] # <<>>

\* Receive one message and dispatch it.  The task port in a request arrives as
\* a reference on its name, or as MACH_PORT_DEAD.
Receive(e) ==
  /\ CanReceive(e)
  /\ ResetPending(e)
  /\ LET m == Head(queue[e])
         right == m.kind \in {"connect", "disconnect"} /\ alive[m.task]
         pc == IF m.kind # "send_once" THEN m.kind
               ELSE IF e \in Reactors THEN "event" ELSE "idle"
     IN /\ urefs' = IF right THEN [urefs EXCEPT ![m.task] = @ + 1] ELSE urefs
        /\ thread' = [thread EXCEPT ![e] =
             IF pc \in {"idle", "event"} THEN [Idle EXCEPT !.pc = pc]
             ELSE [Idle EXCEPT !.pc = pc, !.task = m.task, !.right = right]]
  /\ queue' = [queue EXCEPT ![e] = Tail(@)]
  /\ UNCHANGED <<alive, dnrequest, conns, n_clients, live, served,
                 pollset, clientVars, superseded>>

\* The end of a turn of the reactor's loop and flipc2_poll of the next: a
\* reactor with clients may have requests to serve before it pumps again.
NextTurn(e) ==
  \/ thread' = [thread EXCEPT ![e] = Idle]
  \/ /\ served'[e] # {}
     /\ thread' = [thread EXCEPT ![e] = [Idle EXCEPT !.pc = "drain"]]

\* flipc_serve_one has found every reported channel empty.  Until then it
\* serves one request after the other, or waits for room for a reply.
Drained(e) ==
  /\ At(e, "drain")
  /\ thread' = [thread EXCEPT ![e] = Idle]
  /\ UNCHANGED <<kernelVars, epVars, live, served, pollset, clientVars, superseded>>

\* flipc2_endpoint_pump finds no message before the timeout.
PumpTimeout(e) ==
  /\ e \in Reactors /\ At(e, "idle") /\ queue[e] = <<>>
  /\ ResetPending(e)
  /\ UNCHANGED <<kernelVars, conns, n_clients, live, served, pollset, clientVars,
                 superseded>>
  /\ NextTurn(e)

\* FLIPC2_EP_EVENT_NEW: serve the channels and add rev to the pollset, if
\* conns[] has room.
EventNew(e, c) ==
  /\ IF Cardinality(served[e]) < MAX_CONNS
     THEN /\ served' = [served EXCEPT ![e] = @ \cup {Pair(c.fwd, c.rev)}]
          /\ pollset' = [pollset EXCEPT ![e] = @ \cup {c.rev}]
     ELSE UNCHANGED <<served, pollset>>
  /\ UNCHANGED live

\* FLIPC2_EP_EVENT_DEAD: leave the pollset and conns[], then destroy.
EventDead(e, d) ==
  /\ served' = [served EXCEPT ![e] = @ \ {d}]
  /\ pollset' = [pollset EXCEPT ![e] = @ \ {d.rev}]
  /\ live' = live \ ChannelsOf(d)

\* The event that pump returns, and what the reactor does with it.
Event(e) ==
  /\ At(e, "event")
  /\ IF pending_conn_idx[e] # 0 THEN EventNew(e, conns[e][pending_conn_idx[e]])
     ELSE IF pending_dead[e] # NULL THEN EventDead(e, pending_dead[e])
     ELSE UNCHANGED <<live, served, pollset>>
  /\ pending_conn_idx' = [pending_conn_idx EXCEPT ![e] = 0]
  /\ NextTurn(e)
  /\ UNCHANGED <<kernelVars, conns, n_clients, pending_dead, clientVars,
                 superseded>>

\* flipc2_endpoint_destroy, between two calls of accept: the connections go,
\* then the port with the requests in it, whose senders get an error.
Destroy(e) ==
  /\ e \notin Reactors /\ Open(e) /\ At(e, "idle")
  /\ live' = live \ UNION {ChannelsOf(conns[e][i]) : i \in Active(e)}
  /\ urefs' = [t \in Tasks |-> urefs[t] - Cardinality(Of(e, t))]
  /\ dnrequest' = [t \in Tasks |-> IF urefs'[t] = 0 THEN NULL ELSE dnrequest[t]]
  /\ conns' = [conns EXCEPT ![e] = [i \in Idx |-> NULL]]
  /\ n_clients' = [n_clients EXCEPT ![e] = 0]
  /\ queue' = [queue EXCEPT ![e] = NULL]
  /\ waiting' = [t \in Tasks |-> IF waiting[t] = e THEN NULL ELSE waiting[t]]
  /\ UNCHANGED <<alive, pending_conn_idx, pending_dead, thread, served,
                 pollset, handles, mapped, requests, superseded>>

-----------------------------------------------------------------------------

Handler(e) ==
  \/ CreateFwd(e) \/ CreateRev(e) \/ ShareFwd(e) \/ ShareRev(e)
  \/ Notify(e) \/ Reply(e) \/ CleanupDead(e) \/ DisconnectHandler(e)

Pump(e) == Receive(e) \/ Handler(e) \/ Event(e) \/ PumpTimeout(e)

Thread(e) == Pump(e) \/ Drained(e)

Next ==
  \/ \E t \in Tasks : \/ \E e \in Endpoints : Connect(t, e)
                      \/ Disconnect(t) \/ DisconnectRpc(t) \/ Dies(t)
  \/ \E e \in Endpoints : Thread(e) \/ Destroy(e)

Spec == Init /\ [][Next]_vars

\* A reactor goes on with its loop: flipc2_poll and the pump return within
\* their timeouts, and the handlers do not wait for clients.  Nothing makes a
\* drain end: its requests and the room for its replies are up to the clients.
FairSpec == Spec /\ \A e \in Reactors : WF_vars(Pump(e))

-----------------------------------------------------------------------------
(* Properties. *)

\* Channels that thread e is setting up, or is about to destroy.
InHand(e) ==
  LET c == thread[e]
  IN (IF c.pc \in {"rev", "share_fwd", "share_rev", "notify"}
      THEN {c.fwd, c.rev} \ {0} ELSE {})
     \cup (IF c.pc = "event" /\ pending_dead[e] # NULL
           THEN ChannelsOf(pending_dead[e]) ELSE {})

Connected(e) == UNION {ChannelsOf(conns[e][i]) : i \in Active(e)}

\* Every field keeps its type, and an endpoint never has more clients than
\* max_clients: the search for a free slot behind the limit check succeeds.
TypeOK ==
  /\ alive \in [Tasks -> BOOLEAN] /\ superseded \in [Tasks -> BOOLEAN]
  /\ \A e \in Endpoints : Open(e) => \A i \in DOMAIN queue[e] :
       queue[e][i] \in Messages
  /\ urefs \in [Tasks -> Nat]
  /\ dnrequest \in [Tasks -> Endpoints \cup {NULL}]
  /\ live \subseteq Channels
  /\ \A e \in Endpoints : \A i \in Active(e) :
       conns[e][i] \in Conns
  /\ n_clients \in [Endpoints -> 0 .. MAX_CLIENTS]
  /\ pending_conn_idx \in [Endpoints -> Idx \cup {0}]
  /\ \A e \in Endpoints : pollset[e] \subseteq Channels
  /\ waiting \in [Tasks -> Endpoints \cup {NULL}]
  /\ mapped \in [Tasks -> SUBSET Channels]
  /\ requests \in 0 .. MAX_REQUESTS

\* No channel leaks and none is destroyed under a connection: whatever step a
\* client dies in or a creation fails in, the channels that exist are those of
\* the connections and of the handlers at work.
NoChannelLeak ==
  live = UNION {Connected(e) \cup InHand(e) : e \in Endpoints}

\* A reactor's channels are not destroyed under it, neither by the death or the
\* failed connect of a client nor by another endpoint's thread: a step that
\* destroys a channel which a reactor goes on polling is that reactor's own
\* disconnect handler.  (That one does: ds_flipc2_endpoint_disconnect_rpc
\* frees at once, and the pump reports no event for it.)
ReactorKeepsPolled ==
  [][\A e \in Reactors :
       (live \ live') \cap Polled(e)' # {} => At(e, "disconnect")]_vars

\* A connection holds a reference on its client's name, so the name cannot
\* come to mean another task while the slot is compared with it.
NamesHeld ==
  \A t \in Tasks :
    urefs[t] >= Cardinality({p \in Endpoints \X Idx : p[2] \in Of(p[1], t)})

\* The connection of a dead client is cleaned up: its endpoint has the
\* dead-name message before it, unless the client's request was replaced by
\* that of a later connection while it covered this one.
NoStrandedSlot ==
  \A e \in Endpoints, t \in Tasks :
    ~alive[t] /\ Of(e, t) # {} /\ ~superseded[t]
      => Pending(e, "dead", t) \/ (At(e, "dead") /\ thread[e].task = t)

\* A client that lives keeps its channels: no death, no disconnect and no
\* failed connect of ANOTHER client destroys them, as long as the endpoint is.
ClientKeepsChannels ==
  \A t \in Tasks : \A h \in handles[t] :
    Open(h.ep) => /\ ChannelsOf(h) \subseteq live \cap mapped[t]
                  /\ Conn(t, h.fwd, h.rev) \in Range(conns[h.ep])

\* A refused client has nothing left mapped: what is mapped in it are the
\* channels of its handles and of the connection being set up for it.
NoMappingLeft ==
  \A t \in Tasks :
    mapped[t] \subseteq
      (UNION {ChannelsOf(h) : h \in handles[t]})
      \cup (UNION {{thread[e].fwd, thread[e].rev} :
                     e \in {x \in Endpoints : thread[x].task = t}})

\* Nothing is left of a client that failed or died, at whatever step: no
\* channel in the server, no mapping in the client, no slot in the endpoint.
NothingLeaks == NoChannelLeak /\ NoMappingLeft /\ NoStrandedSlot

\* A client that lives is not harmed by what happens to the others: its
\* channels and its name stay.
ClientSafe == ClientKeepsChannels /\ NamesHeld

\* A reactor whose drains end frees the slot and the channels of a client that
\* died, unless the client's dead-name request was replaced by that of a later
\* connection: then nothing reports the death to this endpoint.
DeadReclaimed ==
  \A e \in Reactors, t \in Tasks :
    []<>~At(e, "drain") =>
      ((~alive[t] /\ Of(e, t) # {} /\ ~superseded[t])
         ~> (Of(e, t) = {} /\ At(e, "idle")))

\* A client that connects to a reactor gets an answer, whatever the other
\* clients' connects, disconnects and deaths bring, provided the reactor's
\* drains end: a client that posts without pause keeps it from the port.
ConnectAnswered ==
  \A e \in Reactors, t \in Tasks :
    []<>~At(e, "drain") => ((waiting[t] = e) ~> (waiting[t] # e))
=============================================================================
