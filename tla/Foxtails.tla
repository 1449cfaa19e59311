------------------------------ MODULE Foxtails ------------------------------
(***************************************************************************)
(* The server: the event loop of foxtails/src/main.c, the client table and *)
(* its free list of utils/server.c, and worker_callback of                 *)
(* foxtails/src/worker_loop.c, over the worker pool that JobQueue          *)
(* specifies and WorkerQueue implements.                                   *)
(*                                                                         *)
(* Two threads act: the one that runs main() and the worker that runs      *)
(* worker_callback; JobQueue lets only one worker do so at a time.  What   *)
(* they share is the client table, the free list, the descriptors, the     *)
(* epoll instance and the heap.  A critical section of free_list.lock is   *)
(* one action.                                                             *)
(*                                                                         *)
(* time() is replaced by the age of each client: the seconds since         *)
(* last_recv, counted up to keep_alive_timeout and no further, which is    *)
(* all that the sweep compares.  A peer sends its next request when it has *)
(* the answer to the last.                                                 *)
(***************************************************************************)
EXTENDS Integers, SequencesExt

CONSTANTS Conns,            \* the connections that peers may open
          NoConn,           \* nothing behind a descriptor; the NULL address
          Fds,              \* the numbers accept may return
          NoFd,             \* the socket of a client that never was
          Listen,           \* the event of the listening socket: ptr is NULL
          NoJob,            \* no worker is in worker_callback
          MaxConnections,   \* max_connections
          MaxEvents,        \* maxevents: 32 in the program
          KeepAliveTimeout  \* keep_alive_timeout, in seconds

Slots == 0 .. MaxConnections-1

(* What dispatch_client hands to the pool: a copy of the client, of which  *)
(* worker_callback uses the slot, the descriptor and the address.          *)
ClientCopies == [idx : Slots, fd : Fds \cup {NoFd}, address : Conns \cup {NoConn}]

ASSUME ServerAssumption ==
    /\ NoConn \notin Conns
    /\ NoFd \notin Fds
    /\ IsFiniteSet(Fds)
    /\ Listen \notin Slots
    /\ NoJob \notin ClientCopies
    /\ MaxConnections \in Nat \ {0}
    /\ MaxEvents \in Nat \ {0}
    /\ KeepAliveTimeout \in Nat \ {0}

VARIABLES conns,     \* each connection, as the kernel and its peer see it
          backlog,   \* the connections that wait for accept
          fds,       \* the connection behind each descriptor
          epoll,     \* what is registered with the epoll instance
          clients,   \* server.clients
          free_list, \* server.free_list: data[0 .. head-1]
          keep_on,   \* running, the variable of main.c that SIGINT clears
          mpc,       \* where main is
          events,    \* events[i .. num_events-1], those still to be handled
          i,         \* the slot that a loop over the table is at
          snapshot,  \* the client that the sweep is about to remove
          pending, running, stopped,  \* the pool: see JobQueue
          hpc,       \* where worker_callback is
          req        \* the request it works on, and where it came from

net == <<conns, backlog>>
kernel == <<fds, epoll>>
table == <<clients, free_list>>
main == <<keep_on, mpc, events, i, snapshot>>
pool == <<pending, running, stopped>>
handler == <<hpc, req>>
vars == <<net, kernel, table, main, pool, handler>>

JQ == INSTANCE JobQueue WITH Jobs <- ClientCopies

(* What worker_callback tells apart: a request after whose answer the      *)
(* connection is kept, and one after whose answer it is closed, because    *)
(* http_is_keep_alive says so or because it did not parse.                 *)
Requests == {"keep", "last"}
NoRequest == "none"

(* client_t; idx is the slot itself, and the peer's address, which is      *)
(* allocated by socket_accept, is named by the connection it belongs to.   *)
NoClient == [fd |-> NoFd, address |-> NoConn, age |-> 0,
             is_alive |-> FALSE, in_flight |-> FALSE]

Unregistered == [slot |-> 0, armed |-> FALSE, oneshot |-> FALSE]

(* The process ends by returning from main or by exit(1), or is killed.    *)
Alive == mpc \notin {"exited", "killed"}

-----------------------------------------------------------------------------
Init == /\ conns = [c \in Conns |-> [stage |-> "new", inbox |-> NoRequest,
                                     waiting |-> FALSE, eof |-> FALSE,
                                     address |-> "none"]]
        /\ backlog = <<>>
        /\ fds = [f \in Fds |-> NoConn]
        /\ epoll = [f \in Fds |-> Unregistered]
        /\ clients = [s \in Slots |-> NoClient]
        /\ free_list = [n \in 1 .. MaxConnections |-> MaxConnections - n]
        /\ keep_on = TRUE
        /\ mpc = "wait"
        /\ events = <<>>
        /\ i = 0
        /\ snapshot = [slot |-> 0, client |-> NoClient]
        /\ JQ!Init
        /\ hpc = "idle"
        /\ req = [kind |-> NoRequest, from |-> NoConn]
-----------------------------------------------------------------------------
(* Mutated forms: each is an operation below with one mistake in it, kept  *)
(* to show that the properties can tell the difference.  No specification  *)
(* uses them.                                                              *)

(* int_stack_push that keeps one cell of the stack unused. *)
PushedShort(s) == IF Len(free_list) + 1 < MaxConnections
                  THEN Append(free_list, s)
                  ELSE free_list

(* Registration without EPOLLONESHOT. *)
ClientEventLevel(s) == [slot |-> s, armed |-> TRUE, oneshot |-> FALSE]

(* Registration without EPOLLIN. *)
ClientEventDeaf(s) == [slot |-> s, armed |-> FALSE, oneshot |-> TRUE]

(* close() is forgotten: the descriptor stays open. *)
DescriptorsLeaked(f) == fds

(* The comparison with keep_alive_timeout the wrong way round. *)
ExpiredEarly(cl) == /\ cl.is_alive
                    /\ ~cl.in_flight
                    /\ cl.age <= KeepAliveTimeout

(* continue when the client is not in flight. *)
ExpiredInFlight(cl) == /\ cl.is_alive
                       /\ cl.in_flight
                       /\ cl.age >= KeepAliveTimeout

(* i <= max_connections. *)
LastSlotLate == i = MaxConnections

(* i < max_connections - 1. *)
LastSlotEarly == i + 2 >= MaxConnections

(* while (true): SIGINT is not looked at. *)
LoopOverNever == FALSE

-----------------------------------------------------------------------------
(* Operations of utils/server.c and of the kernel, on the parts of the     *)
(* state they change.                                                      *)

(* int_stack_push: a full stack is reported and left alone. *)
Pushed(s) == IF Len(free_list) < MaxConnections
             THEN Append(free_list, s)
             ELSE free_list

(* What a client is registered with, when it is added and when re-armed. *)
ClientEvent(s) == [slot |-> s, armed |-> TRUE, oneshot |-> TRUE]

(* The descriptors after close(f); epoll forgets a closed descriptor. *)
Descriptors(f) == [fds EXCEPT ![f] = NoConn]

CloseDescriptor(f) == /\ fds' = Descriptors(f)
                      /\ epoll' = [epoll EXCEPT ![f] = Unregistered]

(* The connections after the one behind descriptor f was closed and the    *)
(* address that connection a brought with it was freed.                    *)
Released(f, a) == [c \in Conns |->
                      [conns[c] EXCEPT
                          !.stage = IF c = fds[f] THEN "closed" ELSE @,
                          !.address = IF c # a THEN @
                                      ELSE IF @ = "live" THEN "freed" ELSE "twice"]]

Buried(s) == [clients EXCEPT ![s].is_alive = FALSE]

(* server_remove_client, given slot s and a copy cl of its client. *)
RemoveClient(s, cl) ==
    /\ free_list' = Pushed(s)
    /\ CloseDescriptor(cl.fd)
    /\ conns' = Released(cl.fd, cl.address)
    /\ clients' = Buried(s)
    /\ UNCHANGED backlog

-----------------------------------------------------------------------------
(* The event loop.                                                         *)

LoopOver == ~keep_on

(* A connection has something for recv to return: a request or the end. *)
Readable(c) == c \in Conns /\ (conns[c].inbox # NoRequest \/ conns[c].eof)

(* The descriptors, and Listen, that epoll_wait has something to tell of. *)
Ready == {f \in Fds : epoll[f].armed /\ Readable(fds[f])}
            \cup {l \in {Listen} : backlog # <<>>}

(* epoll_wait returns as many as there is room for, in any order; it times *)
(* out after a millisecond when there are none. *)
EpollResults ==
    UNION {SetToSeqs(S) :
              S \in kSubset(Min({MaxEvents, Cardinality(Ready)}), Ready)}

EpollWait == /\ mpc = "wait"
             /\ ~LoopOver
             /\ \E batch \in EpollResults :
                  /\ events' = [n \in DOMAIN batch |->
                                  IF batch[n] = Listen THEN Listen
                                  ELSE epoll[batch[n]].slot]
                  /\ epoll' = [f \in Fds |->
                                 IF f \in Range(batch) /\ epoll[f].oneshot
                                 THEN [epoll[f] EXCEPT !.armed = FALSE]
                                 ELSE epoll[f]]
             /\ mpc' = "sweep"
             /\ i' = 0
             /\ UNCHANGED <<net, fds, table, keep_on, snapshot, pool, handler>>

(* The sweep closes the clients that have been idle for too long. *)
Expired(cl) == /\ cl.is_alive
               /\ ~cl.in_flight
               /\ cl.age >= KeepAliveTimeout

(* The loops over the table go on behind the last slot. *)
LastSlot == i + 1 = MaxConnections

Advance(here, there) == /\ i' = i + 1
                        /\ mpc' = IF LastSlot THEN there ELSE here

SweepPast == /\ mpc = "sweep"
             /\ ~Expired(clients[i])
             /\ Advance("sweep", "events")
             /\ UNCHANGED <<net, kernel, table, keep_on, events, snapshot,
                            pool, handler>>

(* The client is copied in one critical section ... *)
SweepExpired == /\ mpc = "sweep"
                /\ Expired(clients[i])
                /\ snapshot' = [slot |-> i, client |-> clients[i]]
                /\ mpc' = "reap"
                /\ UNCHANGED <<net, kernel, table, keep_on, events, i,
                               pool, handler>>

(* ... and removed in another. *)
Reap == /\ mpc = "reap"
        /\ RemoveClient(snapshot.slot, snapshot.client)
        /\ Advance("sweep", "events")
        /\ UNCHANGED <<keep_on, events, snapshot, pool, handler>>

EventsDone == /\ mpc = "events"
              /\ events = <<>>
              /\ mpc' = "wait"
              /\ UNCHANGED <<net, kernel, table, keep_on, events, i, snapshot,
                             pool, handler>>

(* A client has data: it is marked ... *)
MarkInFlight == /\ mpc = "events"
                /\ events # <<>>
                /\ Head(events) # Listen
                /\ clients' = [clients EXCEPT ![Head(events)].in_flight = TRUE]
                /\ mpc' = "dispatch"
                /\ UNCHANGED <<net, kernel, free_list, keep_on, events, i,
                               snapshot, pool, handler>>

CopyOf(s) == [idx |-> s, fd |-> clients[s].fd, address |-> clients[s].address]

(* ... and a copy of it is dispatched, once the pool's mutex is free. *)
Dispatch == /\ mpc = "dispatch"
            /\ JQ!Put(CopyOf(Head(events)))
            /\ events' = Tail(events)
            /\ mpc' = "events"
            /\ UNCHANGED <<net, kernel, table, keep_on, i, snapshot, handler>>

(* dispatch_command has no memory for a larger ring and returns. *)
DispatchDropped == /\ mpc = "dispatch"
                   /\ running = NoJob
                   /\ events' = Tail(events)
                   /\ mpc' = "events"
                   /\ UNCHANGED <<net, kernel, table, keep_on, i, snapshot,
                                  pool, handler>>

-----------------------------------------------------------------------------
(* The listening socket: accept until it would block.                      *)

ListenEvent == /\ mpc = "events"
               /\ events # <<>>
               /\ Head(events) = Listen

(* No slot is free: the connections are left in the backlog. *)
AcceptLater == /\ ListenEvent
               /\ free_list = <<>>
               /\ events' = Tail(events)
               /\ UNCHANGED <<net, kernel, table, keep_on, mpc, i, snapshot,
                              pool, handler>>

StartAccepting == /\ ListenEvent
                  /\ free_list # <<>>
                  /\ mpc' = "accept"
                  /\ UNCHANGED <<net, kernel, table, keep_on, events, i,
                                 snapshot, pool, handler>>

WouldBlock == /\ mpc = "accept"
              /\ backlog = <<>>
              /\ events' = Tail(events)
              /\ mpc' = "events"
              /\ UNCHANGED <<net, kernel, table, keep_on, i, snapshot,
                             pool, handler>>

Accepting == /\ mpc = "accept"
             /\ backlog # <<>>
             /\ backlog' = Tail(backlog)
             /\ UNCHANGED <<keep_on, events, i, snapshot, pool, handler>>

(* socket_accept and server_append_client, with a slot and registered. *)
AcceptClient(f) ==
    LET c == Head(backlog)
        s == Last(free_list)
    IN  /\ Accepting
        /\ fds[f] = NoConn
        /\ free_list # <<>>
        /\ free_list' = Front(free_list)
        /\ fds' = [fds EXCEPT ![f] = c]
        /\ epoll' = [epoll EXCEPT ![f] = ClientEvent(s)]
        /\ clients' = [clients EXCEPT ![s] = [fd |-> f, address |-> c,
                                              age |-> 0, is_alive |-> TRUE,
                                              in_flight |-> FALSE]]
        /\ conns' = [conns EXCEPT ![c].stage = "open", ![c].address = "live"]
        /\ UNCHANGED mpc

(* The same when epoll_ctl fails: everything is given back; the slot keeps *)
(* the dead client that was written to it. *)
AcceptUnregistered(f) ==
    LET c == Head(backlog)
        s == Last(free_list)
    IN  /\ Accepting
        /\ fds[f] = NoConn
        /\ free_list # <<>>
        /\ clients' = [clients EXCEPT ![s] = [fd |-> f, address |-> c,
                                              age |-> 0, is_alive |-> FALSE,
                                              in_flight |-> FALSE]]
        /\ conns' = [conns EXCEPT ![c].stage = "closed", ![c].address = "freed"]
        /\ UNCHANGED <<kernel, free_list, mpc>>

(* The same without a slot: 503, which the peer takes for its answer. *)
Reject == LET c == Head(backlog)
          IN  /\ Accepting
              /\ free_list = <<>>
              /\ conns' = [conns EXCEPT ![c].stage = "closed",
                                        ![c].address = "freed",
                                        ![c].waiting = FALSE]
              /\ UNCHANGED <<kernel, table, mpc>>

(* send to a peer that is gone raises SIGPIPE, which nobody handles. *)
RejectBrokenPipe == /\ Accepting
                    /\ free_list = <<>>
                    /\ conns[Head(backlog)].eof
                    /\ mpc' = "killed"
                    /\ UNCHANGED <<conns, kernel, table>>

(* accept fails for another reason than an empty backlog: exit(1). *)
AcceptFails == /\ Accepting
               /\ mpc' = "exited"
               /\ UNCHANGED <<conns, kernel, table>>

-----------------------------------------------------------------------------
(* worker_callback on running, the copy of the client that was dispatched. *)

Peer == fds[running.fd]

StartCallback == /\ Alive
                 /\ JQ!Take
                 /\ hpc' = "recv"
                 /\ UNCHANGED <<net, kernel, table, main, req>>

(* http_recv_message returns a request ... *)
RecvRequest == /\ Alive
               /\ hpc = "recv"
               /\ Peer \in Conns
               /\ conns[Peer].inbox # NoRequest
               /\ req' = [kind |-> conns[Peer].inbox, from |-> Peer]
               /\ conns' = [conns EXCEPT ![Peer].inbox = NoRequest]
               /\ hpc' = "respond"
               /\ UNCHANGED <<backlog, kernel, table, main, pool>>

(* ... or nothing: the peer has closed, or recv has failed. *)
RecvNothing == /\ Alive
               /\ hpc = "recv"
               /\ Peer \in Conns => conns[Peer].inbox = NoRequest
               /\ hpc' = "remove"
               /\ UNCHANGED <<net, kernel, table, main, pool, req>>

(* http_send_response. *)
Respond == /\ Alive
           /\ hpc = "respond"
           /\ conns' = [c \in Conns |-> [conns[c] EXCEPT
                            !.waiting = IF c = Peer THEN FALSE ELSE @]]
           /\ hpc' = IF req.kind = "keep" THEN "rearm" ELSE "remove"
           /\ UNCHANGED <<backlog, kernel, table, main, pool, req>>

RespondBrokenPipe == /\ Alive
                     /\ hpc = "respond"
                     /\ Peer \in Conns
                     /\ conns[Peer].eof
                     /\ mpc' = "killed"
                     /\ UNCHANGED <<net, kernel, table, keep_on, events, i,
                                    snapshot, pool, handler>>

(* EPOLL_CTL_MOD, on a descriptor that epoll knows ... *)
Rearm == /\ Alive
         /\ hpc = "rearm"
         /\ epoll[running.fd] # Unregistered
         /\ epoll' = [epoll EXCEPT ![running.fd] = ClientEvent(running.idx)]
         /\ hpc' = "touch"
         /\ UNCHANGED <<net, fds, table, main, pool, req>>

(* ... may fail all the same, for want of memory. *)
RearmFails == /\ Alive
              /\ hpc = "rearm"
              /\ hpc' = "remove"
              /\ UNCHANGED <<net, kernel, table, main, pool, req>>

(* The connection is kept: last_recv and in_flight, then the return. *)
Touch == /\ Alive
         /\ hpc = "touch"
         /\ clients' = [clients EXCEPT ![running.idx].age = 0,
                                       ![running.idx].in_flight = FALSE]
         /\ hpc' = "idle"
         /\ JQ!Finish
         /\ UNCHANGED <<net, kernel, free_list, main, req>>

RemovePeer == /\ Alive
              /\ hpc = "remove"
              /\ RemoveClient(running.idx, running)
              /\ hpc' = "clear"
              /\ UNCHANGED <<main, pool, req>>

(* in_flight, in a critical section of its own, then the return. *)
ClearInFlight == /\ Alive
                 /\ hpc = "clear"
                 /\ clients' = [clients EXCEPT ![running.idx].in_flight = FALSE]
                 /\ hpc' = "idle"
                 /\ JQ!Finish
                 /\ UNCHANGED <<net, kernel, free_list, main, req>>

-----------------------------------------------------------------------------
(* Shutdown.                                                               *)

(* The handler of SIGINT. *)
Interrupt == /\ Alive
             /\ keep_on
             /\ keep_on' = FALSE
             /\ UNCHANGED <<net, kernel, table, mpc, events, i, snapshot,
                            pool, handler>>

LeaveLoop == /\ mpc = "wait"
             /\ LoopOver
             /\ mpc' = "close"
             /\ i' = 0
             /\ UNCHANGED <<net, kernel, table, keep_on, events, snapshot,
                            pool, handler>>

(* server_delete: the loop over the table, without the lock. *)
CloseClient == /\ mpc = "close"
               /\ IF clients[i].is_alive
                  THEN /\ CloseDescriptor(clients[i].fd)
                       /\ conns' = Released(clients[i].fd, clients[i].address)
                  ELSE UNCHANGED <<conns, kernel>>
               /\ Advance("close", "stop")
               /\ UNCHANGED <<backlog, table, keep_on, events, snapshot,
                              pool, handler>>

(* The listening socket and the epoll instance are closed, then            *)
(* worker_pool_delete waits for the callback that runs, if any.            *)
CloseListener == /\ mpc = "stop"
                 /\ conns' = [c \in Conns |-> [conns[c] EXCEPT
                                 !.stage = IF @ = "backlog" THEN "closed" ELSE @]]
                 /\ backlog' = <<>>
                 /\ epoll' = [f \in Fds |-> Unregistered]
                 /\ mpc' = "join"
                 /\ UNCHANGED <<fds, table, keep_on, events, i, snapshot,
                                pool, handler>>

StopPool == /\ mpc = "join"
            /\ JQ!Stop
            /\ mpc' = "exited"
            /\ UNCHANGED <<net, kernel, table, keep_on, events, i, snapshot,
                           handler>>

-----------------------------------------------------------------------------
(* The peers and the clock.                                                *)

Connect(c) == /\ mpc \notin {"exited", "killed", "join"}
              /\ conns[c].stage = "new"
              /\ conns' = [conns EXCEPT ![c].stage = "backlog"]
              /\ backlog' = Append(backlog, c)
              /\ UNCHANGED <<kernel, table, main, pool, handler>>

Send(c, r) == /\ Alive
              /\ conns[c].stage \in {"backlog", "open"}
              /\ ~conns[c].eof
              /\ ~conns[c].waiting
              /\ conns' = [conns EXCEPT ![c].inbox = r, ![c].waiting = TRUE]
              /\ UNCHANGED <<backlog, kernel, table, main, pool, handler>>

Close(c) == /\ Alive
            /\ conns[c].stage \in {"backlog", "open"}
            /\ ~conns[c].eof
            /\ conns' = [conns EXCEPT ![c].eof = TRUE]
            /\ UNCHANGED <<backlog, kernel, table, main, pool, handler>>

(* A second passes. *)
Tick == /\ Alive
        /\ \E s \in Slots : clients[s].age < KeepAliveTimeout
        /\ clients' = [s \in Slots |->
                         [clients[s] EXCEPT !.age = Min({@ + 1, KeepAliveTimeout})]]
        /\ UNCHANGED <<net, kernel, free_list, main, pool, handler>>
-----------------------------------------------------------------------------
MainStep == \/ EpollWait
            \/ SweepPast
            \/ SweepExpired
            \/ Reap
            \/ EventsDone
            \/ MarkInFlight
            \/ Dispatch
            \/ AcceptLater
            \/ StartAccepting
            \/ WouldBlock
            \/ \E f \in Fds : AcceptClient(f)
            \/ Reject
            \/ RejectBrokenPipe
            \/ AcceptFails
            \/ LeaveLoop
            \/ CloseClient
            \/ CloseListener
            \/ StopPool

CallbackStep == \/ StartCallback
                \/ RecvRequest
                \/ RecvNothing
                \/ Respond
                \/ RespondBrokenPipe
                \/ Rearm
                \/ RearmFails
                \/ Touch
                \/ RemovePeer
                \/ ClearInFlight

ServerStep == MainStep \/ CallbackStep

(* There is no memory for a larger ring, or for a registration. *)
Shortage == DispatchDropped \/ \E f \in Fds : AcceptUnregistered(f)

Talk == \E c \in Conns : Close(c) \/ \E r \in Requests : Send(c, r)

Arrive == \E c \in Conns : Connect(c)

Ended == ~Alive /\ UNCHANGED vars

(* Everything that can happen. *)
Next == ServerStep \/ Shortage \/ Arrive \/ Talk \/ Tick \/ Interrupt \/ Ended

Spec == Init /\ [][Next]_vars

(* Nobody is idle for keep_alive_timeout and nobody interrupts the server; *)
(* peers connect, send and close as they like.                             *)
BusyNext == ServerStep \/ Shortage \/ Arrive \/ Talk \/ Ended

BusySpec == Init /\ [][BusyNext]_vars

(* Peers connect and never send or close, and time passes.                 *)
IdleNext == ServerStep \/ Arrive \/ Tick \/ Ended

IdleSpec == /\ Init /\ [][IdleNext]_vars
            /\ WF_vars(MainStep)
            /\ WF_vars(CallbackStep)
            /\ WF_vars(Tick)

(* Nobody is idle for keep_alive_timeout and there is memory enough; peers *)
(* connect, send and close as they like, SIGINT comes at any time, and the *)
(* server makes progress.                                                  *)
ShutdownNext == ServerStep \/ Arrive \/ Talk \/ Interrupt \/ Ended

ShutdownSpec == /\ Init /\ [][ShutdownNext]_vars
                /\ WF_vars(MainStep)
                /\ WF_vars(CallbackStep)

-----------------------------------------------------------------------------
(* Properties.                                                             *)

ClientType == [fd : Fds \cup {NoFd}, address : Conns \cup {NoConn},
               age : 0 .. KeepAliveTimeout,
               is_alive : BOOLEAN, in_flight : BOOLEAN]

(* The tables, the stack and the program counters have the types of        *)
(* server.h, and the loops over the table stay inside it.                  *)
TypeOK ==
    /\ conns \in [Conns -> [stage : {"new", "backlog", "open", "closed"},
                            inbox : Requests \cup {NoRequest},
                            waiting : BOOLEAN, eof : BOOLEAN,
                            address : {"none", "live", "freed", "twice"}]]
    /\ backlog \in Seq(Conns)
    /\ fds \in [Fds -> Conns \cup {NoConn}]
    /\ epoll \in [Fds -> [slot : Slots, armed : BOOLEAN,
                          oneshot : BOOLEAN]]
    /\ clients \in [Slots -> ClientType]
    /\ free_list \in Seq(Slots) /\ Len(free_list) <= MaxConnections
    /\ keep_on \in BOOLEAN
    /\ mpc \in {"wait", "sweep", "reap", "events", "dispatch", "accept",
                "close", "stop", "join", "exited", "killed"}
    /\ events \in Seq(Slots \cup {Listen})
    /\ i \in 0 .. MaxConnections
    /\ mpc \in {"sweep", "reap", "close"} => i \in Slots
    /\ snapshot \in [slot : Slots, client : ClientType]
    /\ pending \in Seq(ClientCopies)
    /\ running \in ClientCopies \cup {NoJob}
    /\ stopped \in BOOLEAN
    /\ hpc \in {"idle", "recv", "respond", "rearm", "touch", "remove", "clear"}
    /\ hpc = "idle" <=> running = NoJob
    /\ req \in [kind : Requests \cup {NoRequest}, from : Conns \cup {NoConn}]

(* Every slot is either on the free list, once, or holds a live client:    *)
(* server_append_client and server_remove_client, called from two threads, *)
(* neither lose a slot nor hand one out twice.                             *)
SlotsAccounted ==
    /\ IsInjective(free_list)
    /\ \A s \in Slots : s \in Range(free_list) <=> ~clients[s].is_alive

(* The descriptors in use are those of the live clients, one connection    *)
(* each, with the address it came with not yet freed: nothing leaks and    *)
(* no client speaks through another's descriptor.  (Up to server_delete.)  *)
DescriptorsOwned ==
    mpc \notin {"close", "stop", "join", "exited"} =>
    /\ \A s \in Slots : clients[s].is_alive =>
         /\ clients[s].fd \in Fds
         /\ fds[clients[s].fd] = clients[s].address
         /\ conns[clients[s].address].stage = "open"
         /\ conns[clients[s].address].address = "live"
    /\ \A f \in Fds : fds[f] # NoConn =>
         \E s \in Slots : clients[s].is_alive /\ clients[s].fd = f
    /\ \A c \in Conns : conns[c].stage = "open" => c \in Range(fds)

(* Where a client's next event can come from: its registration is armed,   *)
(* or the event is in events[], or queued, or being handled by the worker  *)
(* and not yet re-armed or closed.                                         *)
Armed(s) == {f \in Fds : epoll[f].armed /\ epoll[f].slot = s}
Reported(s) == {n \in DOMAIN events : events[n] = s}
Queued(s) == {n \in DOMAIN pending : pending[n].idx = s}
Handled(s) == {h \in {running} : /\ hpc \in {"recv", "respond", "rearm", "remove"}
                                 /\ h.idx = s}

Claims(s) == Cardinality(Armed(s)) + Cardinality(Reported(s))
                + Cardinality(Queued(s)) + Cardinality(Handled(s))

(* A client is in one of these places at most, and only a live client is:  *)
(* EPOLLONESHOT, events[], the queue and the worker hand it on and never   *)
(* keep it, so no event is handled twice, or for a client that is gone.    *)
ClaimedOnce ==
    \A s \in Slots : Claims(s) <= IF clients[s].is_alive THEN 1 ELSE 0

(* The copies of clients that are queued or worked on are still those of   *)
(* the clients in their slots, although they were made at dispatch_client  *)
(* and the table has been written to since.                                *)
CopiesCurrent ==
    /\ \A n \in DOMAIN pending : pending[n] = CopyOf(pending[n].idx)
    /\ hpc \in {"recv", "respond", "rearm", "remove"} => running = CopyOf(running.idx)

(* The descriptor that worker_callback answers on still belongs to the     *)
(* connection the request was read from.                                   *)
AnswerGoesBack == hpc = "respond" => Peer = req.from /\ conns[Peer].waiting

(* The address that came with a connection is freed once, by whichever of  *)
(* the two threads removes the client (server.c:160).                      *)
FreedOnce == \A c \in Conns : conns[c].address # "twice"

(* "Client closed connection (fd=%d, slot %d)" (worker_loop.c:233): when   *)
(* recv gives worker_callback nothing, the peer has closed, and the        *)
(* descriptor is still that of a connection.                               *)
HangupMeansClosed ==
    [][hpc = "recv" /\ hpc' = "remove" => Peer \in Conns /\ conns[Peer].eof]_vars

(* When server_remove_client is called, from the sweep or from             *)
(* worker_callback, there is room in the free list: int_stack_push reports *)
(* that there is none as an error (server.c:18-20).                        *)
FreeListHasRoom ==
    hpc = "remove" \/ mpc = "reap" => Len(free_list) < MaxConnections

(* A failed send is a warning and no more (http.c:324, http.c:343). *)
SurvivesFailedSend == mpc # "killed"

(* Once the workers are joined no connection is open and every address is  *)
(* freed.                                                                  *)
ShutdownComplete ==
    stopped => \A c \in Conns : /\ conns[c].stage \in {"new", "closed"}
                                /\ conns[c].address # "live"

(* A request on an accepted connection is answered, or the connection is   *)
(* closed, or the process has ended.                                       *)
RequestsAnswered ==
    \A c \in Conns : conns[c].stage = "open" /\ conns[c].waiting
                        ~> ~conns[c].waiting \/ conns[c].stage = "closed" \/ ~Alive

(* A silent connection does not keep its slot: every connection is closed  *)
(* in the end, those that had to wait for a slot included.                 *)
SilentClosed ==
    \A c \in Conns : conns[c].stage \in {"backlog", "open"}
                        ~> conns[c].stage = "closed" \/ ~Alive

(* SIGINT ends the process. *)
InterruptEnds == ~keep_on ~> ~Alive
=============================================================================
