--------------------------- MODULE LifecycleProofs ---------------------------
(***************************************************************************)
(* Proofs about the server over its whole life: the clients that expire,   *)
(* SIGINT, and server_delete, which closes what is left while the worker   *)
(* may still be in worker_callback.                                        *)
(*                                                                         *)
(* ServerInv is the inductive invariant.  As long as main is in its loop   *)
(* it is the books of FoxtailsProofs.  From LeaveLoop on the books are     *)
(* given up: server_delete leaves the clients that it has closed in the    *)
(* table, alive, and the worker may close them again.  What takes their    *)
(* place, Closing, is just enough for the end: whatever is still open is   *)
(* the client of a slot that server_delete has yet to come to.             *)
(*                                                                         *)
(* All of it needs that the sweep has closed nobody whose event somebody   *)
(* had in hand, which the code does not see to.  It is an assumption here, *)
(* CleanSweep, and met when no client expires and when no client sends.    *)
(***************************************************************************)
EXTENDS FoxtailsProofs

-----------------------------------------------------------------------------
(* The parts of the invariant.                                             *)

(* main is in its loop, or ended in it. *)
Looping == {"wait", "sweep", "reap", "events", "dispatch", "accept"}
Serving == keep_on = TRUE \/ mpc \in Looping

(* server_delete comes after SIGINT, and the pool is stopped at its end. *)
Course == /\ mpc \in Leaving => keep_on = FALSE
          /\ stopped = TRUE => mpc = "exited" /\ keep_on = FALSE

(* Nobody holds the address of a connection that is not open. *)
Kept == \A c \in Conns : conns[c].address = "live" => conns[c].stage = "open"

(* The queue and the worker have one copy of a client between them, and it *)
(* is current. *)
Copies == /\ \A n \in DOMAIN pending : /\ Live(pending[n].idx)
                                       /\ pending[n] = CopyOf(pending[n].idx)
                                       /\ ~IsHandled(pending[n].idx)
          /\ \A m, n \in DOMAIN pending : pending[m].idx = pending[n].idx => m = n
          /\ Handling => Live(running.idx) /\ running = CopyOf(running.idx)

(* Live clients have descriptors, each its own. *)
Apart == /\ \A s \in Slots : Live(s) => clients[s].fd \in Fds
         /\ \A s, t \in Slots : Live(s) /\ Live(t) /\ clients[s].fd = clients[t].fd => s = t

(* server_delete has yet to come to the client of connection c. *)
ToClose(c) == \E s \in Slots : /\ mpc = "close" /\ s >= i
                               /\ Live(s)
                               /\ fds[clients[s].fd] = c
                               /\ clients[s].address = c

(* It will come to all that are open or hold an address. *)
Outstanding == \A c \in Conns :
                  conns[c].stage = "open" \/ conns[c].address = "live" => ToClose(c)

Closing == /\ Copies
           /\ Apart
           /\ Outstanding
           /\ mpc = "join" => \A c \in Conns : conns[c].stage # "backlog"

ServerInv == /\ TypeOK /\ AtEvent /\ Snapped /\ Course
             /\ Serving => Books /\ Kept
             /\ mpc \in Leaving => Closing
             /\ ShutdownComplete

-----------------------------------------------------------------------------
(* Where main goes.                                                        *)

(* Nothing happens once the process has ended. *)
LEMMA EndedStays ==
    ASSUME ~Alive, [Next]_vars
    PROVE  UNCHANGED vars
<1>1. mpc \in {"exited", "killed"}
  BY DEF Alive
<1>2. ~MainStep
  BY <1>1 DEF MainStep, EpollWait, SweepPast, SweepExpired, Reap, EventsDone, MarkInFlight,
              Dispatch, AcceptLater, ListenEvent, StartAccepting, WouldBlock, AcceptClient,
              Accepting, Reject, RejectBrokenPipe, AcceptFails, LeaveLoop, CloseClient,
              CloseListener, StopPool
<1>3. ~CallbackStep
  BY DEF CallbackStep, StartCallback, RecvRequest, RecvNothing, Respond, RespondBrokenPipe,
         Rearm, RearmFails, Touch, RemovePeer, ClearInFlight
<1>4. ~(Shortage \/ Arrive \/ Talk \/ Tick \/ Interrupt)
  BY <1>1 DEF Shortage, DispatchDropped, AcceptUnregistered, Accepting, Arrive, Connect, Talk,
              Send, Close, Tick, Interrupt, Alive
<1> QED
  BY <1>2, <1>3, <1>4 DEF Next, ServerStep, Ended

(* SIGINT is not taken back, nobody returns to the loop, the loop is left  *)
(* by LeaveLoop alone, and the pool is stopped by StopPool alone. *)
LEMMA Onward ==
    ASSUME TypeOK, [Next]_vars
    PROVE  /\ keep_on' = TRUE => keep_on = TRUE
           /\ mpc' \in Looping => mpc \in Looping
           /\ mpc' \in Leaving => mpc \in Leaving \/ LeaveLoop
           /\ stopped' = stopped \/ StopPool
<1>1. CASE MainStep \/ Shortage
  BY <1>1 DEF TypeOK, Looping, Leaving, MainStep, Shortage, EpollWait, SweepPast, SweepExpired, Reap,
              Advance, EventsDone, MarkInFlight, Dispatch, DispatchDropped, AcceptLater,
              ListenEvent, StartAccepting, WouldBlock, AcceptClient, AcceptUnregistered,
              Accepting, Reject, RejectBrokenPipe, AcceptFails, LeaveLoop, CloseClient,
              CloseListener, StopPool, pool, JQ!Put
<1>2. CASE CallbackStep
  BY <1>2 DEF CallbackStep, StartCallback, RecvRequest, RecvNothing, Respond, RespondBrokenPipe,
              Rearm, RearmFails, Touch, RemovePeer, ClearInFlight, main, pool, Looping, Leaving,
              JQ!Take, JQ!Finish
<1>3. CASE Arrive \/ Talk \/ Tick \/ Interrupt \/ UNCHANGED vars
  BY <1>3 DEF Arrive, Connect, Talk, Send, Close, Tick, Interrupt, vars, main, pool, TypeOK
<1> QED
  BY <1>1, <1>2, <1>3 DEF Next, ServerStep, Ended

LEMMA NextCourse ==
    ASSUME TypeOK, Course, [Next]_vars
    PROVE  Course'
<1>1. /\ keep_on' = TRUE => keep_on = TRUE
      /\ keep_on \in BOOLEAN /\ keep_on' \in BOOLEAN
  <2>1. keep_on' = keep_on \/ keep_on' = FALSE
    BY DEF Next, ServerStep, MainStep, CallbackStep, Shortage, Arrive, Talk, Ended, EpollWait,
           SweepPast, SweepExpired, Reap, EventsDone, MarkInFlight, Dispatch, DispatchDropped,
           AcceptLater, StartAccepting, WouldBlock, AcceptClient, AcceptUnregistered, Accepting,
           Reject, RejectBrokenPipe, AcceptFails, LeaveLoop, CloseClient, CloseListener, StopPool,
           StartCallback, RecvRequest, RecvNothing, Respond, RespondBrokenPipe, Rearm, RearmFails,
           Touch, RemovePeer, ClearInFlight, Connect, Send, Close, Tick, Interrupt, vars, main
  <2> QED
    BY <2>1, Onward DEF TypeOK
<1>2. CASE StopPool
  BY <1>1, <1>2 DEF StopPool, Course, Leaving
<1>3. ASSUME ~StopPool, stopped' = TRUE
      PROVE  mpc' = "exited" /\ keep_on' = FALSE
  <2>1. stopped = TRUE
    BY <1>3, Onward
  <2>2. ~Alive
    BY <2>1 DEF Course, Alive
  <2> QED
    BY <2>1, <2>2, EndedStays DEF Course, vars, main
<1>4. ASSUME mpc' \in Leaving
      PROVE  keep_on' = FALSE
  <2>1. CASE mpc \in Leaving
    BY <1>1, <2>1 DEF Course
  <2>2. CASE LeaveLoop
    BY <1>1, <2>2 DEF LeaveLoop, LoopOver
  <2> QED
    BY <1>4, <2>1, <2>2, Onward
<1> QED
  BY <1>2, <1>3, <1>4 DEF Course

-----------------------------------------------------------------------------
(* What a step leaves alone. *)

(* What worker_callback changes of the clients and the connections: only   *)
(* its removal of the client tells. *)
LEMMA CallbackClients ==
    ASSUME TypeOK, CallbackStep
    PROVE  /\ \A s \in Slots : /\ clients'[s].fd = clients[s].fd
                               /\ clients'[s].address = clients[s].address
           /\ ~RemovePeer => SameClients /\ SameStages /\ UNCHANGED fds
<1>1. clients \in [Slots -> ClientType] /\ conns \in [Conns -> ConnType]
  BY DEF TypeOK, ConnType
<1>2. CASE StartCallback \/ RecvNothing \/ RespondBrokenPipe \/ Rearm \/ RearmFails
  <2>1. UNCHANGED <<clients, conns, fds>>
    BY <1>2 DEF StartCallback, RecvNothing, RespondBrokenPipe, Rearm, RearmFails, net, kernel, table
  <2> QED
    BY <2>1, UnchangedClients, UnchangedConns
<1>3. CASE RecvRequest
  <2>1. UNCHANGED <<clients, fds>> /\ conns' = [conns EXCEPT ![Peer].inbox = NoRequest]
    BY <1>3 DEF RecvRequest, kernel, table
  <2>2. SameStages
    BY <1>1, <2>1 DEF SameStages, ConnType
  <2> QED
    BY <2>1, <2>2, UnchangedClients
<1>4. CASE Respond
  <2>1. /\ UNCHANGED <<clients, fds>>
        /\ conns' = [c \in Conns |-> [conns[c] EXCEPT !.waiting = IF c = Peer THEN FALSE ELSE @]]
    BY <1>4 DEF Respond, kernel, table
  <2>2. SameStages
    BY <1>1, <2>1 DEF SameStages, ConnType
  <2> QED
    BY <2>1, <2>2, UnchangedClients
<1>5. CASE Touch \/ ClearInFlight
  <2>1. UNCHANGED <<conns, fds>>
    BY <1>5 DEF Touch, ClearInFlight, net, kernel
  <2>2. SameClients
    BY <1>1, <1>5 DEF Touch, ClearInFlight, SameClients, ClientType
  <2> QED
    BY <2>1, <2>2, UnchangedConns DEF SameClients
<1>6. CASE RemovePeer
  BY <1>1, <1>6 DEF RemovePeer, RemoveClient, Buried, ClientType
<1> QED
  BY <1>2, <1>3, <1>4, <1>5, <1>6 DEF CallbackStep, SameClients

(* The peers and the clock change neither. *)
LEMMA WorldClients ==
    ASSUME TypeOK, Talk \/ Tick \/ Interrupt \/ UNCHANGED vars
    PROVE  /\ SameClients /\ SameStages
           /\ UNCHANGED <<fds, mpc, i, snapshot, pending, running, stopped, hpc>>
<1>1. clients \in [Slots -> ClientType] /\ conns \in [Conns -> ConnType]
  BY DEF TypeOK, ConnType
<1>2. UNCHANGED <<fds, mpc, i, snapshot, pending, running, stopped, hpc>>
  BY DEF Talk, Send, Close, Tick, Interrupt, vars, kernel, main, pool, handler
<1>3. SameClients
  <2>1. CASE Tick
    BY <1>1, <2>1 DEF Tick, SameClients, ClientType
  <2>2. CASE UNCHANGED clients
    BY <2>2, UnchangedClients
  <2> QED
    BY <2>1, <2>2 DEF Talk, Send, Close, Interrupt, vars, table
<1>4. SameStages
  <2>1. ASSUME NEW c \in Conns, Close(c) \/ \E r \in Requests : Send(c, r)
        PROVE  SameStages
    <3>1. CASE Close(c)
      BY <1>1, <3>1 DEF Close, SameStages, ConnType
    <3>2. ASSUME NEW r \in Requests, Send(c, r) PROVE SameStages
      BY <1>1, <3>2 DEF Send, SameStages, ConnType
    <3> QED
      BY <2>1, <3>1, <3>2
  <2>2. CASE UNCHANGED conns
    BY <2>2, UnchangedConns
  <2> QED
    BY <2>1, <2>2 DEF Talk, Tick, Interrupt, vars, net
<1> QED
  BY <1>2, <1>3, <1>4

(* What the sweep has copied stays as it was: nobody gets the slot before  *)
(* the client is removed. *)
LEMMA NextSnapped ==
    ASSUME TypeOK, Snapped, [Next]_vars
    PROVE  Snapped'
<1> SUFFICES ASSUME mpc' = "reap"
             PROVE  /\ snapshot'.client.fd = clients'[snapshot'.slot].fd
                    /\ snapshot'.client.address = clients'[snapshot'.slot].address
  BY DEF Snapped
<1>1. CASE SweepExpired
  BY <1>1 DEF SweepExpired, table
<1>2. CASE /\ mpc = "reap" /\ UNCHANGED snapshot
           /\ \A s \in Slots : /\ clients'[s].fd = clients[s].fd
                               /\ clients'[s].address = clients[s].address
  <2>1. snapshot.slot \in Slots
    BY DEF TypeOK
  <2> QED
    BY <1>2, <2>1 DEF Snapped
<1>3. ASSUME ~SweepExpired PROVE ~MainStep /\ ~Shortage
  BY <1>3 DEF MainStep, Shortage, EpollWait, SweepPast, Reap, Advance, EventsDone, MarkInFlight,
              Dispatch, DispatchDropped, AcceptLater, ListenEvent, StartAccepting, WouldBlock,
              AcceptClient, AcceptUnregistered, Accepting, Reject, RejectBrokenPipe, AcceptFails,
              LeaveLoop, CloseClient, CloseListener, StopPool
<1>4. CASE CallbackStep
  <2>1. mpc = "reap" /\ UNCHANGED snapshot
    BY <1>4 DEF CallbackStep, StartCallback, RecvRequest, RecvNothing, Respond, RespondBrokenPipe,
                Rearm, RearmFails, Touch, RemovePeer, ClearInFlight, main
  <2> QED
    BY <1>2, <1>4, <2>1, CallbackClients
<1>5. CASE Arrive
  BY <1>2, <1>5 DEF Arrive, Connect, main, table
<1>6. CASE Talk \/ Tick \/ Interrupt \/ UNCHANGED vars
  BY <1>2, <1>6, WorldClients DEF SameClients
<1> QED
  BY <1>1, <1>3, <1>4, <1>5, <1>6 DEF Next, ServerStep, Ended

-----------------------------------------------------------------------------
(* In the loop.                                                            *)

LEMMA KeptFrame ==
    ASSUME Kept, SameStages
    PROVE  Kept'
BY DEF Kept, SameStages

(* A live client is removed, and its address goes with its connection. *)
LEMMA ReleasedKept ==
    ASSUME TypeOK, Owned, Kept, NEW s \in Slots, Live(s),
           conns' = Released(clients[s].fd, clients[s].address)
    PROVE  Kept'
<1> DEFINE f == clients[s].fd
           a == clients[s].address
<1>1. fds[f] = a /\ conns \in [Conns -> ConnType]
  BY DEF Owned, TypeOK, ConnType
<1>2. conns' = Released(f, a)
  OBVIOUS
<1> HIDE DEF f, a
<1>3. ASSUME NEW c \in Conns, conns'[c].address = "live"
      PROVE  conns'[c].stage = "open"
  <2>1. conns'[c] = [conns[c] EXCEPT
                        !.stage = IF c = a THEN "closed" ELSE @,
                        !.address = IF c # a THEN @
                                    ELSE IF @ = "live" THEN "freed" ELSE "twice"]
    BY <1>1, <1>2 DEF Released
  <2>2. /\ conns'[c].stage = IF c = a THEN "closed" ELSE conns[c].stage
        /\ conns'[c].address = IF c # a THEN conns[c].address
                               ELSE IF conns[c].address = "live" THEN "freed" ELSE "twice"
    BY <1>1, <2>1 DEF ConnType
  <2> QED
    BY <1>3, <2>2 DEF Kept
<1> QED
  BY <1>3 DEF Kept

LEMMA NextKept ==
    ASSUME Sound, Snapped, Kept, mpc \notin Leaving, [Next]_vars, CleanSweep
    PROVE  Kept'
<1>1. TypeOK /\ Owned /\ conns \in [Conns -> ConnType]
  BY DEF Sound, TypeOK, ConnType, Books, Ledger
<1>2. CASE UNCHANGED conns
  BY <1>2, UnchangedConns, KeptFrame
<1>3. ASSUME NEW f \in Fds, AcceptClient(f) \/ AcceptUnregistered(f)
      PROVE  Kept'
  <2>1. Head(backlog) \in Conns
    BY <1>3, NextConnection DEF AcceptClient, AcceptUnregistered
  <2>2. CASE AcceptClient(f)
    BY <1>1, <2>1, <2>2 DEF AcceptClient, Kept, ConnType
  <2>3. CASE AcceptUnregistered(f)
    BY <1>1, <2>1, <2>3 DEF AcceptUnregistered, Kept, ConnType
  <2> QED
    BY <1>3, <2>2, <2>3
<1>4. CASE Reject
  <2>1. Head(backlog) \in Conns
    BY <1>4, NextConnection DEF Reject
  <2> QED
    BY <1>1, <1>4, <2>1 DEF Reject, Kept, ConnType
<1>5. CASE MainStep
  <2>1. ~(CloseClient \/ CloseListener \/ StopPool)
    BY DEF Leaving, CloseClient, CloseListener, StopPool
  <2>2. CASE Reap
    <3>1. snapshot.slot \in Slots /\ Live(snapshot.slot)
      BY <1>1, <2>2 DEF TypeOK, CleanSweep, Unclaimed
    <3>2. conns' = Released(clients[snapshot.slot].fd, clients[snapshot.slot].address)
      BY <2>2 DEF Reap, RemoveClient, Snapped
    <3> QED
      BY <1>1, <3>1, <3>2, ReleasedKept
  <2>3. CASE UNCHANGED conns
    BY <1>2, <2>3
  <2> QED
    BY <1>3, <1>4, <1>5, <2>1, <2>2, <2>3
      DEF MainStep, EpollWait, SweepPast, SweepExpired, EventsDone, MarkInFlight, Dispatch,
          AcceptLater, StartAccepting, WouldBlock, RejectBrokenPipe, AcceptFails, LeaveLoop, net
<1>6. CASE CallbackStep
  <2>1. CASE RemovePeer
    <3>1. /\ running.idx \in Slots /\ Live(running.idx)
          /\ running.fd = clients[running.idx].fd /\ running.address = clients[running.idx].address
      BY <2>1, HandledClient DEF RemovePeer, Handling
    <3>2. conns' = Released(clients[running.idx].fd, clients[running.idx].address)
      BY <2>1, <3>1 DEF RemovePeer, RemoveClient
    <3> QED
      BY <1>1, <3>1, <3>2, ReleasedKept
  <2> QED
    BY <1>1, <1>6, <2>1, CallbackClients, KeptFrame
<1>7. CASE Shortage
  BY <1>2, <1>3, <1>7 DEF Shortage, DispatchDropped, net
<1>8. CASE Arrive
  BY <1>1, <1>8 DEF Arrive, Connect, Kept, ConnType
<1>9. CASE Talk \/ Tick \/ Interrupt \/ UNCHANGED vars
  BY <1>1, <1>9, WorldClients, KeptFrame
<1> QED
  BY <1>5, <1>6, <1>7, <1>8, <1>9 DEF Next, ServerStep, Ended

-----------------------------------------------------------------------------
(* server_delete.                                                          *)

LEMMA CopiesFrame ==
    ASSUME TypeOK, Copies, SameClients, UNCHANGED pending,
           Handling' => Handling /\ UNCHANGED running
    PROVE  Copies'
BY SlotNames DEF Copies, SameClients, Live, IsHandled, Handling, CopyOf

LEMMA ApartFrame ==
    ASSUME Apart, SameClients
    PROVE  Apart'
BY DEF Apart, SameClients, Live

LEMMA OutstandingFrame ==
    ASSUME Outstanding, SameClients, SameStages, UNCHANGED <<fds, mpc, i>>
    PROVE  Outstanding'
BY DEF Outstanding, ToClose, SameClients, SameStages, Live

LEMMA ClosingFrame ==
    ASSUME TypeOK, Closing, SameClients, SameStages, UNCHANGED <<fds, mpc, i, pending>>,
           Handling' => Handling /\ UNCHANGED running
    PROVE  Closing'
BY CopiesFrame, ApartFrame, OutstandingFrame DEF Closing, SameStages

(* When the loop is left all that is open belongs to a slot, and slot 0 is *)
(* the first to come. *)
LEMMA BooksClosing ==
    ASSUME Sound, Kept, LeaveLoop
    PROVE  Closing'
<1>1. /\ TypeOK /\ Owned /\ QueuedOnes /\ HandledOne
  BY DEF Sound, Books, Ledger, Places
<1>2. /\ mpc' = "close" /\ i' = 0
      /\ UNCHANGED <<conns, fds, clients, pending, running, hpc>>
  BY DEF LeaveLoop, net, kernel, table, pool, handler
<1>3. Copies'
  BY <1>1, <1>2 DEF Copies, QueuedOnes, HandledOne, IsHandled, Handling, Live, CopyOf
<1>4. Apart'
  BY <1>1, <1>2, DescriptorsDistinct DEF Apart, Owned, Live
<1>5. ASSUME NEW c \in Conns, conns[c].stage = "open"
      PROVE  ToClose(c)'
  <2>1. PICK f \in Fds : fds[f] = c
    BY <1>1, <1>5 DEF Owned
  <2>2. PICK s \in Slots : Live(s) /\ clients[s].fd = f
    BY <1>1, <2>1, ServerAssumption DEF Owned
  <2>3. clients[s].address = c /\ s >= 0
    BY <1>1, <2>1, <2>2, ServerAssumption DEF Owned, Slots
  <2> QED
    BY <1>2, <2>1, <2>2, <2>3 DEF ToClose, Live
<1>6. Outstanding'
  BY <1>2, <1>5 DEF Outstanding, Kept
<1> QED
  BY <1>2, <1>3, <1>4, <1>6 DEF Closing

(* A client is closed and its address freed: what is still open is what    *)
(* was open of the others. *)
LEMMA ReleasedOutstanding ==
    ASSUME TypeOK, Apart, NEW s \in Slots, Live(s),
           fds' = Descriptors(clients[s].fd),
           conns' = Released(clients[s].fd, clients[s].address),
           NEW c \in Conns, conns'[c].stage = "open" \/ conns'[c].address = "live"
    PROVE  /\ conns[c].stage = "open" \/ conns[c].address = "live"
           /\ \A t \in Slots : Live(t) /\ fds[clients[t].fd] = c /\ clients[t].address = c
                 => t # s /\ fds'[clients[t].fd] = c
<1> DEFINE f == clients[s].fd
           a == clients[s].address
<1>1. /\ conns \in [Conns -> ConnType] /\ fds \in [Fds -> Conns \cup {NoConn}]
      /\ f \in Fds /\ f = clients[s].fd /\ a = clients[s].address
  BY DEF TypeOK, ConnType, Apart
<1>2. conns' = Released(f, a) /\ fds' = [fds EXCEPT ![f] = NoConn]
  BY DEF Descriptors
<1> HIDE DEF f, a
<1>3. /\ conns'[c].stage = IF c = fds[f] THEN "closed" ELSE conns[c].stage
      /\ conns'[c].address = IF c # a THEN conns[c].address
                             ELSE IF conns[c].address = "live" THEN "freed" ELSE "twice"
  <2>1. conns'[c] = [conns[c] EXCEPT
                        !.stage = IF c = fds[f] THEN "closed" ELSE @,
                        !.address = IF c # a THEN @
                                    ELSE IF @ = "live" THEN "freed" ELSE "twice"]
    BY <1>2 DEF Released
  <2> QED
    BY <1>1, <2>1 DEF ConnType
<1>4. conns[c].stage = "open" \/ conns[c].address = "live"
  BY <1>3
<1>5. c # fds[f] \/ c # a
  BY <1>3
<1>6. ASSUME NEW t \in Slots, Live(t), fds[clients[t].fd] = c, clients[t].address = c
      PROVE  t # s /\ fds'[clients[t].fd] = c
  <2>1. t # s
    BY <1>1, <1>5, <1>6
  <2>2. clients[t].fd \in Fds /\ clients[t].fd # f
    BY <1>1, <1>6, <2>1 DEF Apart
  <2> QED
    BY <1>1, <1>2, <1>6, <2>1, <2>2
<1> QED
  BY <1>4, <1>6

(* The loop of server_delete: the client of this slot is done with. *)
LEMMA CloseClientClosing ==
    ASSUME TypeOK, Closing, CloseClient
    PROVE  Closing'
<1>1. /\ mpc = "close" /\ i \in Slots
      /\ UNCHANGED <<clients, pending, running, hpc>>
      /\ i' = i + 1 /\ mpc' = IF LastSlot THEN "stop" ELSE "close"
  BY DEF CloseClient, Advance, TypeOK, table, pool, handler
<1>2. SameClients
  BY <1>1, UnchangedClients
<1>3. Copies' /\ Apart'
  BY <1>1, <1>2, CopiesFrame, ApartFrame DEF Closing, Handling
<1>4. ASSUME NEW c \in Conns, conns'[c].stage = "open" \/ conns'[c].address = "live"
      PROVE  ToClose(c)'
  <2>1. /\ conns[c].stage = "open" \/ conns[c].address = "live"
        /\ \A t \in Slots : Live(t) /\ fds[clients[t].fd] = c /\ clients[t].address = c
              => t # i /\ fds'[clients[t].fd] = c
    <3>1. CASE Live(i)
      <4>1. /\ fds' = Descriptors(clients[i].fd)
            /\ conns' = Released(clients[i].fd, clients[i].address)
        BY <3>1 DEF CloseClient, CloseDescriptor, Live
      <4> QED
        BY <1>1, <1>4, <3>1, <4>1, ReleasedOutstanding DEF Closing
    <3>2. CASE ~Live(i)
      <4>1. UNCHANGED <<conns, fds>>
        BY <3>2 DEF CloseClient, Live, kernel
      <4> QED
        BY <1>4, <3>2, <4>1
    <3> QED
      BY <3>1, <3>2
  <2>2. PICK t \in Slots : t >= i /\ Live(t) /\ fds[clients[t].fd] = c /\ clients[t].address = c
    BY <2>1 DEF Closing, Outstanding, ToClose
  <2>3. t # i /\ fds'[clients[t].fd] = c
    BY <2>1, <2>2
  <2>4. t >= i + 1 /\ ~LastSlot
    BY <1>1, <2>2, <2>3, ServerAssumption DEF Slots, LastSlot
  <2> QED
    BY <1>1, <2>2, <2>3, <2>4 DEF ToClose, Live
<1> QED
  BY <1>1, <1>3, <1>4 DEF Closing, Outstanding

(* The worker removes its client under server_delete, before or after      *)
(* server_delete has come to it. *)
LEMMA RemoveClosing ==
    ASSUME TypeOK, Closing, RemovePeer
    PROVE  Closing'
<1> DEFINE s == running.idx
<1>1. /\ hpc = "remove" /\ hpc' = "clear" /\ RemoveClient(s, running)
      /\ UNCHANGED <<mpc, i, pending, running>>
  BY DEF RemovePeer, main, pool
<1>2. /\ Handling /\ ~Handling' /\ s \in Slots /\ Live(s)
      /\ running.fd = clients[s].fd /\ running.address = clients[s].address
  BY <1>1, SlotNames DEF Handling, Closing, Copies, CopyOf
<1>3. /\ fds' = Descriptors(clients[s].fd)
      /\ conns' = Released(clients[s].fd, clients[s].address)
      /\ clients' = [clients EXCEPT ![s].is_alive = FALSE]
  BY <1>1, <1>2 DEF RemoveClient, CloseDescriptor, Buried
<1> HIDE DEF s
<1>4. /\ \A t \in Slots : /\ clients'[t].fd = clients[t].fd /\ clients'[t].address = clients[t].address
                          /\ (t # s => clients'[t].is_alive = clients[t].is_alive)
      /\ clients'[s].is_alive = FALSE
  BY <1>2, <1>3 DEF TypeOK, ClientType
<1>5. Copies'
  <2>1. \A n \in DOMAIN pending : pending[n].idx \in Slots /\ pending[n].idx # s
    BY <1>2, SlotNames DEF Closing, Copies, IsHandled, s
  <2> QED
    BY <1>1, <1>2, <1>4, <2>1 DEF Closing, Copies, Live, CopyOf, IsHandled
<1>6. Apart'
  BY <1>2, <1>4 DEF Closing, Apart, Live
<1>7. ASSUME NEW c \in Conns, conns'[c].stage = "open" \/ conns'[c].address = "live"
      PROVE  ToClose(c)'
  <2>1. /\ conns[c].stage = "open" \/ conns[c].address = "live"
        /\ \A t \in Slots : Live(t) /\ fds[clients[t].fd] = c /\ clients[t].address = c
              => t # s /\ fds'[clients[t].fd] = c
    BY <1>2, <1>3, <1>7, ReleasedOutstanding DEF Closing
  <2>2. PICK t \in Slots : /\ mpc = "close" /\ t >= i /\ Live(t)
                           /\ fds[clients[t].fd] = c /\ clients[t].address = c
    BY <2>1 DEF Closing, Outstanding, ToClose
  <2> QED
    BY <1>1, <1>4, <2>1, <2>2 DEF ToClose, Live
<1>8. ASSUME mpc = "join", NEW c \in Conns PROVE conns'[c].stage # "backlog"
  BY <1>3, <1>8 DEF Closing, Released, TypeOK
<1> QED
  BY <1>1, <1>5, <1>6, <1>7, <1>8 DEF Closing, Outstanding

(* A copy that was queued is taken up all the same. *)
LEMMA StartClosing ==
    ASSUME TypeOK, Closing, StartCallback
    PROVE  Closing'
<1>1. /\ pending # <<>> /\ pending' = Tail(pending) /\ running' = Head(pending)
      /\ hpc' = "recv" /\ UNCHANGED <<conns, fds, clients, mpc, i>>
  BY DEF StartCallback, JQ!Take, net, kernel, table, main
<1>2. /\ 1 \in DOMAIN pending /\ running' = pending[1]
      /\ \A n \in DOMAIN pending' : /\ n \in Nat /\ n + 1 \in DOMAIN pending /\ n + 1 # 1
                                    /\ pending'[n] = pending[n + 1]
  BY <1>1, TailEntries DEF TypeOK
<1>3. SameClients /\ SameStages
  BY <1>1, UnchangedClients, UnchangedConns
<1>4. Apart' /\ Outstanding'
  BY <1>1, <1>3, ApartFrame, OutstandingFrame DEF Closing
<1>5. Copies'
  <2>1. ASSUME NEW n \in DOMAIN pending'
        PROVE  (/\ Live(pending[n].idx) /\ pending[n] = CopyOf(pending[n].idx)
                /\ ~IsHandled(pending[n].idx))'
    BY <1>1, <1>2, <2>1 DEF Closing, Copies, Live, CopyOf, IsHandled
  <2>2. ASSUME NEW m \in DOMAIN pending', NEW n \in DOMAIN pending',
               pending'[m].idx = pending'[n].idx
        PROVE  m = n
    <3>1. m + 1 = n + 1 /\ m \in Nat /\ n \in Nat
      BY <1>2, <2>2 DEF Closing, Copies
    <3> QED
      BY <3>1
  <2>3. (Live(running.idx) /\ running = CopyOf(running.idx))'
    BY <1>1, <1>2 DEF Closing, Copies, Live, CopyOf
  <2> QED
    BY <2>1, <2>2, <2>3 DEF Copies
<1> QED
  BY <1>1, <1>4, <1>5 DEF Closing

LEMMA NextClosing ==
    ASSUME TypeOK, Course, Closing, mpc \in Leaving, [Next]_vars, mpc' \in Leaving
    PROVE  Closing'
<1>1. CASE MainStep
  <2>1. CASE CloseClient
    BY <2>1, CloseClientClosing
  <2>2. CASE CloseListener
    <3>1. /\ UNCHANGED <<clients, fds, pending, running, hpc>> /\ mpc = "stop" /\ mpc' = "join"
          /\ conns' = [c \in Conns |-> [conns[c] EXCEPT
                          !.stage = IF @ = "backlog" THEN "closed" ELSE @]]
      BY <2>2 DEF CloseListener, table, pool, handler
    <3>2. SameClients
      BY <3>1, UnchangedClients
    <3>3. Copies' /\ Apart'
      BY <3>1, <3>2, CopiesFrame, ApartFrame DEF Closing, Handling
    <3>4. conns \in [Conns -> ConnType]
      BY DEF TypeOK, ConnType
    <3>5. \A c \in Conns : /\ conns'[c].stage = IF conns[c].stage = "backlog" THEN "closed"
                                                ELSE conns[c].stage
                           /\ conns'[c].address = conns[c].address
      BY <3>1, <3>4 DEF ConnType
    <3>6. \A c \in Conns : conns[c].stage # "open" /\ conns[c].address # "live"
      BY <3>1 DEF Closing, Outstanding, ToClose
    <3>7. Outstanding' /\ \A c \in Conns : conns'[c].stage # "backlog"
      BY <3>5, <3>6 DEF Outstanding
    <3> QED
      BY <3>3, <3>7 DEF Closing
  <2> QED
    BY <1>1, <2>1, <2>2
      DEF MainStep, Leaving, EpollWait, SweepPast, SweepExpired, Reap, EventsDone, MarkInFlight,
          Dispatch, AcceptLater, ListenEvent, StartAccepting, WouldBlock, AcceptClient, Accepting,
          Reject, RejectBrokenPipe, AcceptFails, LeaveLoop, StopPool
<1>2. CASE CallbackStep
  <2>1. CASE StartCallback
    BY <2>1, StartClosing
  <2>2. CASE RemovePeer
    BY <2>2, RemoveClosing
  <2>3. CASE RecvRequest \/ RecvNothing \/ Respond \/ Rearm \/ RearmFails \/ Touch \/ ClearInFlight
    <3>1. SameClients /\ SameStages /\ UNCHANGED fds
      <4>1. ~RemovePeer
        BY <2>3 DEF RecvRequest, RecvNothing, Respond, Rearm, RearmFails, Touch, ClearInFlight,
                    RemovePeer
      <4> QED
        BY <1>2, <4>1, CallbackClients
    <3>2. /\ UNCHANGED <<mpc, i, pending>>
          /\ Handling' => Handling /\ UNCHANGED running
      BY <2>3 DEF RecvRequest, RecvNothing, Respond, Rearm, RearmFails, Touch, ClearInFlight,
                  JQ!Finish, Handling, main, pool
    <3> QED
      BY <3>1, <3>2, ClosingFrame
  <2>4. ~RespondBrokenPipe
    BY DEF RespondBrokenPipe, Leaving
  <2> QED
    BY <1>2, <2>1, <2>2, <2>3, <2>4 DEF CallbackStep
<1>3. ~Shortage
  BY DEF Shortage, DispatchDropped, AcceptUnregistered, Accepting, Leaving
<1>4. ASSUME NEW c \in Conns, Connect(c) PROVE Closing'
  <2>1. /\ UNCHANGED <<clients, fds, mpc, i, pending, running, hpc>> /\ mpc # "join"
        /\ conns' = [conns EXCEPT ![c].stage = "backlog"]
    BY <1>4 DEF Connect, table, kernel, main, pool, handler
  <2>2. SameClients
    BY <2>1, UnchangedClients
  <2>3. Copies' /\ Apart'
    BY <2>1, <2>2, CopiesFrame, ApartFrame DEF Closing, Handling
  <2>4. \A d \in Conns : /\ conns'[d].stage = "open" => conns[d].stage = "open"
                         /\ conns'[d].address = conns[d].address
    BY <2>1 DEF TypeOK
  <2>5. Outstanding'
    BY <2>1, <2>4 DEF Closing, Outstanding, ToClose, Live
  <2> QED
    BY <2>1, <2>3, <2>5 DEF Closing
<1>5. CASE Talk \/ Tick \/ Interrupt \/ UNCHANGED vars
  BY <1>5, WorldClients, ClosingFrame DEF Handling
<1> QED
  BY <1>1, <1>2, <1>3, <1>4, <1>5 DEF Next, ServerStep, Arrive, Ended

(* The pool is stopped when all are closed and nobody waits. *)
LEMMA NextComplete ==
    ASSUME TypeOK, Course, ShutdownComplete, mpc \in Leaving => Closing, [Next]_vars
    PROVE  ShutdownComplete'
<1>1. CASE StopPool
  <2>1. mpc = "join" /\ UNCHANGED conns /\ Closing
    BY <1>1 DEF StopPool, Leaving, net
  <2>2. ASSUME NEW c \in Conns
        PROVE  conns[c].stage \in {"new", "closed"} /\ conns[c].address # "live"
    <3>1. conns[c].stage \notin {"open", "backlog"} /\ conns[c].address # "live"
      BY <2>1 DEF Closing, Outstanding, ToClose
    <3>2. conns[c].stage \in {"new", "backlog", "open", "closed"}
      BY DEF TypeOK
    <3> QED
      BY <3>1, <3>2
  <2> QED
    BY <2>1, <2>2 DEF ShutdownComplete
<1>2. CASE ~StopPool
  <2>1. stopped' = stopped /\ stopped \in BOOLEAN
    BY <1>2, Onward DEF TypeOK
  <2>2. CASE stopped = TRUE
    <3>1. ~Alive
      BY <2>2 DEF Course, Alive
    <3>2. UNCHANGED <<conns, stopped>>
      BY <3>1, EndedStays DEF vars, net, pool
    <3> QED
      BY <3>2 DEF ShutdownComplete
  <2>3. CASE stopped = FALSE
    BY <2>1, <2>3 DEF ShutdownComplete
  <2> QED
    BY <2>1, <2>2, <2>3
<1> QED
  BY <1>1, <1>2

-----------------------------------------------------------------------------
(* The whole life of the server.                                           *)

LEMMA InitServer == Init => ServerInv
<1> SUFFICES ASSUME Init PROVE ServerInv
  OBVIOUS
<1>1. /\ mpc = "wait" /\ keep_on = TRUE /\ stopped = FALSE
      /\ \A c \in Conns : conns[c].address = "none"
  BY DEF Init, JQ!Init
<1>2. Snapped /\ Course /\ Kept /\ ShutdownComplete /\ mpc \notin Leaving
  BY <1>1 DEF Snapped, Course, Kept, ShutdownComplete, Leaving
<1> QED
  BY <1>2, InitType, InitBooks DEF ServerInv

LEMMA NextServer ==
    ASSUME ServerInv, [Next]_vars, CleanSweep
    PROVE  ServerInv'
<1>1. TypeOK /\ AtEvent /\ Snapped /\ Course /\ ShutdownComplete
  BY DEF ServerInv
<1>2. TypeOK' /\ AtEvent' /\ Snapped' /\ Course'
  BY <1>1, NextType, NextAtEvent, NextSnapped, NextCourse
<1>3. ASSUME Serving' PROVE Books' /\ Kept'
  <2>1. Serving
    BY <1>1, <1>3, Onward DEF Serving
  <2>2. mpc \notin Leaving
    BY <1>1, <2>1 DEF Serving, Course, Leaving, Looping
  <2>3. Sound /\ Kept
    BY <2>1 DEF ServerInv, Sound
  <2> QED
    BY <1>1, <2>2, <2>3, NextBooks, NextKept
<1>4. ASSUME mpc' \in Leaving PROVE Closing'
  <2>1. CASE mpc \in Leaving
    BY <1>1, <1>4, <2>1, NextClosing DEF ServerInv
  <2>2. CASE LeaveLoop
    <3>1. Serving
      BY <2>2 DEF LeaveLoop, Serving, Looping
    <3> QED
      BY <2>2, <3>1, BooksClosing DEF ServerInv, Sound
  <2> QED
    BY <1>1, <1>4, <2>1, <2>2, Onward
<1>5. ShutdownComplete'
  BY <1>1, NextComplete DEF ServerInv
<1> QED
  BY <1>2, <1>3, <1>4, <1>5 DEF ServerInv

(* A step that changes nothing is no sweep. *)
LEMMA StutterIsClean == TypeOK /\ UNCHANGED vars => CleanSweep
BY DEF CleanSweep, Reap, Advance, vars, main

(* Everything that can happen, but for one thing: the sweep closes nobody  *)
(* whose event somebody has in hand.  While main is in its loop the books  *)
(* are in order; from then on whatever is open waits for server_delete. *)
THEOREM ServerInvariant == Spec /\ [][CleanSweep]_vars => []ServerInv
<1>1. ServerInv /\ [Next]_vars /\ [CleanSweep]_vars => ServerInv'
  <2>1. ServerInv => TypeOK
    BY DEF ServerInv
  <2> QED
    BY <2>1, NextServer, StutterIsClean
<1> QED
  BY <1>1, InitServer, PTL DEF Spec

(* Up to server_delete, with clients that expire, failing calls and SIGINT *)
(* at any time, no slot is lost, no descriptor leaks, no event is handled  *)
(* twice, no copy is stale, no answer goes astray and no address is freed  *)
(* twice, unless it is the sweep that closes a client under the worker:    *)
(* that race is the only way to lose any of them. *)
THEOREM AccountedWhileServing ==
    Spec /\ [][CleanSweep]_vars =>
        [](Serving => /\ SlotsAccounted /\ DescriptorsOwned /\ ClaimedOnce
                      /\ CopiesCurrent /\ AnswerGoesBack /\ FreedOnce)
<1>1. ServerInv => (Serving => /\ SlotsAccounted /\ DescriptorsOwned /\ ClaimedOnce
                               /\ CopiesCurrent /\ AnswerGoesBack /\ FreedOnce)
  <2>1. ServerInv /\ Serving => Sound
    BY DEF ServerInv, Sound
  <2> QED
    BY <2>1, SoundParts, SoundDescriptors, SoundClaims, SoundAnswers
<1> QED
  BY <1>1, ServerInvariant, PTL

(* When recv gives worker_callback nothing the peer has closed, up to      *)
(* server_delete: an interrupted server still tells the truth about it. *)
THEOREM HangupsWhileServing ==
    Spec /\ [][CleanSweep]_vars =>
        [][Serving /\ hpc = "recv" /\ hpc' = "remove" => Peer \in Conns /\ conns[Peer].eof]_vars
<1>1. ServerInv /\ [Next]_vars =>
        [Serving /\ hpc = "recv" /\ hpc' = "remove" => Peer \in Conns /\ conns[Peer].eof]_vars
  BY SoundHangups DEF ServerInv, Sound
<1> QED
  BY <1>1, ServerInvariant, PTL DEF Spec

(* When nobody expires the sweep closes nobody. *)
LEMMA YoungIsClean ==
    Init /\ [][YoungNext]_vars => Spec /\ [][CleanSweep]_vars
<1> DEFINE Inv == TypeOK /\ AtEvent /\ Young
<1>1. Init => Inv
  BY InitType DEF Init, Young, NoClient
<1>2. Inv /\ [YoungNext]_vars => Inv'
  BY NextType, NextAtEvent, NextYoung, YoungNextIsNext
<1>3. Inv /\ [YoungNext]_vars => [Next]_vars /\ [CleanSweep]_vars
  BY YoungNextIsNext DEF Young, CleanSweep, Reap
<1> QED
  BY <1>1, <1>2, <1>3, PTL DEF Spec

(* Once worker_pool_delete has stopped the pool no connection is open and  *)
(* no address is held: server_delete closes all that the worker, which is  *)
(* at work until then, has not closed, whenever SIGINT comes. *)
THEOREM ShutdownLeavesNothing == ShutdownSpec => []ShutdownComplete
<1>1. [ShutdownNext]_vars => [YoungNext]_vars
  BY DEF ShutdownNext, YoungNext
<1>2. ServerInv => ShutdownComplete
  BY DEF ServerInv
<1> QED
  BY <1>1, <1>2, YoungIsClean, ServerInvariant, PTL DEF ShutdownSpec

(* The same with clients that expire, calls that fail and no fairness, as  *)
(* long as the sweep has closed nobody under the worker. *)
THEOREM CleanShutdownLeavesNothing ==
    Spec /\ [][CleanSweep]_vars => []ShutdownComplete
<1>1. ServerInv => ShutdownComplete
  BY DEF ServerInv
<1> QED
  BY <1>1, ServerInvariant, PTL

-----------------------------------------------------------------------------
(* Room in the free list.                                                  *)

(* A live client's slot is not on the free list, which has room for it. *)
LEMMA SoundRoom ==
    ASSUME Sound, NEW s \in Slots, Live(s)
    PROVE  Len(free_list) < MaxConnections
<1>1. /\ free_list \in Seq(Slots) /\ Len(free_list) <= MaxConnections
      /\ IsInjective(free_list) /\ s \notin Range(free_list)
  BY DEF Sound, TypeOK, Books, Ledger, SlotsAccounted, Live
<1> QED
  BY <1>1, RoomForOne, ServerAssumption DEF Slots

(* As long as nobody is idle for too long int_stack_push never reports a   *)
(* full free list: the slot that worker_callback gives back is a live one. *)
THEOREM RoomWhenBusy == BusySpec => []FreeListHasRoom
<1>1. BusyInv => FreeListHasRoom
  <2> SUFFICES ASSUME BusyInv, hpc = "remove" \/ mpc = "reap"
               PROVE  Len(free_list) < MaxConnections
    BY DEF FreeListHasRoom
  <2>1. Handling /\ Sound
    BY DEF BusyInv, Calm, Young, Handling
  <2>2. running.idx \in Slots /\ Live(running.idx)
    BY <2>1, HandledClient
  <2> QED
    BY <2>1, <2>2, SoundRoom
<1> QED
  BY <1>1, BusyInvariant, PTL

-----------------------------------------------------------------------------
(* The sweep of silent clients.                                            *)

(* Nobody sends or closes, so the worker has nothing to do, and the client *)
(* that the sweep is about to close is still there. *)
Silent == /\ keep_on = TRUE /\ mpc \notin Leaving
          /\ hpc = "idle" /\ pending = <<>>
          /\ \A n \in DOMAIN events : events[n] = Listen
          /\ \A c \in Conns : conns[c].inbox = NoRequest /\ conns[c].eof = FALSE
          /\ mpc = "reap" => Live(snapshot.slot)

IdleInv == Sound /\ Snapped /\ Silent

LEMMA IdleNextIsNext == [IdleNext]_vars => [Next]_vars
BY DEF IdleNext, Next

(* The steps that are left to a server nobody speaks to. *)
IdleMain == \/ EpollWait \/ SweepPast \/ SweepExpired \/ Reap \/ EventsDone
            \/ AcceptLater \/ StartAccepting \/ WouldBlock
            \/ (\E f \in Fds : AcceptClient(f)) \/ Reject \/ AcceptFails

LEMMA IdleSteps ==
    ASSUME IdleInv, [IdleNext]_vars
    PROVE  IdleMain \/ Arrive \/ Tick \/ UNCHANGED vars
<1>1. /\ TypeOK /\ AtEvent /\ Silent
  BY DEF IdleInv, Sound
<1>2. ~CallbackStep
  <2>1. ~StartCallback
    BY <1>1 DEF Silent, StartCallback, JQ!Take
  <2> QED
    BY <1>1, <2>1 DEF Silent, CallbackStep, RecvRequest, RecvNothing, Respond, RespondBrokenPipe,
                      Rearm, RearmFails, Touch, RemovePeer, ClearInFlight
<1>3. events # <<>> => Head(events) = Listen
  BY <1>1, TailEntries DEF TypeOK, Silent
<1>4. ~MarkInFlight /\ ~Dispatch
  BY <1>1, <1>3 DEF MarkInFlight, Dispatch, AtEvent
<1>5. ~RejectBrokenPipe
  <2>1. ASSUME RejectBrokenPipe PROVE Head(backlog) \in Conns
    BY <2>1, NextConnection DEF RejectBrokenPipe, IdleInv
  <2> QED
    BY <1>1, <2>1 DEF RejectBrokenPipe, Silent
<1>6. ~(LeaveLoop \/ CloseClient \/ CloseListener \/ StopPool)
  BY <1>1 DEF Silent, Leaving, LeaveLoop, LoopOver, CloseClient, CloseListener, StopPool
<1> QED
  BY <1>2, <1>4, <1>5, <1>6 DEF IdleNext, ServerStep, MainStep, IdleMain, Ended

LEMMA NextIdle ==
    ASSUME IdleInv, [IdleNext]_vars
    PROVE  IdleInv'
<1>1. TypeOK /\ AtEvent /\ Snapped /\ Silent /\ [Next]_vars
  BY IdleNextIsNext DEF IdleInv, Sound
<1>2. CleanSweep
  <2> SUFFICES ASSUME Reap PROVE Unclaimed(snapshot.slot)
    BY DEF CleanSweep
  <2>1. snapshot.slot \in Slots /\ Live(snapshot.slot)
    BY <1>1 DEF Reap, Silent, TypeOK
  <2>2. snapshot.slot # Listen
    BY <2>1, ServerAssumption
  <2> QED
    BY <1>1, <2>1, <2>2 DEF Silent, Unclaimed, IsQueued, IsHandled, Handling
<1>3. TypeOK' /\ AtEvent' /\ Snapped' /\ Books'
  BY <1>1, <1>2, NextType, NextAtEvent, NextSnapped, NextBooks DEF IdleInv, Silent
<1>4. IdleMain \/ Arrive \/ Tick \/ UNCHANGED vars
  BY IdleSteps
<1>5. /\ keep_on' = TRUE /\ mpc' \notin Leaving /\ hpc' = "idle" /\ pending' = <<>>
  BY <1>1, <1>4
    DEF Silent, Leaving, IdleMain, EpollWait, SweepPast, SweepExpired, Reap, Advance, EventsDone,
        AcceptLater, ListenEvent, StartAccepting, WouldBlock, AcceptClient, Accepting, Reject,
        AcceptFails, Arrive, Connect, Tick, vars, main, pool, handler
<1>6. \A c \in Conns : conns'[c].inbox = NoRequest /\ conns'[c].eof = FALSE
  <2>1. conns \in [Conns -> ConnType]
    BY <1>1 DEF TypeOK, ConnType
  <2>2. CASE UNCHANGED conns
    BY <1>1, <2>2 DEF Silent
  <2>3. CASE Reap
    <3>1. PICK f, a : conns' = Released(f, a)
      BY <2>3 DEF Reap, RemoveClient
    <3>2. ASSUME NEW c \in Conns
          PROVE  conns'[c].inbox = conns[c].inbox /\ conns'[c].eof = conns[c].eof
      BY <2>1, <3>1 DEF Released, ConnType
    <3> QED
      BY <1>1, <3>2 DEF Silent
  <2>4. CASE (\E f \in Fds : AcceptClient(f)) \/ Reject
    BY <1>1, <2>1, <2>4 DEF AcceptClient, Reject, Silent, ConnType
  <2>5. CASE Arrive
    BY <1>1, <2>1, <2>5 DEF Arrive, Connect, Silent, ConnType
  <2> QED
    BY <1>4, <2>2, <2>3, <2>4, <2>5
      DEF IdleMain, EpollWait, SweepPast, SweepExpired, EventsDone, AcceptLater, StartAccepting,
          WouldBlock, AcceptFails, Tick, vars, net
<1>7. ASSUME NEW n \in DOMAIN events' PROVE events'[n] = Listen
  <2> SUFFICES ASSUME events'[n] # Listen PROVE FALSE
    OBVIOUS
  <2>1. events'[n] \in Slots
    BY <1>3, <1>7 DEF TypeOK
  <2>2. clients'[events'[n]].address \in Conns
    BY <1>3, <1>7, <2>1 DEF Books, Ledger, Owned, Places, ReportedOnes, Live
  <2>3. Hears(clients[events[n]].address)'
    BY <1>3, <1>7 DEF Books, Heard
  <2> QED
    BY <1>6, <2>2, <2>3 DEF Hears
<1>8. ASSUME mpc' = "reap" PROVE Live(snapshot.slot)'
  <2>1. CASE SweepExpired
    BY <2>1 DEF SweepExpired, Expired, Live, table
  <2>2. CASE mpc = "reap" /\ UNCHANGED snapshot /\ SameClients
    BY <1>1, <2>2 DEF Silent, SameClients, Live, TypeOK
  <2>3. CASE Arrive
    BY <1>8, <2>2, <2>3, UnchangedClients DEF Arrive, Connect, main, table
  <2>4. CASE Tick \/ UNCHANGED vars
    BY <1>1, <1>8, <2>2, <2>4, WorldClients
  <2> QED
    BY <1>4, <1>8, <2>1, <2>3, <2>4
      DEF IdleMain, EpollWait, SweepPast, Reap, Advance, EventsDone, AcceptLater, ListenEvent,
          StartAccepting, WouldBlock, AcceptClient, Accepting, Reject, AcceptFails
<1> QED
  BY <1>3, <1>5, <1>6, <1>7, <1>8 DEF IdleInv, Sound, Silent

(* The sweep closes silent clients cleanly: no slot is lost or doubled, no *)
(* descriptor leaks, no address is freed twice and the free list has room, *)
(* whatever the order in which they connect, expire and are replaced. *)
THEOREM SilentSweptCleanly ==
    IdleSpec => [](SlotsAccounted /\ DescriptorsOwned /\ FreedOnce /\ FreeListHasRoom)
<1>1. Init => IdleInv
  <2> SUFFICES ASSUME Init PROVE IdleInv
    OBVIOUS
  <2>1. Snapped /\ Silent
    BY DEF Init, JQ!Init, Snapped, Silent, Leaving
  <2> QED
    BY <2>1, InitType, InitBooks DEF IdleInv, Sound
<1>2. IdleInv /\ [IdleNext]_vars => IdleInv'
  BY NextIdle
<1>3. IdleInv => SlotsAccounted /\ DescriptorsOwned /\ FreedOnce /\ FreeListHasRoom
  <2> SUFFICES ASSUME IdleInv PROVE FreeListHasRoom
    BY SoundParts, SoundDescriptors DEF IdleInv
  <2>1. mpc = "reap" => snapshot.slot \in Slots /\ Live(snapshot.slot)
    BY DEF IdleInv, Silent, Sound, TypeOK
  <2>2. hpc # "remove"
    BY DEF IdleInv, Silent
  <2> QED
    BY <2>1, <2>2, SoundRoom DEF IdleInv, FreeListHasRoom
<1> QED
  BY <1>1, <1>2, <1>3, PTL DEF IdleSpec

-----------------------------------------------------------------------------
(* Whatever the sweep does: what holds of everything that can happen.      *)

(* Slot s has had a client. *)
Known(s) == clients[s].fd \in Fds /\ clients[s].address \in Conns

(* Job j is a copy of a client. *)
Genuine(j) == j.fd \in Fds /\ j.address \in Conns /\ Known(j.idx)

LiveKnown == \A s \in Slots : Live(s) => Known(s)
ArmedKnown == \A f \in Fds : epoll[f].armed => Known(epoll[f].slot)
EventsKnown == \A n \in DOMAIN events : events[n] # Listen => Known(events[n])
JobsKnown == /\ \A n \in DOMAIN pending : Genuine(pending[n])
             /\ running # NoJob => Genuine(running)
ReapKnown == mpc = "reap" => /\ snapshot.client.fd \in Fds
                             /\ snapshot.client.address \in Conns

Traced == LiveKnown /\ ArmedKnown /\ EventsKnown /\ JobsKnown /\ ReapKnown

(* Who writes what. *)
LEMMA Writers ==
    ASSUME TypeOK, AtEvent, [Next]_vars
    PROVE  /\ \/ UNCHANGED clients
              \/ MarkInFlight \/ Reap \/ CallbackStep \/ Tick
              \/ \E f \in Fds : AcceptClient(f) \/ AcceptUnregistered(f)
           /\ \/ UNCHANGED epoll
              \/ EpollWait \/ Reap \/ Rearm \/ RemovePeer \/ CloseClient \/ CloseListener
              \/ \E f \in Fds : AcceptClient(f)
           /\ \/ UNCHANGED events
              \/ EpollWait
              \/ events # <<>> /\ events' = Tail(events)
           /\ \/ UNCHANGED pending
              \/ Dispatch
              \/ StartCallback
           /\ running' \in {running, NoJob} \/ StartCallback
           /\ \/ mpc' # "reap"
              \/ SweepExpired
              \/ mpc = "reap" /\ UNCHANGED snapshot
<1>1. CASE MainStep
  BY <1>1 DEF MainStep, EpollWait, SweepPast, SweepExpired, Reap, Advance, EventsDone, MarkInFlight,
              Dispatch, AcceptLater, ListenEvent, StartAccepting, WouldBlock, AcceptClient,
              Accepting, Reject, RejectBrokenPipe, AcceptFails, LeaveLoop, CloseClient,
              CloseListener, StopPool, AtEvent, JQ!Put, JQ!Stop, table, kernel, pool
<1>2. CASE CallbackStep
  BY <1>2 DEF CallbackStep, StartCallback, RecvRequest, RecvNothing, Respond, RespondBrokenPipe,
              Rearm, RearmFails, Touch, RemovePeer, ClearInFlight, JQ!Finish, kernel, main, pool
<1>3. CASE Shortage
  BY <1>3 DEF Shortage, DispatchDropped, AcceptUnregistered, Accepting, AtEvent, table, kernel, pool
<1>4. CASE Arrive \/ Talk \/ Tick \/ Interrupt \/ UNCHANGED vars
  BY <1>4 DEF Arrive, Connect, Talk, Send, Close, Tick, Interrupt, vars, table, kernel, main, pool
<1> QED
  BY <1>1, <1>2, <1>3, <1>4 DEF Next, ServerStep, Ended

(* A slot that has had a client is never again as if it had not. *)
LEMMA NextKnown ==
    ASSUME TypeOK, AtEvent, Waiting, LiveKnown, [Next]_vars
    PROVE  /\ \A s \in Slots : Known(s) => Known(s)'
           /\ LiveKnown'
<1>1. clients \in [Slots -> ClientType]
  BY DEF TypeOK
<1>2. CASE \A s \in Slots : /\ clients'[s].fd = clients[s].fd /\ clients'[s].address = clients[s].address
                            /\ clients'[s].is_alive => clients[s].is_alive
  BY <1>2 DEF Known, LiveKnown, Live
<1>3. CASE MarkInFlight
  BY <1>1, <1>2, <1>3 DEF MarkInFlight, ClientType
<1>4. CASE Reap \/ RemovePeer
  <2>1. PICK t : clients' = [clients EXCEPT ![t].is_alive = FALSE]
    BY <1>4 DEF Reap, RemovePeer, RemoveClient, Buried
  <2> QED
    BY <1>1, <1>2, <2>1 DEF ClientType
<1>5. CASE CallbackStep /\ ~RemovePeer
  BY <1>2, <1>5, CallbackClients DEF SameClients
<1>6. CASE Tick
  BY <1>2, <1>6, WorldClients DEF SameClients
<1>7. ASSUME NEW f \in Fds, AcceptClient(f) \/ AcceptUnregistered(f)
      PROVE  (\A s \in Slots : Known(s) => Known(s)') /\ LiveKnown'
  <2>1. PICK b \in BOOLEAN :
          clients' = [clients EXCEPT ![Last(free_list)] =
                        [fd |-> f, address |-> Head(backlog), age |-> 0, is_alive |-> b,
                         in_flight |-> FALSE]]
    BY <1>7 DEF AcceptClient, AcceptUnregistered
  <2>2. Head(backlog) \in Conns
    BY <1>7, FirstInLine DEF AcceptClient, AcceptUnregistered
  <2>3. \A s \in Slots : clients'[s] = clients[s] \/ Known(s)'
    BY <1>1, <2>1, <2>2 DEF Known
  <2> QED
    BY <2>3 DEF Known, LiveKnown, Live
<1>8. CASE UNCHANGED clients
  BY <1>2, <1>8
<1> QED
  BY <1>3, <1>4, <1>5, <1>6, <1>7, <1>8, Writers

LEMMA NextArmedKnown ==
    ASSUME TypeOK, AtEvent, Waiting, LiveKnown, ArmedKnown, JobsKnown, [Next]_vars
    PROVE  ArmedKnown'
<1>1. \A s \in Slots : Known(s) => Known(s)'
  BY NextKnown
<1>2. epoll \in [Fds -> EventType] /\ \A f \in Fds : epoll[f].slot \in Slots
  BY SlotNames DEF TypeOK, EventType
<1>3. CASE \A f \in Fds : epoll'[f].armed => epoll[f].armed /\ epoll'[f].slot = epoll[f].slot
  BY <1>1, <1>2, <1>3 DEF ArmedKnown
<1>4. CASE UNCHANGED epoll
  BY <1>3, <1>4
<1>5. CASE EpollWait
  <2>1. PICK batch : epoll' = [f \in Fds |-> IF f \in Range(batch) /\ epoll[f].oneshot
                                             THEN [epoll[f] EXCEPT !.armed = FALSE]
                                             ELSE epoll[f]]
    BY <1>5 DEF EpollWait
  <2>2. ASSUME NEW f \in Fds, epoll'[f].armed PROVE epoll'[f] = epoll[f]
    BY <1>2, <2>1, <2>2 DEF EventType
  <2> QED
    BY <1>3, <2>2
<1>6. CASE Reap \/ RemovePeer \/ CloseClient \/ CloseListener
  <2>1. \A f \in Fds : epoll'[f] \in {epoll[f], Unregistered}
    <3>1. CASE \E g : epoll' = [epoll EXCEPT ![g] = Unregistered]
      BY <1>2, <3>1
    <3>2. CASE UNCHANGED epoll \/ epoll' = [f \in Fds |-> Unregistered]
      BY <3>2
    <3> QED
      BY <1>6, <3>1, <3>2
        DEF Reap, RemovePeer, RemoveClient, CloseClient, CloseDescriptor, CloseListener, kernel
  <2> QED
    BY <1>3, <2>1 DEF Unregistered
<1>7. CASE Rearm
  <2>1. running # NoJob /\ running.idx \in Slots
    BY <1>7, SlotNames DEF Rearm, TypeOK
  <2>2. clients'[running.idx].fd \in Fds /\ clients'[running.idx].address \in Conns
    BY <1>1, <2>1 DEF JobsKnown, Genuine, Known
  <2>3. \A f \in Fds : epoll'[f] = epoll[f] \/ epoll'[f].slot = running.idx
    BY <1>2, <1>7 DEF Rearm, ClientEvent
  <2> QED
    BY <1>1, <1>2, <2>2, <2>3 DEF ArmedKnown, Known
<1>8. ASSUME NEW f \in Fds, AcceptClient(f) PROVE ArmedKnown'
  <2> DEFINE s == Last(free_list)
  <2>1. /\ epoll' = [epoll EXCEPT ![f] = ClientEvent(s)]
        /\ clients' = [clients EXCEPT ![s] = [fd |-> f, address |-> Head(backlog), age |-> 0,
                                              is_alive |-> TRUE, in_flight |-> FALSE]]
        /\ free_list # <<>> /\ Accepting
    BY <1>8 DEF AcceptClient
  <2>2. s \in Slots
    BY <2>1, FrontLast DEF TypeOK
  <2>3. Head(backlog) \in Conns
    BY <2>1, FirstInLine
  <2> HIDE DEF s
  <2>4. clients'[s].fd \in Fds /\ clients'[s].address \in Conns
    BY <2>1, <2>2, <2>3 DEF TypeOK
  <2>5. \A g \in Fds : epoll'[g] = epoll[g] \/ epoll'[g].slot = s
    BY <1>2, <2>1 DEF ClientEvent
  <2> QED
    BY <1>1, <1>2, <2>4, <2>5 DEF ArmedKnown, Known
<1> QED
  BY <1>4, <1>5, <1>6, <1>7, <1>8, Writers

LEMMA NextEventsKnown ==
    ASSUME TypeOK, AtEvent, Waiting, LiveKnown, ArmedKnown, EventsKnown, [Next]_vars
    PROVE  EventsKnown'
<1>1. \A s \in Slots : Known(s) => Known(s)'
  BY NextKnown
<1>2. \A n \in DOMAIN events : events[n] # Listen => events[n] \in Slots
  BY SlotNames
<1>3. CASE UNCHANGED events
  BY <1>1, <1>2, <1>3 DEF EventsKnown, Known
<1>4. CASE events # <<>> /\ events' = Tail(events)
  <2>1. \A n \in DOMAIN events' : n + 1 \in DOMAIN events /\ events'[n] = events[n + 1]
    BY <1>4, TailEntries DEF TypeOK
  <2> QED
    BY <1>1, <1>2, <2>1 DEF EventsKnown, Known
<1>5. CASE EpollWait
  <2>1. PICK batch \in EpollResults :
          events' = [n \in DOMAIN batch |-> IF batch[n] = Listen THEN Listen
                                            ELSE epoll[batch[n]].slot]
    BY <1>5 DEF EpollWait
  <2>2. \A n \in DOMAIN batch : batch[n] \in Ready
    BY BatchType
  <2>3. ASSUME NEW n \in DOMAIN events', events'[n] # Listen
        PROVE  \E f \in Fds : epoll[f].armed /\ events'[n] = epoll[f].slot
    BY <2>1, <2>2, <2>3 DEF Ready
  <2>4. UNCHANGED clients
    BY <1>5 DEF EpollWait, table
  <2> QED
    BY <2>3, <2>4 DEF EventsKnown, ArmedKnown, Known
<1> QED
  BY <1>3, <1>4, <1>5, Writers

LEMMA NextJobsKnown ==
    ASSUME TypeOK, AtEvent, Waiting, LiveKnown, EventsKnown, JobsKnown, [Next]_vars
    PROVE  JobsKnown'
<1>1. \A s \in Slots : Known(s) => Known(s)'
  BY NextKnown
<1>2. /\ \A n \in DOMAIN pending : pending[n] \in ClientCopies
      /\ running # NoJob => running \in ClientCopies
  BY SlotNames DEF TypeOK
<1>3. ASSUME NEW j \in ClientCopies, Genuine(j)
      PROVE  Genuine(j)'
  <2>1. j.idx \in Slots
    BY DEF ClientCopies
  <2> QED
    BY <1>1, <1>3, <2>1 DEF Genuine
<1>4. ASSUME NEW n \in DOMAIN pending'
      PROVE  Genuine(pending[n])'
  <2>1. CASE UNCHANGED pending
    BY <1>2, <1>3, <1>4, <2>1 DEF JobsKnown
  <2>2. CASE Dispatch
    <3>1. /\ events # <<>> /\ Head(events) # Listen /\ UNCHANGED clients
          /\ pending' = Append(pending, CopyOf(Head(events)))
      BY <2>2 DEF Dispatch, JQ!Put, AtEvent, table
    <3>2. Known(Head(events)) /\ Head(events) \in Slots
      BY <3>1, TailEntries DEF EventsKnown, TypeOK
    <3>3. CopyOf(Head(events)) \in ClientCopies /\ Genuine(CopyOf(Head(events)))
      BY <3>2 DEF Genuine, Known, CopyOf, ClientCopies
    <3> DEFINE j == CopyOf(Head(events))
    <3>4. j \in ClientCopies /\ Genuine(j) /\ pending' = Append(pending, j)
      BY <3>1, <3>3
    <3> HIDE DEF j
    <3>5. \A m \in DOMAIN Append(pending, j) : m \in DOMAIN pending \/ m = Len(pending) + 1
      BY <3>4, AppendEntries DEF TypeOK
    <3>6. /\ Append(pending, j)[Len(pending) + 1] = j
          /\ \A m \in DOMAIN pending : Append(pending, j)[m] = pending[m]
      BY <3>4, AppendEntries DEF TypeOK
    <3>7. \/ pending'[n] = j
          \/ n \in DOMAIN pending /\ pending'[n] = pending[n]
      BY <1>4, <3>4, <3>5, <3>6
    <3> QED
      BY <1>2, <1>3, <3>4, <3>7 DEF JobsKnown
  <2>3. CASE StartCallback
    <3>1. n + 1 \in DOMAIN pending /\ pending'[n] = pending[n + 1]
      BY <1>4, <2>3, TailEntries DEF StartCallback, JQ!Take, TypeOK
    <3> QED
      BY <1>2, <1>3, <3>1 DEF JobsKnown
  <2> QED
    BY <2>1, <2>2, <2>3, Writers
<1>5. ASSUME running' # NoJob
      PROVE  Genuine(running)'
  <2>1. CASE StartCallback
    <3>1. 1 \in DOMAIN pending /\ running' = pending[1]
      BY <2>1, TailEntries DEF StartCallback, JQ!Take, TypeOK
    <3> QED
      BY <1>2, <1>3, <3>1 DEF JobsKnown
  <2>2. CASE running' = running
    BY <1>2, <1>3, <1>5, <2>2 DEF JobsKnown
  <2> QED
    BY <1>5, <2>1, <2>2, Writers
<1> QED
  BY <1>4, <1>5 DEF JobsKnown

LEMMA NextReapKnown ==
    ASSUME TypeOK, AtEvent, LiveKnown, ReapKnown, [Next]_vars
    PROVE  ReapKnown'
<1>1. CASE SweepExpired
  <2>1. i \in Slots /\ Live(i) /\ snapshot' = [slot |-> i, client |-> clients[i]]
    BY <1>1 DEF SweepExpired, Expired, TypeOK, Live
  <2> QED
    BY <2>1 DEF LiveKnown, Known, ReapKnown
<1>2. CASE mpc' # "reap" \/ (mpc = "reap" /\ UNCHANGED snapshot)
  BY <1>2 DEF ReapKnown
<1> QED
  BY <1>1, <1>2, Writers

(* The connections behind descriptors have left the backlog. *)
Passed == \A f \in Fds : fds[f] # NoConn => conns[fds[f]].stage \in {"open", "closed"}

SafeInv == TypeOK /\ AtEvent /\ Snapped /\ Traced /\ Waiting /\ Passed

(* The course of a connection. *)
Stages == {<<"new", "backlog">>, <<"backlog", "open">>, <<"backlog", "closed">>,
           <<"open", "closed">>}

Goes(c) == \/ conns'[c].stage = conns[c].stage
           \/ <<conns[c].stage, conns'[c].stage>> \in Stages

(* Whoever closes a descriptor closes a connection that was accepted. *)
LEMMA ReleasedGoes ==
    ASSUME TypeOK, Passed, NEW f \in Fds, NEW a, conns' = Released(f, a), NEW c \in Conns
    PROVE  /\ conns[c].stage \in {"new", "backlog"} => conns'[c].stage = conns[c].stage
           /\ conns[c].stage \in {"open", "closed"} => conns'[c].stage \in {conns[c].stage, "closed"}
<1>1. conns'[c].stage = IF c = fds[f] THEN "closed" ELSE conns[c].stage
  <2>1. conns \in [Conns -> ConnType]
    BY DEF TypeOK, ConnType
  <2>2. conns'[c] = [conns[c] EXCEPT
                        !.stage = IF c = fds[f] THEN "closed" ELSE @,
                        !.address = IF c # a THEN @
                                    ELSE IF @ = "live" THEN "freed" ELSE "twice"]
    BY DEF Released
  <2> QED
    BY <2>1, <2>2 DEF ConnType
<1>2. c = fds[f] => conns[c].stage \in {"open", "closed"}
  BY ServerAssumption DEF Passed
<1> QED
  BY <1>1, <1>2

(* Reap, RemovePeer and CloseClient each close a descriptor that accept    *)
(* has returned, if they close one. *)
LEMMA ReleasesKnown ==
    ASSUME TypeOK, Traced, Reap \/ RemovePeer \/ CloseClient, conns' # conns
    PROVE  \E f \in Fds, a \in Conns : conns' = Released(f, a) /\ fds' = Descriptors(f)
<1>1. CASE Reap
  BY <1>1 DEF Reap, RemoveClient, CloseDescriptor, Traced, ReapKnown
<1>2. CASE RemovePeer
  <2>1. running # NoJob
    BY <1>2 DEF RemovePeer, TypeOK
  <2> QED
    BY <1>2, <2>1 DEF RemovePeer, RemoveClient, CloseDescriptor, Traced, JobsKnown, Genuine
<1>3. CASE CloseClient
  <2>1. i \in Slots /\ Live(i)
    BY <1>3 DEF CloseClient, TypeOK, Live
  <2> QED
    BY <1>3, <2>1 DEF CloseClient, CloseDescriptor, Traced, LiveKnown, Known, Live
<1> QED
  BY <1>1, <1>2, <1>3

(* Who moves a connection. *)
LEMMA Movers ==
    ASSUME TypeOK, [Next]_vars
    PROVE  \/ SameStages /\ UNCHANGED <<fds, backlog>>
           \/ (Reap \/ RemovePeer \/ CloseClient) /\ UNCHANGED backlog
           \/ Accepting /\ ((\E f \in Fds : AcceptClient(f)) \/ UNCHANGED fds)
                 /\ \A c \in Conns : \/ conns'[c].stage = conns[c].stage
                                     \/ c = Head(backlog) /\ conns'[c].stage \in {"open", "closed"}
           \/ CloseListener
           \/ Arrive
<1>1. conns \in [Conns -> ConnType]
  BY DEF TypeOK, ConnType
<1>2. CASE UNCHANGED <<conns, fds, backlog>>
  BY <1>2, UnchangedConns
<1>3. ASSUME NEW f \in Fds, AcceptClient(f) \/ AcceptUnregistered(f)
      PROVE  /\ Accepting /\ ((\E g \in Fds : AcceptClient(g)) \/ UNCHANGED fds)
             /\ \A c \in Conns : \/ conns'[c].stage = conns[c].stage
                                 \/ c = Head(backlog) /\ conns'[c].stage \in {"open", "closed"}
  <2>1. CASE AcceptClient(f)
    BY <1>1, <2>1 DEF AcceptClient, ConnType
  <2>2. CASE AcceptUnregistered(f)
    BY <1>1, <2>2 DEF AcceptUnregistered, ConnType, kernel
  <2> QED
    BY <1>3, <2>1, <2>2
<1>4. CASE Reject \/ RejectBrokenPipe \/ AcceptFails
  <2>1. Accepting /\ UNCHANGED fds
    BY <1>4 DEF Reject, RejectBrokenPipe, AcceptFails, kernel
  <2>2. \A c \in Conns : \/ conns'[c].stage = conns[c].stage
                         \/ c = Head(backlog) /\ conns'[c].stage \in {"open", "closed"}
    BY <1>1, <1>4 DEF Reject, RejectBrokenPipe, AcceptFails, ConnType
  <2> QED
    BY <2>1, <2>2
<1>5. CASE MainStep
  BY <1>2, <1>3, <1>4, <1>5
    DEF MainStep, EpollWait, SweepPast, SweepExpired, Reap, RemoveClient, EventsDone, MarkInFlight,
        Dispatch, AcceptLater, StartAccepting, WouldBlock, LeaveLoop, CloseClient, StopPool, net, kernel
<1>6. CASE CallbackStep
  <2>1. UNCHANGED backlog
    BY <1>6 DEF CallbackStep, StartCallback, RecvRequest, RecvNothing, Respond, RespondBrokenPipe,
                Rearm, RearmFails, Touch, RemovePeer, RemoveClient, ClearInFlight, net
  <2> QED
    BY <1>6, <2>1, CallbackClients
<1>7. CASE Shortage
  BY <1>2, <1>3, <1>7 DEF Shortage, DispatchDropped, net, kernel
<1>8. CASE Talk \/ Tick \/ Interrupt \/ UNCHANGED vars
  <2>1. UNCHANGED backlog
    BY <1>8 DEF Talk, Send, Close, Tick, Interrupt, vars, net
  <2> QED
    BY <1>8, <2>1, WorldClients
<1> QED
  BY <1>5, <1>6, <1>7, <1>8 DEF Next, ServerStep, Ended

(* Every connection stays on its course, and the backlog and the           *)
(* descriptors keep to theirs. *)
LEMMA NextGoes ==
    ASSUME TypeOK, Traced, Waiting, Passed, [Next]_vars
    PROVE  (\A c \in Conns : Goes(c)) /\ Waiting' /\ Passed'
<1>1. conns \in [Conns -> ConnType] /\ fds \in [Fds -> Conns \cup {NoConn}]
  BY DEF TypeOK, ConnType
<1>2. CASE SameStages /\ UNCHANGED <<fds, backlog>>
  <2>1. Passed'
    BY <1>1, <1>2 DEF Passed, SameStages
  <2> QED
    BY <1>2, <2>1, WaitingFrame DEF Goes, SameStages
<1>3. CASE (Reap \/ RemovePeer \/ CloseClient) /\ UNCHANGED backlog
  <2>1. CASE conns' = conns
    <3>1. \A f \in Fds : fds'[f] \in {fds[f], NoConn}
      <4>1. CASE \E g : fds' = [fds EXCEPT ![g] = NoConn]
        BY <1>1, <4>1
      <4>2. CASE UNCHANGED fds
        BY <4>2
      <4> QED
        BY <1>3, <4>1, <4>2
          DEF Reap, RemovePeer, RemoveClient, CloseClient, CloseDescriptor, Descriptors, kernel
    <3>2. SameStages
      BY <2>1, UnchangedConns
    <3> QED
      BY <1>3, <2>1, <3>1, <3>2, WaitingFrame DEF Goes, Passed
  <2>2. CASE conns' # conns
    <3>1. PICK f \in Fds, a \in Conns : conns' = Released(f, a) /\ fds' = Descriptors(f)
      BY <1>3, <2>2, ReleasesKnown
    <3>2. \A c \in Conns :
            /\ conns[c].stage \in {"new", "backlog"} => conns'[c].stage = conns[c].stage
            /\ conns[c].stage \in {"open", "closed"} => conns'[c].stage \in {conns[c].stage, "closed"}
      BY <3>1, ReleasedGoes
    <3>3. \A c \in Conns : conns[c].stage \in {"new", "backlog", "open", "closed"}
      BY <1>1 DEF ConnType
    <3>4. \A c \in Conns : Goes(c)
      BY <3>2, <3>3 DEF Goes, Stages
    <3>5. Waiting'
      <4>1. \A n \in DOMAIN backlog : backlog[n] \in Conns
        BY DEF TypeOK
      <4> QED
        BY <1>3, <3>2, <4>1 DEF Waiting
    <3>6. Passed'
      <4>1. \A g \in Fds : fds'[g] # NoConn => fds'[g] = fds[g] /\ fds[g] \in Conns
        BY <1>1, <3>1 DEF Descriptors
      <4> QED
        BY <3>2, <4>1 DEF Passed
    <3> QED
      BY <3>4, <3>5, <3>6
  <2> QED
    BY <2>1, <2>2
<1>4. CASE /\ Accepting /\ ((\E f \in Fds : AcceptClient(f)) \/ UNCHANGED fds)
           /\ \A c \in Conns : \/ conns'[c].stage = conns[c].stage
                               \/ c = Head(backlog) /\ conns'[c].stage \in {"open", "closed"}
  <2> DEFINE h == Head(backlog)
  <2>1. h \in Conns /\ conns[h].stage = "backlog"
    BY <1>4, FirstInLine
  <2>2. \A c \in Conns : \/ conns'[c].stage = conns[c].stage
                         \/ c = h /\ conns'[c].stage \in {"open", "closed"}
    BY <1>4
  <2>3. Waiting'
    BY <1>4, RestWaits
  <2> HIDE DEF h
  <2>4. \A c \in Conns : Goes(c)
    BY <2>1, <2>2 DEF Goes, Stages
  <2>5. Passed'
    <3>1. ASSUME NEW f \in Fds, AcceptClient(f)
          PROVE  /\ \A g \in Fds : fds'[g] = fds[g] \/ fds'[g] = h
                 /\ conns'[h].stage = "open"
      BY <1>1, <2>1, <3>1 DEF AcceptClient, ConnType, h
    <3>2. CASE \E f \in Fds : AcceptClient(f)
      BY <1>1, <2>1, <2>2, <3>1, <3>2 DEF Passed
    <3>3. CASE UNCHANGED fds
      BY <1>1, <2>2, <3>3 DEF Passed
    <3> QED
      BY <1>4, <3>2, <3>3
  <2> QED
    BY <2>3, <2>4, <2>5
<1>5. CASE CloseListener
  <2>1. \A c \in Conns : conns'[c].stage = IF conns[c].stage = "backlog" THEN "closed"
                                           ELSE conns[c].stage
    BY <1>1, <1>5 DEF CloseListener, ConnType
  <2>2. backlog' = <<>> /\ UNCHANGED fds
    BY <1>5 DEF CloseListener
  <2>3. Passed'
    BY <1>1, <2>1, <2>2 DEF Passed
  <2> QED
    BY <2>1, <2>2, <2>3 DEF Goes, Stages, Waiting
<1>6. ASSUME NEW c \in Conns, Connect(c)
      PROVE  (\A d \in Conns : Goes(d)) /\ Waiting' /\ Passed'
  <2>1. /\ conns[c].stage = "new" /\ conns'[c].stage = "backlog" /\ UNCHANGED fds
        /\ \A d \in Conns : d # c => conns'[d].stage = conns[d].stage
    BY <1>1, <1>6 DEF Connect, ConnType, kernel
  <2>2. Passed'
    BY <1>1, <2>1 DEF Passed
  <2> QED
    BY <1>6, <2>1, <2>2, ConnectWaits DEF Goes, Stages
<1> QED
  BY <1>2, <1>3, <1>4, <1>5, <1>6, Movers DEF Arrive

LEMMA NextSafe ==
    ASSUME SafeInv, [Next]_vars
    PROVE  SafeInv'
<1>1. TypeOK' /\ AtEvent' /\ Snapped'
  BY NextType, NextAtEvent, NextSnapped DEF SafeInv
<1>2. Traced'
  BY NextKnown, NextArmedKnown, NextEventsKnown, NextJobsKnown, NextReapKnown DEF SafeInv, Traced
<1>3. Waiting' /\ Passed'
  BY NextGoes DEF SafeInv
<1> QED
  BY <1>1, <1>2, <1>3 DEF SafeInv

(* Of everything that can happen, a sweep that closes a client under the   *)
(* worker included: every slot, event and job that is used goes back to a  *)
(* connection that was accepted, and the backlog keeps its order. *)
THEOREM SafeInvariant == Spec => []SafeInv
<1>1. Init => SafeInv
  <2> SUFFICES ASSUME Init PROVE SafeInv
    OBVIOUS
  <2>1. /\ \A s \in Slots : clients[s] = NoClient
        /\ \A f \in Fds : fds[f] = NoConn /\ epoll[f] = Unregistered
    BY DEF Init
  <2>2. events = <<>> /\ pending = <<>> /\ running = NoJob /\ backlog = <<>> /\ mpc = "wait"
    BY DEF Init, JQ!Init
  <2>3. Traced
    BY <2>1, <2>2 DEF Traced, LiveKnown, Live, NoClient, ArmedKnown, Unregistered, EventsKnown,
                      JobsKnown, ReapKnown
  <2>4. Snapped /\ Waiting /\ Passed
    BY <2>1, <2>2 DEF Snapped, Waiting, Passed
  <2> QED
    BY <2>3, <2>4, InitType DEF SafeInv
<1> QED
  BY <1>1, NextSafe, PTL DEF Spec

(* The sweep gives the lock up between copying a client and removing it    *)
(* (main.c:75-90).  The worker may remove the client in between, but the   *)
(* slot is not given to another: only main does that, and main sweeps.     *)
THEOREM SweepSeesItsClient == Spec => []Snapped
<1>1. SafeInv => Snapped
  BY DEF SafeInv
<1> QED
  BY <1>1, SafeInvariant, PTL

(* worker_callback, the sweep and server_delete read from, write to and    *)
(* close only descriptors that accept has returned, and free only          *)
(* addresses that came with one, never those of a slot without a client.   *)
THEOREM DescriptorsFromAccept ==
    Spec => [](/\ hpc # "idle" => running.fd \in Fds /\ running.address \in Conns
               /\ mpc = "reap" => /\ snapshot.client.fd \in Fds
                                  /\ snapshot.client.address \in Conns
               /\ mpc = "close" /\ Live(i) => clients[i].fd \in Fds /\ clients[i].address \in Conns)
<1>1. SafeInv => /\ hpc # "idle" => running.fd \in Fds /\ running.address \in Conns
                 /\ mpc = "reap" => /\ snapshot.client.fd \in Fds
                                    /\ snapshot.client.address \in Conns
                 /\ mpc = "close" /\ Live(i) => /\ clients[i].fd \in Fds
                                                /\ clients[i].address \in Conns
  <2> SUFFICES ASSUME SafeInv
               PROVE  /\ hpc # "idle" => running.fd \in Fds /\ running.address \in Conns
                      /\ mpc = "reap" => /\ snapshot.client.fd \in Fds
                                         /\ snapshot.client.address \in Conns
                      /\ mpc = "close" /\ Live(i) => /\ clients[i].fd \in Fds
                                                     /\ clients[i].address \in Conns
    OBVIOUS
  <2>1. hpc # "idle" => running # NoJob
    BY DEF SafeInv, TypeOK
  <2>2. mpc = "close" => i \in Slots
    BY DEF SafeInv, TypeOK
  <2> QED
    BY <2>1, <2>2 DEF SafeInv, Traced, JobsKnown, Genuine, ReapKnown, LiveKnown, Known
<1> QED
  BY <1>1, SafeInvariant, PTL

(* A connection waits, is accepted once and is closed, in that order: none *)
(* that is closed is opened again and none is accepted twice, even when    *)
(* two threads remove the same client. *)
THEOREM ConnectionsGoForward == Spec => [][\A c \in Conns : Goes(c)]_vars
<1>1. SafeInv /\ [Next]_vars => [\A c \in Conns : Goes(c)]_vars
  BY NextGoes DEF SafeInv
<1> QED
  BY <1>1, SafeInvariant, PTL DEF Spec

=============================================================================
