--------------------------- MODULE FoxtailsProofs ---------------------------
(***************************************************************************)
(* Proofs about Foxtails, for every set of connections, every number of    *)
(* descriptors and slots, and every length of the array of events.         *)
(*                                                                         *)
(* TypeOK is proved for everything that can happen.  What the server keeps *)
(* account of, the Books, is preserved by every step of its loop, SIGINT   *)
(* and expiry included, as long as the sweep closes nobody whose event     *)
(* somebody has in hand (CleanSweep).  The Books say for each slot which   *)
(* one place has the next event of its client, and that nobody else may    *)
(* remove the client: that is why the copies in the queue stay current,    *)
(* and why the address and the descriptor of a client go away once.        *)
(*                                                                         *)
(* The theorems here are about BusySpec, in which no client is idle for    *)
(* keep_alive_timeout and nobody interrupts.  LifecycleProofs has those    *)
(* about expiry and shutdown.                                              *)
(***************************************************************************)
EXTENDS Foxtails, SequenceTheorems, FiniteSetTheorems, TLAPS

-----------------------------------------------------------------------------
(* The parts of the invariant.                                             *)

(* main is at an event when it says so. *)
AtEvent == /\ mpc \in {"dispatch", "accept"} => events # <<>>
           /\ mpc = "dispatch" => Head(events) # Listen

(* Where server_delete is at work. *)
Leaving == {"close", "stop", "join"}

(* Nobody has been idle for a second, and the sweep closes nobody. *)
Young == mpc # "reap" /\ \A s \in Slots : clients[s].age = 0

(* Nobody expires and nobody interrupts: main stays in its loop. *)
Calm == keep_on = TRUE /\ mpc \notin Leaving /\ Young

(* What the sweep has copied is still what is in the table. *)
Snapped == mpc = "reap" => /\ snapshot.client.fd = clients[snapshot.slot].fd
                           /\ snapshot.client.address = clients[snapshot.slot].address

Live(s) == clients[s].is_alive

(* A live client, its descriptor, its connection and its address belong    *)
(* together, and to no other client.                                       *)
Owned ==
    /\ \A s \in Slots : Live(s) =>
          /\ clients[s].fd \in Fds
          /\ clients[s].address \in Conns
          /\ fds[clients[s].fd] = clients[s].address
          /\ conns[clients[s].address].stage = "open"
          /\ conns[clients[s].address].address = "live"
    /\ \A s, t \in Slots : Live(s) /\ Live(t) /\ clients[s].address = clients[t].address
                              => s = t
    /\ \A f \in Fds : fds[f] # NoConn => \E s \in Slots : Live(s) /\ clients[s].fd = f
    /\ \A c \in Conns : conns[c].stage = "open" => \E f \in Fds : fds[f] = c

(* The backlog holds each of its connections once. *)
Waiting == /\ \A n \in DOMAIN backlog : conns[backlog[n]].stage = "backlog"
           /\ \A m, n \in DOMAIN backlog : backlog[m] = backlog[n] => m = n

(* worker_callback has its client to itself. *)
Handling == hpc \in {"recv", "respond", "rearm", "remove"}

IsQueued(s) == \E n \in DOMAIN pending : pending[n].idx = s
IsHandled(s) == Handling /\ running.idx = s
IsArmed(s) == epoll[clients[s].fd].armed

(* The next event of a live client is in one place: armed, reported,       *)
(* queued or handled, and the copies made of it are current.               *)
ArmedOnes == \A f \in Fds : epoll[f].armed => /\ epoll[f].oneshot
                                              /\ Live(epoll[f].slot)
                                              /\ clients[epoll[f].slot].fd = f

ReportedOnes ==
    /\ \A n \in DOMAIN events : events[n] # Listen =>
          /\ Live(events[n])
          /\ ~IsArmed(events[n])
          /\ ~IsQueued(events[n])
          /\ ~IsHandled(events[n])
    /\ \A m, n \in DOMAIN events : events[m] = events[n] /\ events[n] # Listen => m = n

QueuedOnes ==
    /\ \A n \in DOMAIN pending : /\ Live(pending[n].idx)
                                 /\ pending[n] = CopyOf(pending[n].idx)
                                 /\ ~IsArmed(pending[n].idx)
                                 /\ ~IsHandled(pending[n].idx)
    /\ \A m, n \in DOMAIN pending : pending[m].idx = pending[n].idx => m = n

HandledOne == Handling => /\ Live(running.idx)
                          /\ running = CopyOf(running.idx)
                          /\ ~IsArmed(running.idx)

(* An event is there for a reason, and stays so until it is handled. *)
Hears(c) == conns[c].inbox # NoRequest \/ conns[c].eof

Heard == /\ \A n \in DOMAIN events : events[n] # Listen => Hears(clients[events[n]].address)
         /\ \A n \in DOMAIN pending : Hears(pending[n].address)
         /\ hpc = "recv" => Hears(running.address)

(* A peer whose request was read waits for its answer. *)
Answering ==
    /\ \A c \in Conns : conns[c].stage # "closed" /\ conns[c].inbox # NoRequest
                           => conns[c].waiting
    /\ hpc = "respond" => /\ req.from = running.address
                          /\ conns[running.address].waiting
                          /\ conns[running.address].inbox = NoRequest

Ledger == SlotsAccounted /\ Owned /\ Waiting /\ FreedOnce
Places == ArmedOnes /\ ReportedOnes /\ QueuedOnes /\ HandledOne
Books == Ledger /\ Places /\ Heard /\ Answering

Sound == TypeOK /\ AtEvent /\ Books

BusyInv == Sound /\ Calm

(* A live client whose event is in nobody's hands: not in events[], not in *)
(* the queue, not with the worker. *)
Unclaimed(s) == /\ Live(s)
                /\ \A n \in DOMAIN events : events[n] # s
                /\ ~IsQueued(s)
                /\ ~IsHandled(s)

(* The sweep closes nobody whose event is in somebody's hands.  The code   *)
(* does not see to it (main.c:75-90): the theorems say where it holds and  *)
(* what follows from it. *)
CleanSweep == Reap => Unclaimed(snapshot.slot)

-----------------------------------------------------------------------------
(* TypeOK, by what the variables belong to.                                *)

ConnType == [stage : {"new", "backlog", "open", "closed"},
             inbox : Requests \cup {NoRequest},
             waiting : BOOLEAN, eof : BOOLEAN,
             address : {"none", "live", "freed", "twice"}]

EventType == [slot : Slots, armed : BOOLEAN, oneshot : BOOLEAN]

NetOK == conns \in [Conns -> ConnType] /\ backlog \in Seq(Conns)

KernelOK == fds \in [Fds -> Conns \cup {NoConn}] /\ epoll \in [Fds -> EventType]

TableOK == /\ clients \in [Slots -> ClientType]
           /\ free_list \in Seq(Slots) /\ Len(free_list) <= MaxConnections

MainOK == /\ keep_on \in BOOLEAN
          /\ mpc \in {"wait", "sweep", "reap", "events", "dispatch", "accept",
                      "close", "stop", "join", "exited", "killed"}
          /\ events \in Seq(Slots \cup {Listen})
          /\ i \in 0 .. MaxConnections
          /\ mpc \in {"sweep", "reap", "close"} => i \in Slots
          /\ snapshot \in [slot : Slots, client : ClientType]

PoolOK == /\ pending \in Seq(ClientCopies)
          /\ running \in ClientCopies \cup {NoJob}
          /\ stopped \in BOOLEAN
          /\ hpc \in {"idle", "recv", "respond", "rearm", "touch", "remove", "clear"}
          /\ hpc = "idle" <=> running = NoJob
          /\ req \in [kind : Requests \cup {NoRequest}, from : Conns \cup {NoConn}]

LEMMA TypeParts == TypeOK <=> NetOK /\ KernelOK /\ TableOK /\ MainOK /\ PoolOK
BY DEF TypeOK, NetOK, KernelOK, TableOK, MainOK, PoolOK, ConnType, EventType

LEMMA TypePartsNext ==
    TypeOK' <=> NetOK' /\ KernelOK' /\ TableOK' /\ MainOK' /\ PoolOK'
BY DEF TypeOK, NetOK, KernelOK, TableOK, MainOK, PoolOK, ConnType, EventType

-----------------------------------------------------------------------------
(* Sequences: what is taken off the front, put at the back, or popped.     *)

LEMMA TailEntries ==
    ASSUME NEW S, NEW s \in Seq(S), s # <<>>
    PROVE  /\ 1 \in DOMAIN s /\ Head(s) = s[1]
           /\ \A n \in DOMAIN Tail(s) : /\ n \in Nat /\ n + 1 \in DOMAIN s /\ n + 1 # 1
                                        /\ Tail(s)[n] = s[n + 1]
<1>1. Len(s) \in Nat /\ Len(s) >= 1 /\ DOMAIN s = 1 .. Len(s)
  BY EmptySeq, LenProperties
<1>2. Tail(s) \in Seq(S) /\ Len(Tail(s)) = Len(s) - 1
  BY HeadTailProperties
<1>3. \A n \in 1 .. Len(s) - 1 : Tail(s)[n] = s[n + 1]
  BY HeadTailProperties
<1>4. DOMAIN Tail(s) = 1 .. Len(s) - 1
  BY <1>1, <1>2, LenProperties
<1>5. 1 \in DOMAIN s /\ Head(s) = s[1]
  BY <1>1
<1>6. \A n \in 1 .. Len(s) - 1 : n \in Nat /\ n + 1 \in 1 .. Len(s) /\ n + 1 # 1
  BY <1>1
<1> QED
  BY <1>1, <1>3, <1>4, <1>5, <1>6

LEMMA AppendEntries ==
    ASSUME NEW S, NEW s \in Seq(S), NEW x \in S
    PROVE  /\ Len(s) + 1 \in DOMAIN Append(s, x) /\ Len(s) + 1 \notin DOMAIN s
           /\ Append(s, x)[Len(s) + 1] = x
           /\ \A n \in DOMAIN s : n \in DOMAIN Append(s, x) /\ Append(s, x)[n] = s[n]
           /\ \A n \in DOMAIN Append(s, x) : n \in DOMAIN s \/ n = Len(s) + 1
<1>1. /\ Append(s, x) \in Seq(S)
      /\ Len(Append(s, x)) = Len(s) + 1
      /\ \A n \in 1 .. Len(s) : Append(s, x)[n] = s[n]
      /\ Append(s, x)[Len(s) + 1] = x
  BY AppendProperties
<1>2. Len(s) \in Nat /\ DOMAIN s = 1 .. Len(s) /\ DOMAIN Append(s, x) = 1 .. Len(s) + 1
  BY <1>1, LenProperties
<1> QED
  BY <1>1, <1>2

(* What is popped from a stack that is not empty, and what stays. *)
LEMMA FrontLast ==
    ASSUME NEW S, NEW s \in Seq(S), s # <<>>
    PROVE  /\ Last(s) \in S /\ Last(s) = s[Len(s)] /\ Len(s) \in DOMAIN s
           /\ Front(s) \in Seq(S)
           /\ Len(Front(s)) = Len(s) - 1
           /\ \A n \in 1 .. Len(s) - 1 : Front(s)[n] = s[n]
<1>1. Len(s) \in Nat /\ Len(s) >= 1
  BY EmptySeq
<1>2. Last(s) = s[Len(s)] /\ Last(s) \in S /\ Len(s) \in DOMAIN s
  BY <1>1, ElementOfSeq DEF Last
<1> DEFINE k == Len(s) - 1
<1>3. k \in Int /\ 1 \in Int /\ \A n \in 1 .. k : s[n] \in S
  BY <1>1, ElementOfSeq
<1> HIDE DEF k
<1>4. /\ SubSeq(s, 1, k) \in Seq(S)
      /\ Len(SubSeq(s, 1, k)) = IF 1 <= k THEN k - 1 + 1 ELSE 0
      /\ \A n \in 1 .. k - 1 + 1 : SubSeq(s, 1, k)[n] = s[1 + n - 1]
  BY <1>3, SubSeqProperties
<1>5. Front(s) = SubSeq(s, 1, k)
  BY DEF Front, k
<1>6. k \in Nat /\ k = Len(s) - 1
  BY <1>1 DEF k
<1>7. Len(Front(s)) = k
  BY <1>4, <1>5, <1>6
<1>8. ASSUME NEW n \in 1 .. k PROVE Front(s)[n] = s[n]
  <2>1. n \in 1 .. k - 1 + 1 /\ 1 + n - 1 = n
    BY <1>6
  <2> QED
    BY <1>4, <1>5, <2>1
<1> QED
  BY <1>2, <1>4, <1>5, <1>6, <1>7, <1>8

(* A stack that holds each of its entries once, popped and pushed. *)
LEMMA FrontOfInjective ==
    ASSUME NEW S, NEW s \in Seq(S), s # <<>>, IsInjective(s)
    PROVE  IsInjective(Front(s)) /\ Range(Front(s)) = Range(s) \ {Last(s)}
<1>1. /\ Last(s) = s[Len(s)] /\ Len(s) \in DOMAIN s
      /\ Front(s) \in Seq(S) /\ Len(Front(s)) = Len(s) - 1
      /\ \A n \in 1 .. Len(s) - 1 : Front(s)[n] = s[n]
  BY FrontLast
<1>2. /\ Len(s) \in Nat /\ DOMAIN s = 1 .. Len(s) /\ DOMAIN Front(s) = 1 .. Len(s) - 1
  BY <1>1, LenProperties
<1>3. \A n \in DOMAIN Front(s) : n \in DOMAIN s /\ n # Len(s) /\ Front(s)[n] = s[n]
  BY <1>1, <1>2
<1>4. \A n \in DOMAIN s : n # Len(s) => n \in DOMAIN Front(s)
  BY <1>2
<1>5. IsInjective(Front(s))
  BY <1>3 DEF IsInjective
<1> QED
  BY <1>1, <1>3, <1>4, <1>5 DEF IsInjective, Range

LEMMA AppendToInjective ==
    ASSUME NEW S, NEW s \in Seq(S), NEW x \in S, IsInjective(s), x \notin Range(s)
    PROVE  IsInjective(Append(s, x)) /\ Range(Append(s, x)) = Range(s) \cup {x}
<1>1. /\ Len(s) + 1 \in DOMAIN Append(s, x) /\ Len(s) + 1 \notin DOMAIN s
      /\ Append(s, x)[Len(s) + 1] = x
      /\ \A n \in DOMAIN s : n \in DOMAIN Append(s, x) /\ Append(s, x)[n] = s[n]
      /\ \A n \in DOMAIN Append(s, x) : n \in DOMAIN s \/ n = Len(s) + 1
  BY AppendEntries
<1>2. \A n \in DOMAIN s : s[n] # x
  BY DEF Range
<1> DEFINE t == Append(s, x)
           l == Len(s) + 1
<1> HIDE DEF t, l
<1>3. /\ l \in DOMAIN t /\ l \notin DOMAIN s /\ t[l] = x
      /\ \A n \in DOMAIN s : n \in DOMAIN t /\ t[n] = s[n]
      /\ \A n \in DOMAIN t : n \in DOMAIN s \/ n = l
  BY <1>1 DEF t, l
<1>4. IsInjective(t)
  BY <1>2, <1>3 DEF IsInjective
<1>5. Range(t) = Range(s) \cup {x}
  BY <1>3 DEF Range
<1> QED
  BY <1>4, <1>5 DEF t

(* The free list has room as long as a slot is not on it. *)
LEMMA RoomForOne ==
    ASSUME NEW N \in Nat \ {0}, NEW q \in Seq(0 .. N - 1), IsInjective(q),
           NEW s \in 0 .. N - 1, s \notin Range(q), Len(q) <= N
    PROVE  Len(q) < N
<1> DEFINE T == (0 .. N - 1) \ {s}
           D == 1 .. Len(q)
<1>0. Len(q) \in Nat /\ DOMAIN q = D
  BY LenProperties
<1>1. /\ IsFiniteSet(0 .. N - 1)
      /\ Cardinality(0 .. N - 1) = IF 0 > N - 1 THEN 0 ELSE N - 1 - 0 + 1
  <2> DEFINE h == N - 1
  <2>1. h \in Int /\ 0 \in Int
    OBVIOUS
  <2> HIDE DEF h
  <2>2. IsFiniteSet(0 .. h) /\ Cardinality(0 .. h) = IF 0 > h THEN 0 ELSE h - 0 + 1
    BY <2>1, FS_Interval
  <2> QED
    BY <2>2 DEF h
<1>2. IsFiniteSet(T) /\ Cardinality(T) = N - 1
  <2>1. IsFiniteSet(T) /\ Cardinality(T) = Cardinality(0 .. N - 1) - 1
    BY <1>1, FS_RemoveElement
  <2> QED
    BY <1>1, <2>1
<1>3. IsFiniteSet(D) /\ Cardinality(D) = Len(q)
  <2> DEFINE l == Len(q)
  <2>1. l \in Int /\ 1 \in Int
    BY <1>0
  <2> HIDE DEF l
  <2>2. IsFiniteSet(1 .. l) /\ Cardinality(1 .. l) = IF 1 > l THEN 0 ELSE l - 1 + 1
    BY <2>1, FS_Interval
  <2> QED
    BY <1>0, <2>2 DEF l
<1>4. q \in [D -> T]
  <2>1. q \in [D -> 0 .. N - 1]
    BY <1>0, LenProperties
  <2>2. \A n \in D : q[n] # s
    BY <1>0 DEF Range
  <2> QED
    BY <2>1, <2>2
<1>5. \A m, n \in D : q[m] = q[n] => m = n
  BY <1>0 DEF IsInjective
<1> HIDE DEF T, D
<1>6. ~(Cardinality(T) < Cardinality(D))
  BY <1>2, <1>3, <1>4, <1>5, FS_PigeonHole
<1> QED
  BY <1>0, <1>2, <1>3, <1>6

-----------------------------------------------------------------------------
(* Type correctness, for everything that can happen.                       *)

LEMMA InitType == Init => TypeOK /\ AtEvent
<1> SUFFICES ASSUME Init PROVE TypeOK /\ AtEvent
  OBVIOUS
<1> USE ServerAssumption DEF Init
<1>0. 0 \in Slots /\ NoRequest \in Requests \cup {NoRequest}
  BY DEF Slots
<1>1. NetOK
  BY DEF NetOK, ConnType
<1>2. KernelOK
  BY <1>0 DEF KernelOK, EventType, Unregistered
<1>3. NoClient \in ClientType
  BY DEF NoClient, ClientType
<1>4. TableOK
  <2>1. free_list \in Seq(Slots) /\ Len(free_list) = MaxConnections
    BY DEF Slots
  <2> QED
    BY <2>1, <1>3 DEF TableOK
<1>5. MainOK
  BY <1>0, <1>3 DEF MainOK, Slots
<1>6. PoolOK
  <2>1. stopped \in BOOLEAN
    BY Zenon DEF JQ!Init
  <2> QED
    BY <2>1 DEF PoolOK, JQ!Init
<1> QED
  BY <1>1, <1>2, <1>4, <1>5, <1>6, TypeParts DEF AtEvent

(* What server_remove_client does has the right types for any arguments    *)
(* of the right types. *)
LEMMA ReleasedType ==
    ASSUME NetOK, NEW g, NEW a
    PROVE  Released(g, a) \in [Conns -> ConnType]
<1> SUFFICES ASSUME NEW c \in Conns
             PROVE  [conns[c] EXCEPT
                        !.stage = IF c = fds[g] THEN "closed" ELSE @,
                        !.address = IF c # a THEN @
                                    ELSE IF @ = "live" THEN "freed" ELSE "twice"]
                       \in ConnType
  BY DEF Released
<1> QED
  BY DEF NetOK, ConnType

LEMMA CloseDescriptorType ==
    ASSUME KernelOK, NEW g, CloseDescriptor(g)
    PROVE  KernelOK'
<1>1. 0 \in Slots
  BY ServerAssumption DEF Slots
<1>2. Unregistered \in EventType
  BY <1>1 DEF Unregistered, EventType
<1> QED
  BY <1>2 DEF CloseDescriptor, Descriptors, KernelOK

LEMMA PushedType ==
    ASSUME TableOK, NEW s \in Slots
    PROVE  Pushed(s) \in Seq(Slots) /\ Len(Pushed(s)) <= MaxConnections
BY ServerAssumption DEF TableOK, Pushed

LEMMA RemoveClientType ==
    ASSUME NetOK, KernelOK, TableOK, NEW s \in Slots, NEW cl, RemoveClient(s, cl)
    PROVE  NetOK' /\ KernelOK' /\ TableOK'
<1> USE DEF RemoveClient
<1>1. NetOK'
  BY ReleasedType DEF NetOK
<1>2. KernelOK'
  BY CloseDescriptorType
<1>3. Buried(s) \in [Slots -> ClientType]
  BY DEF Buried, TableOK, ClientType
<1>4. TableOK'
  BY <1>3, PushedType DEF TableOK
<1> QED
  BY <1>1, <1>2, <1>4

(* The loops over the table stay inside it. *)
LEMMA AdvanceType ==
    ASSUME MainOK, NEW here, NEW there, Advance(here, there), i \in Slots,
           here \in {"sweep", "close"}, there \in {"events", "stop"},
           UNCHANGED <<keep_on, events, snapshot>>
    PROVE  MainOK'
<1>1. i' \in 0 .. MaxConnections /\ (~LastSlot => i' \in Slots)
  BY ServerAssumption DEF Advance, LastSlot, Slots
<1>2. mpc' = IF LastSlot THEN there ELSE here
  BY DEF Advance
<1> QED
  BY <1>1, <1>2 DEF MainOK

-----------------------------------------------------------------------------
(* The steps of main. *)

(* What epoll_wait returns: some of the ready descriptors, each once. *)
LEMMA BatchType ==
    ASSUME NEW batch \in EpollResults
    PROVE  /\ Len(batch) \in Nat
           /\ batch \in [1 .. Len(batch) -> Ready]
           /\ \A m, n \in DOMAIN batch : batch[m] = batch[n] => m = n
<1> DEFINE k == Min({MaxEvents, Cardinality(Ready)})
<1>1. PICK S \in kSubset(k, Ready) : batch \in SetToSeqs(S)
  BY DEF EpollResults
<1>2. S \subseteq Ready
  BY <1>1 DEF kSubset
<1>3. IsFiniteSet(Fds \cup {Listen})
  BY ServerAssumption, FS_AddElement
<1>4. Ready \subseteq Fds \cup {Listen}
  BY DEF Ready
<1>5. IsFiniteSet(S)
  BY <1>2, <1>3, <1>4, FS_Subset
<1>6. Cardinality(S) \in Nat
  BY <1>5, FS_CardinalityType
<1>7. /\ batch \in [1 .. Cardinality(S) -> S]
      /\ \A m, n \in 1 .. Cardinality(S) : m # n => batch[m] # batch[n]
  BY <1>1 DEF SetToSeqs
<1>8. Len(batch) = Cardinality(S)
  BY <1>6, <1>7
<1> QED
  BY <1>2, <1>6, <1>7, <1>8

LEMMA EpollWaitType ==
    ASSUME TypeOK, EpollWait
    PROVE  TypeOK'
<1>1. NetOK /\ KernelOK /\ TableOK /\ MainOK /\ PoolOK
  BY TypeParts
<1>2. PICK batch \in EpollResults :
        /\ events' = [n \in DOMAIN batch |-> IF batch[n] = Listen THEN Listen
                                             ELSE epoll[batch[n]].slot]
        /\ epoll' = [f \in Fds |-> IF f \in Range(batch) /\ epoll[f].oneshot
                                   THEN [epoll[f] EXCEPT !.armed = FALSE]
                                   ELSE epoll[f]]
  BY DEF EpollWait
<1>3. /\ Len(batch) \in Nat
      /\ batch \in [1 .. Len(batch) -> Ready]
  BY BatchType
<1>4. KernelOK'
  <2>1. \A f \in Fds : [epoll[f] EXCEPT !.armed = FALSE] \in EventType
    BY <1>1 DEF KernelOK, EventType
  <2> QED
    BY <1>1, <1>2, <2>1 DEF KernelOK, EpollWait
<1>5. events' \in Seq(Slots \cup {Listen})
  <2>1. \A n \in 1 .. Len(batch) : batch[n] = Listen \/ batch[n] \in Fds
    BY <1>3 DEF Ready
  <2>2. \A f \in Fds : epoll[f].slot \in Slots
    BY <1>1 DEF KernelOK, EventType
  <2> QED
    BY <1>2, <1>3, <2>1, <2>2
<1>6. MainOK'
  <2>1. 0 \in Slots /\ 0 \in 0 .. MaxConnections
    BY ServerAssumption DEF Slots
  <2> QED
    BY <1>1, <1>5, <2>1 DEF EpollWait, MainOK
<1>7. NetOK' /\ TableOK' /\ PoolOK'
  BY <1>1 DEF EpollWait, NetOK, TableOK, PoolOK, net, table, pool, handler
<1> QED
  BY <1>4, <1>6, <1>7, TypePartsNext

LEMMA SweepType ==
    ASSUME TypeOK, SweepPast \/ SweepExpired \/ Reap
    PROVE  TypeOK'
<1>1. NetOK /\ KernelOK /\ TableOK /\ MainOK /\ PoolOK
  BY TypeParts
<1>2. CASE SweepPast
  <2>1. MainOK'
    BY <1>1, <1>2, AdvanceType DEF SweepPast, MainOK
  <2> QED
    BY <1>1, <1>2, <2>1, TypePartsNext
      DEF SweepPast, NetOK, KernelOK, TableOK, PoolOK, net, kernel, table, pool, handler
<1>3. CASE SweepExpired
  <2>1. [slot |-> i, client |-> clients[i]] \in [slot : Slots, client : ClientType]
    BY <1>1, <1>3 DEF SweepExpired, MainOK, TableOK
  <2>2. MainOK'
    BY <1>1, <1>3, <2>1 DEF SweepExpired, MainOK
  <2> QED
    BY <1>1, <1>3, <2>2, TypePartsNext
      DEF SweepExpired, NetOK, KernelOK, TableOK, PoolOK, net, kernel, table, pool, handler
<1>4. CASE Reap
  <2>1. snapshot.slot \in Slots /\ i \in Slots
    BY <1>1, <1>4 DEF Reap, MainOK
  <2>2. NetOK' /\ KernelOK' /\ TableOK'
    BY <1>1, <1>4, <2>1, RemoveClientType DEF Reap
  <2>3. MainOK'
    BY <1>1, <1>4, <2>1, AdvanceType DEF Reap
  <2> QED
    BY <1>1, <1>4, <2>2, <2>3, TypePartsNext DEF Reap, PoolOK, pool, handler
<1> QED
  BY <1>2, <1>3, <1>4

LEMMA HandleEventType ==
    ASSUME TypeOK, AtEvent,
           \/ EventsDone \/ MarkInFlight \/ Dispatch \/ DispatchDropped
           \/ AcceptLater \/ StartAccepting \/ WouldBlock
    PROVE  TypeOK'
<1>1. NetOK /\ KernelOK /\ TableOK /\ MainOK /\ PoolOK
  BY TypeParts
<1> USE DEF net, kernel, table, pool, handler
<1>2. CASE EventsDone
  BY <1>1, <1>2, TypePartsNext DEF EventsDone, NetOK, KernelOK, TableOK, MainOK, PoolOK
<1>3. CASE MarkInFlight
  <2>1. Head(events) \in Slots
    BY <1>1, <1>3 DEF MarkInFlight, MainOK
  <2>2. [clients[Head(events)] EXCEPT !.in_flight = TRUE] \in ClientType
    BY <1>1, <2>1 DEF TableOK, ClientType
  <2>3. TableOK'
    BY <1>1, <1>3, <2>1, <2>2 DEF MarkInFlight, TableOK
  <2> QED
    BY <1>1, <1>3, <2>3, TypePartsNext DEF MarkInFlight, NetOK, KernelOK, MainOK, PoolOK
<1>4. CASE Dispatch
  <2>1. Head(events) \in Slots /\ events # <<>>
    BY <1>1, <1>4 DEF Dispatch, MainOK, AtEvent
  <2>2. CopyOf(Head(events)) \in ClientCopies
    BY <1>1, <2>1 DEF CopyOf, ClientCopies, TableOK, ClientType
  <2>3. PoolOK'
    BY <1>1, <1>4, <2>2 DEF Dispatch, JQ!Put, PoolOK
  <2>4. MainOK'
    BY <1>1, <1>4, <2>1 DEF Dispatch, MainOK
  <2> QED
    BY <1>1, <1>4, <2>3, <2>4, TypePartsNext DEF Dispatch, NetOK, KernelOK, TableOK
<1>5. CASE DispatchDropped
  <2>1. MainOK'
    BY <1>1, <1>5 DEF DispatchDropped, MainOK, AtEvent
  <2> QED
    BY <1>1, <1>5, <2>1, TypePartsNext DEF DispatchDropped, NetOK, KernelOK, TableOK, PoolOK
<1>6. CASE AcceptLater
  <2>1. MainOK'
    BY <1>1, <1>6 DEF AcceptLater, ListenEvent, MainOK
  <2> QED
    BY <1>1, <1>6, <2>1, TypePartsNext DEF AcceptLater, NetOK, KernelOK, TableOK, PoolOK
<1>7. CASE StartAccepting
  <2>1. MainOK'
    BY <1>1, <1>7 DEF StartAccepting, ListenEvent, MainOK
  <2> QED
    BY <1>1, <1>7, <2>1, TypePartsNext DEF StartAccepting, NetOK, KernelOK, TableOK, PoolOK
<1>8. CASE WouldBlock
  <2>1. MainOK'
    BY <1>1, <1>8 DEF WouldBlock, MainOK, AtEvent
  <2> QED
    BY <1>1, <1>8, <2>1, TypePartsNext DEF WouldBlock, NetOK, KernelOK, TableOK, PoolOK
<1> QED
  BY <1>2, <1>3, <1>4, <1>5, <1>6, <1>7, <1>8

(* The next connection and the next slot. *)
LEMMA AcceptingType ==
    ASSUME NetOK, TableOK, Accepting
    PROVE  /\ Head(backlog) \in Conns
           /\ backlog' \in Seq(Conns)
           /\ free_list # <<>> => /\ Last(free_list) \in Slots
                                 /\ Front(free_list) \in Seq(Slots)
                                 /\ Len(Front(free_list)) = Len(free_list) - 1
<1>1. Head(backlog) \in Conns /\ backlog' \in Seq(Conns)
  BY DEF NetOK, Accepting
<1> QED
  BY <1>1, FrontLast DEF TableOK

LEMMA AcceptType ==
    ASSUME TypeOK,
           \/ \E f \in Fds : AcceptClient(f) \/ AcceptUnregistered(f)
           \/ Reject \/ RejectBrokenPipe \/ AcceptFails
    PROVE  TypeOK'
<1>1. NetOK /\ KernelOK /\ TableOK /\ MainOK /\ PoolOK
  BY TypeParts
<1> USE DEF net, kernel, table, pool, handler
<1>2. ASSUME NEW f \in Fds, AcceptClient(f) PROVE TypeOK'
  <2> DEFINE c == Head(backlog)
             s == Last(free_list)
  <2>1. /\ Accepting /\ free_list # <<>> /\ free_list' = Front(free_list)
        /\ fds' = [fds EXCEPT ![f] = c]
        /\ epoll' = [epoll EXCEPT ![f] = ClientEvent(s)]
        /\ clients' = [clients EXCEPT ![s] = [fd |-> f, address |-> c, age |-> 0,
                                              is_alive |-> TRUE, in_flight |-> FALSE]]
        /\ conns' = [conns EXCEPT ![c].stage = "open", ![c].address = "live"]
        /\ UNCHANGED <<keep_on, events, i, snapshot, pool, handler, mpc>>
    BY <1>2 DEF AcceptClient, Accepting
  <2>2. /\ c \in Conns /\ backlog' \in Seq(Conns) /\ s \in Slots
        /\ Front(free_list) \in Seq(Slots) /\ Len(Front(free_list)) = Len(free_list) - 1
    BY <1>1, <2>1, AcceptingType
  <2> HIDE DEF c, s
  <2>3. NetOK'
    <3>1. conns' \in [Conns -> ConnType]
      BY <1>1, <2>1, <2>2, ZenonT(60) DEF NetOK, ConnType
    <3> QED
      BY <2>2, <3>1 DEF NetOK
  <2>4. KernelOK'
    <3>1. ClientEvent(s) \in EventType
      BY <2>2 DEF ClientEvent, EventType
    <3> QED
      BY <1>1, <2>1, <2>2, <3>1 DEF KernelOK
  <2>5. TableOK'
    <3>1. [fd |-> f, address |-> c, age |-> 0, is_alive |-> TRUE, in_flight |-> FALSE]
             \in ClientType
      BY <2>2, ServerAssumption DEF ClientType
    <3>2. free_list' \in Seq(Slots) /\ Len(free_list') <= MaxConnections
      BY <1>1, <2>1, <2>2, ServerAssumption DEF TableOK
    <3>3. clients' \in [Slots -> ClientType]
      BY <1>1, <2>1, <2>2, <3>1 DEF TableOK
    <3> QED
      BY <3>2, <3>3 DEF TableOK
  <2>6. MainOK' /\ PoolOK'
    BY <1>1, <2>1 DEF MainOK, PoolOK
  <2> QED
    BY <2>3, <2>4, <2>5, <2>6, TypePartsNext
<1>3. ASSUME NEW f \in Fds, AcceptUnregistered(f) PROVE TypeOK'
  <2> DEFINE c == Head(backlog)
             s == Last(free_list)
  <2>1. /\ Accepting /\ free_list # <<>>
        /\ clients' = [clients EXCEPT ![s] = [fd |-> f, address |-> c, age |-> 0,
                                              is_alive |-> FALSE, in_flight |-> FALSE]]
        /\ conns' = [conns EXCEPT ![c].stage = "closed", ![c].address = "freed"]
        /\ UNCHANGED <<keep_on, events, i, snapshot, pool, handler, mpc, kernel, free_list>>
    BY <1>3 DEF AcceptUnregistered, Accepting
  <2>2. c \in Conns /\ backlog' \in Seq(Conns) /\ s \in Slots
    BY <1>1, <2>1, AcceptingType
  <2> HIDE DEF c, s
  <2>3. NetOK'
    <3>1. conns' \in [Conns -> ConnType]
      BY <1>1, <2>1, <2>2, ZenonT(60) DEF NetOK, ConnType
    <3> QED
      BY <2>2, <3>1 DEF NetOK
  <2>4. TableOK'
    <3>1. [fd |-> f, address |-> c, age |-> 0, is_alive |-> FALSE, in_flight |-> FALSE]
             \in ClientType
      BY <2>2, ServerAssumption DEF ClientType
    <3> QED
      BY <1>1, <2>1, <2>2, <3>1 DEF TableOK
  <2>5. KernelOK' /\ MainOK' /\ PoolOK'
    BY <1>1, <2>1 DEF KernelOK, MainOK, PoolOK
  <2> QED
    BY <2>3, <2>4, <2>5, TypePartsNext
<1>4. CASE Reject
  <2> DEFINE c == Head(backlog)
  <2>1. /\ Accepting
        /\ conns' = [conns EXCEPT ![c].stage = "closed", ![c].address = "freed",
                                  ![c].waiting = FALSE]
        /\ UNCHANGED <<keep_on, events, i, snapshot, pool, handler, mpc, kernel, table>>
    BY <1>4 DEF Reject, Accepting
  <2>2. c \in Conns /\ backlog' \in Seq(Conns)
    BY <1>1, <2>1, AcceptingType
  <2> HIDE DEF c
  <2>3. NetOK'
    <3> DEFINE closed == [conns[c] EXCEPT !.stage = "closed", !.address = "freed",
                                          !.waiting = FALSE]
    <3>1. closed \in ConnType
      BY <1>1, <2>2 DEF NetOK, ConnType
    <3>2. conns' = [conns EXCEPT ![c] = closed]
      BY <1>1, <2>1, <2>2 DEF NetOK
    <3> HIDE DEF closed
    <3> QED
      BY <1>1, <2>2, <3>1, <3>2 DEF NetOK
  <2>4. KernelOK' /\ TableOK' /\ MainOK' /\ PoolOK'
    BY <1>1, <2>1 DEF KernelOK, TableOK, MainOK, PoolOK
  <2> QED
    BY <2>3, <2>4, TypePartsNext
<1>5. CASE RejectBrokenPipe \/ AcceptFails
  <2>1. /\ Accepting /\ mpc' \in {"killed", "exited"}
        /\ UNCHANGED <<keep_on, events, i, snapshot, pool, handler, conns, kernel, table>>
    BY <1>5 DEF RejectBrokenPipe, AcceptFails, Accepting
  <2>2. NetOK'
    BY <1>1, <2>1, AcceptingType DEF NetOK
  <2>3. KernelOK' /\ TableOK' /\ MainOK' /\ PoolOK'
    BY <1>1, <2>1 DEF KernelOK, TableOK, MainOK, PoolOK
  <2> QED
    BY <2>2, <2>3, TypePartsNext
<1> QED
  BY <1>2, <1>3, <1>4, <1>5

LEMMA ShutdownType ==
    ASSUME TypeOK, LeaveLoop \/ CloseClient \/ CloseListener \/ StopPool \/ Interrupt
    PROVE  TypeOK'
<1>1. NetOK /\ KernelOK /\ TableOK /\ MainOK /\ PoolOK
  BY TypeParts
<1> USE DEF net, kernel, table, pool, handler
<1>2. CASE LeaveLoop
  <2>1. 0 \in Slots /\ 0 \in 0 .. MaxConnections
    BY ServerAssumption DEF Slots
  <2>2. MainOK'
    BY <1>1, <1>2, <2>1 DEF LeaveLoop, MainOK
  <2> QED
    BY <1>1, <1>2, <2>2, TypePartsNext DEF LeaveLoop, NetOK, KernelOK, TableOK, PoolOK
<1>3. CASE CloseClient
  <2>1. MainOK'
    BY <1>1, <1>3, AdvanceType DEF CloseClient, MainOK
  <2>2. NetOK' /\ KernelOK'
    <3>1. CASE clients[i].is_alive
      <4>1. /\ CloseDescriptor(clients[i].fd) /\ UNCHANGED backlog
            /\ conns' = Released(clients[i].fd, clients[i].address)
        BY <1>3, <3>1 DEF CloseClient
      <4> QED
        BY <1>1, <4>1, ReleasedType, CloseDescriptorType DEF NetOK
    <3>2. CASE ~clients[i].is_alive
      BY <1>1, <1>3, <3>2 DEF CloseClient, NetOK, KernelOK
    <3> QED
      BY <3>1, <3>2
  <2>3. TableOK' /\ PoolOK'
    BY <1>1, <1>3 DEF CloseClient, TableOK, PoolOK
  <2> QED
    BY <2>1, <2>2, <2>3, TypePartsNext
<1>4. CASE CloseListener
  <2>1. \A c \in Conns : [conns[c] EXCEPT !.stage = IF @ = "backlog" THEN "closed" ELSE @]
                             \in ConnType
    BY <1>1 DEF NetOK, ConnType
  <2>2. NetOK'
    BY <1>1, <1>4, <2>1 DEF CloseListener, NetOK
  <2>3. KernelOK'
    <3>1. 0 \in Slots
      BY ServerAssumption DEF Slots
    <3>2. Unregistered \in EventType
      BY <3>1 DEF Unregistered, EventType
    <3> QED
      BY <1>1, <1>4, <3>2 DEF CloseListener, KernelOK
  <2>4. MainOK'
    BY <1>1, <1>4 DEF CloseListener, MainOK
  <2> QED
    BY <1>1, <1>4, <2>2, <2>3, <2>4, TypePartsNext DEF CloseListener, TableOK, PoolOK
<1>5. CASE StopPool
  <2>1. stopped' \in BOOLEAN
    BY <1>5, Zenon DEF StopPool, JQ!Stop
  <2>2. PoolOK'
    BY <1>1, <1>5, <2>1 DEF StopPool, JQ!Stop, PoolOK
  <2>3. MainOK'
    BY <1>1, <1>5 DEF StopPool, MainOK
  <2> QED
    BY <1>1, <1>5, <2>2, <2>3, TypePartsNext DEF StopPool, NetOK, KernelOK, TableOK
<1>6. CASE Interrupt
  <2>1. keep_on' \in BOOLEAN
    BY <1>6, Zenon DEF Interrupt
  <2>2. MainOK'
    BY <1>1, <1>6, <2>1 DEF Interrupt, MainOK
  <2> QED
    BY <1>1, <1>6, <2>2, TypePartsNext DEF Interrupt, NetOK, KernelOK, TableOK, PoolOK
<1> QED
  BY <1>2, <1>3, <1>4, <1>5, <1>6

(* The steps of worker_callback. *)
LEMMA RunningType ==
    ASSUME PoolOK, hpc # "idle"
    PROVE  running \in ClientCopies /\ running.idx \in Slots
BY DEF PoolOK, ClientCopies

LEMMA CallbackType ==
    ASSUME TypeOK, CallbackStep
    PROVE  TypeOK'
<1>1. NetOK /\ KernelOK /\ TableOK /\ MainOK /\ PoolOK
  BY TypeParts
<1> USE DEF net, kernel, table, main, pool, handler
<1>2. CASE StartCallback
  <2>1. Head(pending) \in ClientCopies /\ Tail(pending) \in Seq(ClientCopies)
    BY <1>1, <1>2 DEF StartCallback, JQ!Take, PoolOK
  <2>2. Head(pending) # NoJob
    BY <2>1, ServerAssumption
  <2>3. PoolOK'
    BY <1>1, <1>2, <2>1, <2>2 DEF StartCallback, JQ!Take, PoolOK
  <2> QED
    BY <1>1, <1>2, <2>3, TypePartsNext DEF StartCallback, NetOK, KernelOK, TableOK, MainOK
<1>3. CASE RecvRequest
  <2> DEFINE c == Peer
  <2>1. /\ c \in Conns /\ hpc = "recv" /\ hpc' = "respond"
        /\ req' = [kind |-> conns[c].inbox, from |-> c]
        /\ conns' = [conns EXCEPT ![c].inbox = NoRequest]
        /\ UNCHANGED <<backlog, kernel, table, main, pool>>
    BY <1>3 DEF RecvRequest
  <2> HIDE DEF c
  <2>2. NetOK'
    <3>1. conns' \in [Conns -> ConnType]
      BY <1>1, <2>1 DEF NetOK, ConnType
    <3> QED
      BY <1>1, <2>1, <3>1 DEF NetOK
  <2>3. PoolOK'
    <3>1. conns[c].inbox \in Requests \cup {NoRequest}
      BY <1>1, <2>1 DEF NetOK, ConnType
    <3> QED
      BY <1>1, <2>1, <3>1 DEF PoolOK
  <2> QED
    BY <1>1, <2>1, <2>2, <2>3, TypePartsNext DEF KernelOK, TableOK, MainOK
<1>4. CASE RecvNothing \/ RearmFails
  <2>1. PoolOK'
    BY <1>1, <1>4 DEF RecvNothing, RearmFails, PoolOK
  <2> QED
    BY <1>1, <1>4, <2>1, TypePartsNext
      DEF RecvNothing, RearmFails, NetOK, KernelOK, TableOK, MainOK
<1>5. CASE Respond
  <2>1. \A c \in Conns : [conns[c] EXCEPT !.waiting = IF c = Peer THEN FALSE ELSE @]
                             \in ConnType
    BY <1>1 DEF NetOK, ConnType
  <2>2. NetOK'
    BY <1>1, <1>5, <2>1 DEF Respond, NetOK
  <2>3. PoolOK'
    BY <1>1, <1>5 DEF Respond, PoolOK
  <2> QED
    BY <1>1, <1>5, <2>2, <2>3, TypePartsNext DEF Respond, KernelOK, TableOK, MainOK
<1>6. CASE RespondBrokenPipe
  <2>1. MainOK'
    BY <1>1, <1>6 DEF RespondBrokenPipe, MainOK
  <2> QED
    BY <1>1, <1>6, <2>1, TypePartsNext DEF RespondBrokenPipe, NetOK, KernelOK, TableOK, PoolOK
<1>7. CASE Rearm
  <2>1. ClientEvent(running.idx) \in EventType
    BY <1>1, <1>7, RunningType DEF Rearm, ClientEvent, EventType
  <2>2. KernelOK'
    BY <1>1, <1>7, <2>1 DEF Rearm, KernelOK
  <2>3. PoolOK'
    BY <1>1, <1>7 DEF Rearm, PoolOK
  <2> QED
    BY <1>1, <1>7, <2>2, <2>3, TypePartsNext DEF Rearm, NetOK, TableOK, MainOK
<1>8. CASE Touch \/ ClearInFlight
  <2>1. running.idx \in Slots
    BY <1>1, <1>8, RunningType DEF Touch, ClearInFlight
  <2>2. /\ [clients[running.idx] EXCEPT !.age = 0, !.in_flight = FALSE] \in ClientType
        /\ [clients[running.idx] EXCEPT !.in_flight = FALSE] \in ClientType
    <3>1. clients[running.idx] \in ClientType /\ 0 \in 0 .. KeepAliveTimeout
      BY <1>1, <2>1, ServerAssumption DEF TableOK
    <3> QED
      BY <3>1 DEF ClientType
  <2>3. TableOK'
    <3>1. CASE Touch
      <4>1. clients' = [clients EXCEPT ![running.idx] =
                           [clients[running.idx] EXCEPT !.age = 0, !.in_flight = FALSE]]
        BY <1>1, <2>1, <3>1 DEF Touch, TableOK
      <4> QED
        BY <1>1, <2>1, <2>2, <3>1, <4>1 DEF Touch, TableOK
    <3>2. CASE ClearInFlight
      BY <1>1, <2>1, <2>2, <3>2 DEF ClearInFlight, TableOK
    <3> QED
      BY <1>8, <3>1, <3>2
  <2>4. PoolOK'
    BY <1>1, <1>8 DEF Touch, ClearInFlight, JQ!Finish, PoolOK
  <2> QED
    BY <1>1, <1>8, <2>3, <2>4, TypePartsNext
      DEF Touch, ClearInFlight, NetOK, KernelOK, MainOK
<1>9. CASE RemovePeer
  <2>1. running.idx \in Slots
    BY <1>1, <1>9, RunningType DEF RemovePeer
  <2>2. NetOK' /\ KernelOK' /\ TableOK'
    BY <1>1, <1>9, <2>1, RemoveClientType DEF RemovePeer
  <2>3. PoolOK'
    BY <1>1, <1>9 DEF RemovePeer, PoolOK
  <2> QED
    BY <1>1, <1>9, <2>2, <2>3, TypePartsNext DEF RemovePeer, MainOK
<1> QED
  BY <1>2, <1>3, <1>4, <1>5, <1>6, <1>7, <1>8, <1>9 DEF CallbackStep

(* The peers and the clock. *)
LEMMA PeerType ==
    ASSUME TypeOK, Arrive \/ Talk
    PROVE  TypeOK'
<1>1. NetOK /\ KernelOK /\ TableOK /\ MainOK /\ PoolOK
  BY TypeParts
<1> USE DEF net, kernel, table, main, pool, handler
<1>2. ASSUME NEW c \in Conns, Connect(c) PROVE TypeOK'
  <2>1. conns' = [conns EXCEPT ![c].stage = "backlog"]
    BY <1>2 DEF Connect
  <2>2. conns' \in [Conns -> ConnType]
    BY <1>1, <2>1 DEF NetOK, ConnType
  <2>3. NetOK'
    BY <1>1, <1>2, <2>2 DEF Connect, NetOK
  <2> QED
    BY <1>1, <1>2, <2>3, TypePartsNext DEF Connect, KernelOK, TableOK, MainOK, PoolOK
<1>3. ASSUME NEW c \in Conns, NEW r \in Requests, Send(c, r) PROVE TypeOK'
  <2>1. conns' = [conns EXCEPT ![c].inbox = r, ![c].waiting = TRUE]
    BY <1>3 DEF Send
  <2>2. conns' \in [Conns -> ConnType]
    BY <1>1, <2>1, ZenonT(60) DEF NetOK, ConnType
  <2>3. NetOK'
    BY <1>1, <1>3, <2>2 DEF Send, NetOK
  <2> QED
    BY <1>1, <1>3, <2>3, TypePartsNext DEF Send, KernelOK, TableOK, MainOK, PoolOK
<1>4. ASSUME NEW c \in Conns, Close(c) PROVE TypeOK'
  <2>1. conns' = [conns EXCEPT ![c].eof = TRUE]
    BY <1>4 DEF Close
  <2>2. conns' \in [Conns -> ConnType]
    BY <1>1, <2>1 DEF NetOK, ConnType
  <2>3. NetOK'
    BY <1>1, <1>4, <2>2 DEF Close, NetOK
  <2> QED
    BY <1>1, <1>4, <2>3, TypePartsNext DEF Close, KernelOK, TableOK, MainOK, PoolOK
<1> QED
  BY <1>2, <1>3, <1>4 DEF Arrive, Talk

LEMMA MinOfTwo ==
    ASSUME NEW a \in Int, NEW b \in Int
    PROVE  Min({a, b}) = IF a <= b THEN a ELSE b
<1> DEFINE m == IF a <= b THEN a ELSE b
<1>1. m \in {a, b} /\ \A y \in {a, b} : m <= y
  OBVIOUS
<1>2. \A x \in {a, b} : (\A y \in {a, b} : x <= y) => x = m
  OBVIOUS
<1> QED
  BY <1>1, <1>2 DEF Min

LEMMA TickType ==
    ASSUME TypeOK, Tick
    PROVE  TypeOK'
<1>1. NetOK /\ KernelOK /\ TableOK /\ MainOK /\ PoolOK
  BY TypeParts
<1>2. ASSUME NEW s \in Slots
      PROVE  [clients[s] EXCEPT !.age = Min({@ + 1, KeepAliveTimeout})] \in ClientType
  <2>1. clients[s] \in ClientType
    BY <1>1 DEF TableOK
  <2>2. clients[s].age + 1 \in Int /\ KeepAliveTimeout \in Int /\ clients[s].age + 1 >= 0
    BY <2>1, ServerAssumption DEF ClientType
  <2>3. Min({clients[s].age + 1, KeepAliveTimeout}) \in 0 .. KeepAliveTimeout
    BY <2>2, MinOfTwo, ServerAssumption
  <2> QED
    BY <2>1, <2>3 DEF ClientType
<1>3. TableOK'
  BY <1>1, <1>2 DEF Tick, TableOK
<1> QED
  BY <1>1, <1>3, TypePartsNext
    DEF Tick, NetOK, KernelOK, MainOK, PoolOK, net, kernel, main, pool, handler

LEMMA NextType ==
    ASSUME TypeOK, AtEvent, [Next]_vars
    PROVE  TypeOK'
<1>1. CASE MainStep
  BY <1>1, EpollWaitType, SweepType, HandleEventType, AcceptType, ShutdownType
    DEF MainStep
<1>2. CASE UNCHANGED vars
  BY <1>2, TypeParts, TypePartsNext
    DEF vars, net, kernel, table, main, pool, handler, NetOK, KernelOK, TableOK,
        MainOK, PoolOK
<1> QED
  BY <1>1, <1>2, CallbackType, HandleEventType, AcceptType, PeerType, TickType, ShutdownType
    DEF Next, ServerStep, Shortage, Ended

(* main finds the event it is at where it left it. *)
LEMMA NextAtEvent ==
    ASSUME TypeOK, AtEvent, [Next]_vars
    PROVE  AtEvent'
<1>1. MainOK
  BY TypeParts
<1>2. CASE MainStep
  <2>1. CASE EpollWait \/ SweepPast \/ SweepExpired \/ Reap
    BY <2>1 DEF EpollWait, SweepPast, SweepExpired, Reap, Advance, AtEvent
  <2>2. CASE EventsDone \/ MarkInFlight \/ Dispatch \/ AcceptLater \/ StartAccepting \/ WouldBlock
    BY <2>2 DEF EventsDone, MarkInFlight, Dispatch, AcceptLater, StartAccepting, WouldBlock,
                ListenEvent, AtEvent
  <2>3. CASE (\E f \in Fds : AcceptClient(f)) \/ Reject \/ RejectBrokenPipe \/ AcceptFails
    BY <2>3 DEF AcceptClient, Reject, RejectBrokenPipe, AcceptFails, Accepting, AtEvent
  <2>4. CASE LeaveLoop \/ CloseClient \/ CloseListener \/ StopPool
    BY <2>4 DEF LeaveLoop, CloseClient, CloseListener, StopPool, Advance, AtEvent
  <2> QED
    BY <1>2, <2>1, <2>2, <2>3, <2>4 DEF MainStep
<1>3. CASE CallbackStep
  BY <1>3 DEF CallbackStep, StartCallback, RecvRequest, RecvNothing, Respond, RespondBrokenPipe,
              Rearm, RearmFails, Touch, RemovePeer, ClearInFlight, main, AtEvent
<1>4. CASE Shortage
  BY <1>4 DEF Shortage, DispatchDropped, AcceptUnregistered, Accepting, AtEvent
<1>5. CASE Arrive \/ Talk \/ Tick \/ Interrupt \/ Ended \/ UNCHANGED vars
  BY <1>5 DEF Arrive, Talk, Tick, Interrupt, Ended, Connect, Send, Close, vars, main, AtEvent
<1> QED
  BY <1>2, <1>3, <1>4, <1>5 DEF Next, ServerStep

(* Spec is everything that can happen: SIGINT and shutdown under running   *)
(* callbacks, expiry, failing calls.  The table, the free list and all     *)
(* loop variables keep their types and bounds through it.                  *)
THEOREM TypeCorrect == Spec => []TypeOK
<1>1. Init => TypeOK /\ AtEvent
  BY InitType
<1>2. (TypeOK /\ AtEvent) /\ [Next]_vars => (TypeOK /\ AtEvent)'
  BY NextType, NextAtEvent
<1> QED
  BY <1>1, <1>2, PTL DEF Spec

-----------------------------------------------------------------------------
(* What a step leaves alone, and what it therefore cannot break.           *)

(* The clients, but for their times and marks. *)
SameClients == \A s \in Slots : /\ clients'[s].fd = clients[s].fd
                                /\ clients'[s].address = clients[s].address
                                /\ clients'[s].is_alive = clients[s].is_alive

(* How far the connections are, and what became of their addresses. *)
SameStages == \A c \in Conns : /\ conns'[c].stage = conns[c].stage
                               /\ conns'[c].address = conns[c].address

LEMMA UnchangedClients == UNCHANGED clients => SameClients
BY DEF SameClients

LEMMA UnchangedConns == UNCHANGED conns => SameStages
BY DEF SameStages

(* Whatever names a slot names one of the table. *)
LEMMA SlotNames ==
    ASSUME TypeOK
    PROVE  /\ \A f \in Fds : epoll[f].slot \in Slots
           /\ \A n \in DOMAIN events : events[n] # Listen => events[n] \in Slots
           /\ \A n \in DOMAIN pending : pending[n] \in ClientCopies /\ pending[n].idx \in Slots
           /\ hpc # "idle" => running \in ClientCopies /\ running.idx \in Slots
<1>1. /\ \A f \in Fds : epoll[f].slot \in Slots
      /\ \A n \in DOMAIN events : events[n] # Listen => events[n] \in Slots
  BY DEF TypeOK
<1>2. \A n \in DOMAIN pending : pending[n] \in ClientCopies
  BY DEF TypeOK
<1>3. hpc # "idle" => running \in ClientCopies
  BY DEF TypeOK
<1>4. \A j \in ClientCopies : j.idx \in Slots
  BY DEF ClientCopies
<1> QED
  BY <1>1, <1>2, <1>3, <1>4

LEMMA OwnedFrame ==
    ASSUME Owned, SameClients, SameStages, UNCHANGED fds
    PROVE  Owned'
BY DEF Owned, SameClients, SameStages, Live

LEMMA SlotsFrame ==
    ASSUME SlotsAccounted, SameClients, UNCHANGED free_list
    PROVE  SlotsAccounted'
BY DEF SlotsAccounted, SameClients

LEMMA WaitingFrame ==
    ASSUME TypeOK, Waiting, SameStages, UNCHANGED backlog
    PROVE  Waiting'
<1>1. backlog \in Seq(Conns)
  BY DEF TypeOK
<1> QED
  BY <1>1 DEF Waiting, SameStages

LEMMA FreedFrame ==
    ASSUME FreedOnce, SameStages
    PROVE  FreedOnce'
BY DEF FreedOnce, SameStages

LEMMA ArmedFrame ==
    ASSUME TypeOK, ArmedOnes, SameClients, UNCHANGED epoll
    PROVE  ArmedOnes'
BY SlotNames DEF ArmedOnes, SameClients, Live

LEMMA ReportedFrame ==
    ASSUME TypeOK, ReportedOnes, SameClients, UNCHANGED <<epoll, events, pending>>,
           Handling' => Handling /\ UNCHANGED running
    PROVE  ReportedOnes'
BY SlotNames DEF ReportedOnes, SameClients, Live, IsArmed, IsQueued, IsHandled

LEMMA QueuedFrame ==
    ASSUME TypeOK, QueuedOnes, SameClients, UNCHANGED <<epoll, pending>>,
           Handling' => Handling /\ UNCHANGED running
    PROVE  QueuedOnes'
BY SlotNames DEF QueuedOnes, SameClients, Live, IsArmed, IsHandled, CopyOf

LEMMA HandledFrame ==
    ASSUME TypeOK, HandledOne, SameClients, UNCHANGED epoll,
           Handling' => Handling /\ UNCHANGED running
    PROVE  HandledOne'
BY SlotNames DEF Handling, HandledOne, SameClients, Live, IsArmed, CopyOf

LEMMA HeardFrame ==
    ASSUME TypeOK, Heard, SameClients, UNCHANGED <<conns, events, pending>>,
           hpc' = "recv" => hpc = "recv" /\ UNCHANGED running
    PROVE  Heard'
BY SlotNames DEF Heard, SameClients, Hears

LEMMA AnsweringFrame ==
    ASSUME Answering, UNCHANGED conns,
           hpc' = "respond" => hpc = "respond" /\ UNCHANGED <<running, req>>
    PROVE  Answering'
BY DEF Answering

LEMMA LedgerFrame ==
    ASSUME TypeOK, Ledger, SameClients, SameStages, UNCHANGED <<fds, free_list, backlog>>
    PROVE  Ledger'
BY OwnedFrame, SlotsFrame, WaitingFrame, FreedFrame DEF Ledger

LEMMA PlacesFrame ==
    ASSUME TypeOK, Places, SameClients, UNCHANGED <<epoll, events, pending>>,
           Handling' => Handling /\ UNCHANGED running
    PROVE  Places'
BY ArmedFrame, ReportedFrame, QueuedFrame, HandledFrame DEF Places

-----------------------------------------------------------------------------
(* The steps of main that only look. *)
LEMMA LookOn ==
    ASSUME Sound,
           SweepPast \/ SweepExpired \/ EventsDone \/ StartAccepting \/ LeaveLoop \/ Interrupt
    PROVE  Books'
<1>1. UNCHANGED <<net, kernel, table, events, pool, handler>>
  BY DEF SweepPast, SweepExpired, EventsDone, StartAccepting, LeaveLoop, Interrupt
<1>2. SameClients /\ SameStages
  BY <1>1, UnchangedClients, UnchangedConns DEF table, net
<1>4. Ledger'
  BY <1>1, <1>2, LedgerFrame DEF Sound, Books, net, kernel, table
<1>5. Places'
  BY <1>1, <1>2, PlacesFrame DEF Sound, Books, kernel, pool, handler, Handling
<1>6. Heard' /\ Answering'
  BY <1>1, <1>2, HeardFrame, AnsweringFrame DEF Sound, Books, net, pool, handler
<1> QED
  BY <1>4, <1>5, <1>6 DEF Books

(* An event that is dealt with, or dropped, leaves the others as they are. *)
LEMMA NextEvent ==
    ASSUME Sound, events # <<>>, events' = Tail(events),
           UNCHANGED <<net, kernel, table, pool, handler>>
    PROVE  Books'
<1>1. SameClients /\ SameStages
  BY UnchangedClients, UnchangedConns DEF table, net
<1>3. Ledger'
  BY <1>1, LedgerFrame DEF Sound, Books, net, kernel, table
<1>4. ArmedOnes' /\ QueuedOnes' /\ HandledOne' /\ Answering'
  BY <1>1, ArmedFrame, QueuedFrame, HandledFrame, AnsweringFrame
    DEF Sound, Books, Places, kernel, pool, handler, net, Handling
<1>5. \A n \in DOMAIN events' : /\ n \in Nat /\ n + 1 \in DOMAIN events
                                /\ events'[n] = events[n + 1]
  BY TailEntries DEF Sound, TypeOK
<1>6. ReportedOnes'
  <2>1. ReportedOnes
    BY DEF Sound, Books, Places
  <2>2. ASSUME NEW n \in DOMAIN events', events'[n] # Listen
        PROVE  (Live(events[n]) /\ ~IsArmed(events[n]) /\ ~IsQueued(events[n])
                  /\ ~IsHandled(events[n]))'
    BY <1>5, <2>1, <2>2 DEF ReportedOnes, Live, IsArmed, IsQueued, IsHandled, Handling,
                            kernel, table, pool, handler
  <2>3. ASSUME NEW m \in DOMAIN events', NEW n \in DOMAIN events',
               events'[m] = events'[n], events'[n] # Listen
        PROVE  m = n
    <3>1. m + 1 = n + 1
      BY <1>5, <2>1, <2>3 DEF ReportedOnes
    <3> QED
      BY <1>5, <3>1
  <2> QED
    BY <2>2, <2>3 DEF ReportedOnes
<1>7. Heard'
  BY <1>5 DEF Sound, Books, Heard, Hears, net, table, pool, handler
<1> QED
  BY <1>3, <1>4, <1>6, <1>7 DEF Books, Places

LEMMA DropEvent ==
    ASSUME Sound, DispatchDropped \/ AcceptLater \/ WouldBlock
    PROVE  Books'
<1>1. events # <<>>
  BY DEF Sound, AtEvent, DispatchDropped, AcceptLater, ListenEvent, WouldBlock
<1>2. /\ events' = Tail(events)
      /\ UNCHANGED <<net, kernel, table, pool, handler>>
  BY DEF DispatchDropped, AcceptLater, ListenEvent, WouldBlock
<1> QED
  BY <1>1, <1>2, NextEvent

(* A client is marked, or its marks are taken away. *)
LEMMA MarkingBooks ==
    ASSUME Sound, MarkInFlight
    PROVE  Books'
<1> DEFINE s == Head(events)
<1>1. /\ clients' = [clients EXCEPT ![s].in_flight = TRUE]
      /\ UNCHANGED <<net, kernel, free_list, events, pool, handler>>
  BY DEF MarkInFlight
<1>2. SameClients
  <2>1. clients \in [Slots -> ClientType]
    BY DEF Sound, TypeOK
  <2> HIDE DEF s
  <2> QED
    BY <1>1, <2>1 DEF SameClients, ClientType
<1>4. SameStages
  BY <1>1, UnchangedConns DEF net
<1>5. Ledger'
  BY <1>1, <1>2, <1>4, LedgerFrame DEF Sound, Books, net, kernel, table
<1>6. Places'
  BY <1>1, <1>2, PlacesFrame DEF Sound, Books, kernel, pool, handler, Handling
<1>7. Heard' /\ Answering'
  BY <1>1, <1>2, HeardFrame, AnsweringFrame DEF Sound, Books, net, pool, handler
<1> QED
  BY <1>5, <1>6, <1>7 DEF Books

(* A copy of the client goes to the pool, and its event with it. *)
LEMMA DispatchBooks ==
    ASSUME Sound, Dispatch
    PROVE  Books'
<1> DEFINE s == Head(events)
<1>1. /\ pending' = Append(pending, CopyOf(s)) /\ events' = Tail(events)
      /\ events # <<>> /\ s # Listen
      /\ UNCHANGED <<net, kernel, table, running, handler>>
  BY DEF Dispatch, JQ!Put, Sound, AtEvent
<1>2. SameClients /\ SameStages
  BY <1>1, UnchangedClients, UnchangedConns DEF table, net
<1>4. Ledger'
  BY <1>1, <1>2, LedgerFrame DEF Sound, Books, net, kernel, table
<1>5. ArmedOnes' /\ HandledOne' /\ Answering'
  BY <1>1, <1>2, ArmedFrame, HandledFrame, AnsweringFrame
    DEF Sound, Books, Places, kernel, handler, net, Handling
<1>6. /\ 1 \in DOMAIN events /\ s = events[1]
      /\ \A n \in DOMAIN events' : /\ n \in Nat /\ n + 1 \in DOMAIN events /\ n + 1 # 1
                                   /\ events'[n] = events[n + 1]
  BY <1>1, TailEntries DEF Sound, TypeOK
<1> DEFINE l == Len(pending) + 1
<1>7. /\ l \in DOMAIN pending' /\ l \notin DOMAIN pending /\ pending'[l] = CopyOf(s)
      /\ \A n \in DOMAIN pending : n \in DOMAIN pending' /\ pending'[n] = pending[n]
      /\ \A n \in DOMAIN pending' : n \in DOMAIN pending \/ n = l
  <2>1. s \in Slots
    BY <1>1, <1>6, SlotNames DEF Sound
  <2>2. CopyOf(s) \in ClientCopies
    BY <2>1 DEF Sound, TypeOK, CopyOf, ClientCopies, ClientType
  <2>3. pending \in Seq(ClientCopies)
    BY DEF Sound, TypeOK
  <2> QED
    BY <1>1, <2>2, <2>3, AppendEntries
<1> HIDE DEF l, s
<1>8. CopyOf(s).idx = s /\ CopyOf(s).address = clients[s].address
  BY <1>1 DEF CopyOf, table
<1>9. ReportedOnes /\ QueuedOnes /\ Heard
  BY DEF Sound, Books, Places
<1>10. /\ Live(s) /\ ~IsArmed(s) /\ ~IsQueued(s) /\ ~IsHandled(s) /\ Hears(clients[s].address)
  BY <1>1, <1>6, <1>9 DEF ReportedOnes, Heard
<1>11. ReportedOnes'
  <2>1. ASSUME NEW n \in DOMAIN events', events'[n] # Listen
        PROVE  (Live(events[n]) /\ ~IsArmed(events[n]) /\ ~IsQueued(events[n])
                  /\ ~IsHandled(events[n]))'
    <3>1. /\ Live(events'[n]) /\ ~IsArmed(events'[n]) /\ ~IsQueued(events'[n])
          /\ ~IsHandled(events'[n]) /\ events'[n] # s
      BY <1>1, <1>6, <1>9, <2>1 DEF ReportedOnes
    <3>2. (~IsQueued(events[n]))'
      BY <1>7, <1>8, <3>1 DEF IsQueued
    <3> QED
      BY <1>1, <3>1, <3>2 DEF Live, IsArmed, IsHandled, Handling, kernel, table, handler
  <2>2. ASSUME NEW m \in DOMAIN events', NEW n \in DOMAIN events',
               events'[m] = events'[n], events'[n] # Listen
        PROVE  m = n
    <3>1. m + 1 = n + 1
      BY <1>6, <1>9, <2>2 DEF ReportedOnes
    <3> QED
      BY <1>6, <3>1
  <2> QED
    BY <2>1, <2>2 DEF ReportedOnes
<1>12. QueuedOnes'
  <2>1. ASSUME NEW n \in DOMAIN pending'
        PROVE  (/\ Live(pending[n].idx) /\ pending[n] = CopyOf(pending[n].idx)
                /\ ~IsArmed(pending[n].idx) /\ ~IsHandled(pending[n].idx))'
    BY <1>1, <1>7, <1>8, <1>9, <1>10
      DEF QueuedOnes, Live, IsArmed, IsHandled, Handling, CopyOf, kernel, table, handler
  <2>2. ASSUME NEW m \in DOMAIN pending', NEW n \in DOMAIN pending',
               pending'[m].idx = pending'[n].idx
        PROVE  m = n
    BY <1>7, <1>8, <1>9, <1>10, <2>2 DEF QueuedOnes, IsQueued
  <2> QED
    BY <2>1, <2>2 DEF QueuedOnes
<1>13. Heard'
  <2>1. /\ \A c : Hears(c)' <=> Hears(c)
        /\ UNCHANGED <<clients, hpc, running>>
    BY <1>1 DEF Hears, net, table, handler
  <2> QED
    BY <1>6, <1>7, <1>8, <1>9, <1>10, <2>1 DEF Heard
<1> QED
  BY <1>4, <1>5, <1>11, <1>12, <1>13 DEF Books, Places

(* The worker takes the oldest copy, and the event with it. *)
LEMMA StartBooks ==
    ASSUME Sound, StartCallback
    PROVE  Books'
<1>1. /\ pending # <<>> /\ pending' = Tail(pending) /\ running' = Head(pending)
      /\ running = NoJob /\ hpc' = "recv" /\ UNCHANGED <<net, kernel, table, main, req>>
  BY DEF StartCallback, JQ!Take
<1>2. SameClients /\ SameStages
  BY <1>1, UnchangedClients, UnchangedConns DEF table, net
<1>4. Ledger'
  BY <1>1, <1>2, LedgerFrame DEF Sound, Books, net, kernel, table
<1>5. ArmedOnes'
  BY <1>1, <1>2, ArmedFrame DEF Sound, Books, Places, kernel
<1>6. Answering'
  BY <1>1 DEF Sound, Books, Answering, net
<1>7. /\ 1 \in DOMAIN pending /\ running' = pending[1]
      /\ \A n \in DOMAIN pending' : /\ n \in Nat /\ n + 1 \in DOMAIN pending /\ n + 1 # 1
                                    /\ pending'[n] = pending[n + 1]
  BY <1>1, TailEntries DEF Sound, TypeOK
<1>8. ReportedOnes /\ QueuedOnes /\ Heard
  BY DEF Sound, Books, Places
<1>9. ReportedOnes'
  <2>1. ASSUME NEW n \in DOMAIN events', events'[n] # Listen
        PROVE  (Live(events[n]) /\ ~IsArmed(events[n]) /\ ~IsQueued(events[n])
                  /\ ~IsHandled(events[n]))'
    <3>1. /\ Live(events[n]) /\ ~IsArmed(events[n]) /\ ~IsQueued(events[n])
          /\ events'[n] = events[n]
      BY <1>1, <1>8, <2>1 DEF ReportedOnes, main
    <3>2. (~IsQueued(events[n]))' /\ (~IsHandled(events[n]))'
      BY <1>7, <3>1 DEF IsQueued, IsHandled
    <3> QED
      BY <1>1, <3>1, <3>2 DEF Live, IsArmed, kernel, table
  <2> QED
    BY <1>1, <1>8, <2>1 DEF ReportedOnes, main
<1>10. QueuedOnes'
  <2>1. ASSUME NEW n \in DOMAIN pending'
        PROVE  (/\ Live(pending[n].idx) /\ pending[n] = CopyOf(pending[n].idx)
                /\ ~IsArmed(pending[n].idx) /\ ~IsHandled(pending[n].idx))'
    BY <1>1, <1>7, <1>8 DEF QueuedOnes, Live, IsArmed, IsHandled, CopyOf, kernel, table
  <2>2. ASSUME NEW m \in DOMAIN pending', NEW n \in DOMAIN pending',
               pending'[m].idx = pending'[n].idx
        PROVE  m = n
    <3>1. m + 1 = n + 1
      BY <1>7, <1>8, <2>2 DEF QueuedOnes
    <3> QED
      BY <1>7, <3>1
  <2> QED
    BY <2>1, <2>2 DEF QueuedOnes
<1>11. HandledOne'
  BY <1>1, <1>7, <1>8 DEF QueuedOnes, HandledOne, Live, IsArmed, CopyOf, kernel, table
<1>12. Heard'
  <2>1. /\ \A c : Hears(c)' <=> Hears(c)
        /\ UNCHANGED <<clients, events>>
    BY <1>1 DEF Hears, net, table, main
  <2> QED
    BY <1>7, <1>8, <2>1 DEF Heard
<1> QED
  BY <1>4, <1>5, <1>6, <1>9, <1>10, <1>11, <1>12 DEF Books, Places

(* The steps of worker_callback that keep the client to themselves and     *)
(* change no connection. *)
LEMMA HoldOn ==
    ASSUME Sound, RecvNothing \/ RearmFails \/ RespondBrokenPipe
    PROVE  Books'
<1>1. /\ UNCHANGED <<net, kernel, table, events, pool, req>>
      /\ Handling /\ (hpc' = "recv" => hpc = "recv") /\ (hpc' = "respond" => hpc = "respond")
  BY DEF RecvNothing, RearmFails, RespondBrokenPipe, main, handler, Handling
<1>2. SameClients /\ SameStages
  BY <1>1, UnchangedClients, UnchangedConns DEF table, net
<1>4. Ledger'
  BY <1>1, <1>2, LedgerFrame DEF Sound, Books, net, kernel, table
<1>5. Places'
  BY <1>1, <1>2, PlacesFrame DEF Sound, Books, kernel, pool
<1>6. Heard' /\ Answering'
  BY <1>1, <1>2, HeardFrame, AnsweringFrame DEF Sound, Books, net, pool
<1> QED
  BY <1>4, <1>5, <1>6 DEF Books

(* The connections that somebody is to answer are connections. *)
LEMMA Addresses ==
    ASSUME Sound
    PROVE  /\ \A n \in DOMAIN events : events[n] # Listen => clients[events[n]].address \in Conns
           /\ \A n \in DOMAIN pending : pending[n].address \in Conns
           /\ Handling => running.address \in Conns
<1>1. /\ Owned /\ ReportedOnes /\ QueuedOnes /\ HandledOne
      /\ \A s \in Slots : Live(s) => clients[s].address \in Conns
  BY DEF Sound, Books, Ledger, Places, Owned
<1>2. \A n \in DOMAIN events : events[n] # Listen => events[n] \in Slots /\ Live(events[n])
  BY <1>1, SlotNames DEF Sound, ReportedOnes
<1>3. \A n \in DOMAIN pending : /\ pending[n].idx \in Slots /\ Live(pending[n].idx)
                                /\ pending[n].address = clients[pending[n].idx].address
  BY <1>1, SlotNames DEF Sound, QueuedOnes, CopyOf
<1>4. Handling => /\ running.idx \in Slots /\ Live(running.idx)
                  /\ running.address = clients[running.idx].address
  BY <1>1, SlotNames DEF Sound, HandledOne, CopyOf, Handling
<1> QED
  BY <1>1, <1>2, <1>3, <1>4

LEMMA HeardKept ==
    ASSUME Sound, SameClients, UNCHANGED <<events, pending>>,
           \A c \in Conns : Hears(c) => Hears(c)',
           hpc' = "recv" => hpc = "recv" /\ UNCHANGED running
    PROVE  Heard'
<1>1. Heard
  BY DEF Sound, Books
<1>2. \A n \in DOMAIN events : events[n] # Listen => events[n] \in Slots
  BY SlotNames DEF Sound
<1>3. hpc = "recv" => Handling
  BY DEF Handling
<1> QED
  BY <1>1, <1>2, <1>3, Addresses DEF Heard, SameClients

(* Two live clients do not share a descriptor. *)
LEMMA DescriptorsDistinct ==
    ASSUME Owned, NEW s \in Slots, NEW t \in Slots, Live(s), Live(t),
           clients[s].fd = clients[t].fd
    PROVE  s = t
BY DEF Owned

(* The client that worker_callback works on. *)
LEMMA HandledClient ==
    ASSUME Sound, Handling
    PROVE  /\ running.idx \in Slots /\ Live(running.idx) /\ ~IsArmed(running.idx)
           /\ running.fd = clients[running.idx].fd /\ running.fd \in Fds
           /\ running.address = clients[running.idx].address /\ running.address \in Conns
           /\ Peer = running.address
           /\ conns[Peer].stage = "open" /\ conns[Peer].address = "live"
<1>1. /\ Owned /\ HandledOne
  BY DEF Sound, Books, Ledger, Places
<1>2. /\ running.idx \in Slots /\ Live(running.idx) /\ ~IsArmed(running.idx)
      /\ running.fd = clients[running.idx].fd
      /\ running.address = clients[running.idx].address
  BY <1>1, SlotNames DEF Sound, HandledOne, CopyOf, Handling
<1> QED
  BY <1>1, <1>2 DEF Owned, Peer

(* Nobody else will answer it. *)
LEMMA OtherClients ==
    ASSUME Sound, Handling
    PROVE  /\ \A n \in DOMAIN events : events[n] # Listen =>
                 /\ events[n] \in Slots /\ events[n] # running.idx /\ Live(events[n])
                 /\ clients[events[n]].address # running.address
                 /\ clients[events[n]].fd # running.fd
           /\ \A n \in DOMAIN pending :
                 /\ pending[n].idx \in Slots /\ pending[n].idx # running.idx
                 /\ Live(pending[n].idx)
                 /\ pending[n].address # running.address
                 /\ clients[pending[n].idx].fd # running.fd
                 /\ pending[n].address = clients[pending[n].idx].address
<1>1. Owned /\ ReportedOnes /\ QueuedOnes
  BY DEF Sound, Books, Ledger, Places
<1>2. /\ running.idx \in Slots /\ Live(running.idx)
      /\ running.fd = clients[running.idx].fd
      /\ running.address = clients[running.idx].address
  BY HandledClient
<1>3. \A t \in Slots : Live(t) /\ t # running.idx =>
          /\ clients[t].address # running.address /\ clients[t].fd # running.fd
  BY <1>1, <1>2, DescriptorsDistinct DEF Owned
<1>4. \A n \in DOMAIN events : events[n] # Listen =>
          events[n] \in Slots /\ events[n] # running.idx /\ Live(events[n])
  BY <1>1, SlotNames DEF Sound, ReportedOnes, IsHandled
<1>5. \A n \in DOMAIN pending :
          /\ pending[n].idx \in Slots /\ pending[n].idx # running.idx /\ Live(pending[n].idx)
          /\ pending[n].address = clients[pending[n].idx].address
  BY <1>1, SlotNames DEF Sound, QueuedOnes, IsHandled, CopyOf
<1> QED
  BY <1>3, <1>4, <1>5

(* The request is read: the peer waits for its answer. *)
LEMMA RecvBooks ==
    ASSUME Sound, RecvRequest
    PROVE  Books'
<1> DEFINE p == running.address
<1>1. /\ hpc = "recv" /\ hpc' = "respond" /\ Peer \in Conns /\ conns[Peer].inbox # NoRequest
      /\ req' = [kind |-> conns[Peer].inbox, from |-> Peer]
      /\ conns' = [conns EXCEPT ![Peer].inbox = NoRequest]
      /\ UNCHANGED <<backlog, kernel, table, main, pool>>
  BY DEF RecvRequest
<1>2. Handling /\ Handling'
  BY <1>1 DEF Handling
<1>3. Peer = p /\ p \in Conns /\ conns[p].stage = "open"
  BY <1>2, HandledClient
<1> HIDE DEF p
<1>4. \A c \in Conns : /\ conns'[c].stage = conns[c].stage /\ conns'[c].address = conns[c].address
                       /\ conns'[c].waiting = conns[c].waiting /\ conns'[c].eof = conns[c].eof
                       /\ conns'[c].inbox = IF c = p THEN NoRequest ELSE conns[c].inbox
  <2>1. conns \in [Conns -> ConnType]
    BY DEF Sound, TypeOK, ConnType
  <2> QED
    BY <1>1, <1>3, <2>1 DEF ConnType
<1>5. SameClients /\ SameStages
  BY <1>1, <1>4, UnchangedClients DEF table, SameStages
<1>7. Ledger'
  BY <1>1, <1>5, LedgerFrame DEF Sound, Books, kernel, table
<1>8. Places'
  BY <1>1, <1>2, <1>5, PlacesFrame DEF Sound, Books, kernel, main, pool
<1>9. Heard'
  <2>1. Heard /\ \A c \in Conns : c # p => (Hears(c)' <=> Hears(c))
    BY <1>4 DEF Sound, Books, Hears
  <2>2. /\ \A n \in DOMAIN events : events[n] # Listen =>
               clients[events[n]].address \in Conns \ {p}
        /\ \A n \in DOMAIN pending : pending[n].address \in Conns \ {p}
    BY <1>2, OtherClients, Addresses DEF p
  <2> QED
    BY <1>1, <2>1, <2>2 DEF Heard, table, main, pool
<1>10. Answering'
  BY <1>1, <1>3, <1>4 DEF Sound, Books, Answering, pool, p
<1> QED
  BY <1>7, <1>8, <1>9, <1>10 DEF Books

(* The answer is sent. *)
LEMMA RespondBooks ==
    ASSUME Sound, Respond
    PROVE  Books'
<1>1. /\ hpc = "respond" /\ hpc' \in {"rearm", "remove"}
      /\ conns' = [c \in Conns |-> [conns[c] EXCEPT
                        !.waiting = IF c = Peer THEN FALSE ELSE @]]
      /\ UNCHANGED <<backlog, kernel, table, main, pool, req>>
  BY DEF Respond
<1>2. Handling /\ Handling'
  BY <1>1 DEF Handling
<1>3. Peer = running.address /\ Peer \in Conns
  BY <1>2, HandledClient
<1> DEFINE p == Peer
<1> HIDE DEF p
<1>4. \A c \in Conns : /\ conns'[c].stage = conns[c].stage /\ conns'[c].address = conns[c].address
                       /\ conns'[c].inbox = conns[c].inbox /\ conns'[c].eof = conns[c].eof
                       /\ (c # p => conns'[c].waiting = conns[c].waiting)
  <2>1. conns \in [Conns -> ConnType]
    BY DEF Sound, TypeOK, ConnType
  <2>2. conns' = [c \in Conns |-> [conns[c] EXCEPT !.waiting = IF c = p THEN FALSE ELSE @]]
    BY <1>1 DEF p
  <2> QED
    BY <2>1, <2>2 DEF ConnType
<1>5. SameClients /\ SameStages
  BY <1>1, <1>4, UnchangedClients DEF table, SameStages
<1>7. Ledger'
  BY <1>1, <1>5, LedgerFrame DEF Sound, Books, kernel, table
<1>8. Places'
  BY <1>1, <1>2, <1>5, PlacesFrame DEF Sound, Books, kernel, main, pool
<1>9. Heard'
  BY <1>1, <1>4, <1>5, HeardKept, ZenonT(60) DEF Hears, main, pool
<1>10. Answering'
  <2>1. conns[p].inbox = NoRequest /\ p \in Conns
    BY <1>1, <1>3 DEF Sound, Books, Answering, p
  <2>2. hpc' # "respond"
    BY <1>1
  <2>3. \A c \in Conns : conns[c].stage # "closed" /\ conns[c].inbox # NoRequest
                            => conns[c].waiting
    BY DEF Sound, Books, Answering
  <2>4. ASSUME NEW c \in Conns, conns'[c].stage # "closed",
               conns'[c].inbox # NoRequest
        PROVE  conns'[c].waiting
    BY <1>4, <2>1, <2>3, <2>4
  <2> QED
    BY <2>2, <2>4 DEF Answering
<1> QED
  BY <1>7, <1>8, <1>9, <1>10 DEF Books

(* The registration is armed again: the event is with the kernel. *)
LEMMA RearmBooks ==
    ASSUME Sound, Rearm
    PROVE  Books'
<1> DEFINE s == running.idx
           f == running.fd
<1>1. /\ hpc = "rearm" /\ hpc' = "touch"
      /\ epoll' = [epoll EXCEPT ![f] = ClientEvent(s)]
      /\ UNCHANGED <<net, fds, table, main, pool, req>>
  BY DEF Rearm
<1>2. Handling /\ ~Handling'
  BY <1>1 DEF Handling
<1>3. s \in Slots /\ Live(s) /\ f = clients[s].fd /\ f \in Fds
  BY <1>2, HandledClient
<1>4. SameClients /\ SameStages
  BY <1>1, UnchangedClients, UnchangedConns DEF table, net
<1>6. Ledger'
  BY <1>1, <1>4, LedgerFrame DEF Sound, Books, net, table
<1>7. Heard' /\ Answering'
  BY <1>1, <1>4, HeardFrame, AnsweringFrame DEF Sound, Books, net, main, pool
<1>8. /\ epoll'[f] = ClientEvent(s)
      /\ \A g \in Fds : g # f => epoll'[g] = epoll[g]
      /\ ArmedOnes /\ ReportedOnes /\ QueuedOnes /\ Owned
  BY <1>1, <1>3 DEF Sound, TypeOK, Books, Places, Ledger
<1>9. ArmedOnes'
  <2> HIDE DEF s, f
  <2> QED
    BY <1>1, <1>3, <1>8 DEF ArmedOnes, ClientEvent, Live, table
<1>10. ReportedOnes'
  <2>1. \A n \in DOMAIN events : events[n] # Listen =>
            /\ events[n] \in Slots /\ Live(events[n]) /\ clients[events[n]].fd # f
    BY <1>2, OtherClients
  <2>2. \A n \in DOMAIN events : events[n] # Listen => clients[events[n]].fd \in Fds
    BY <1>8, <2>1 DEF Owned
  <2> HIDE DEF s, f
  <2>3. \A n \in DOMAIN events : events[n] # Listen => (~IsArmed(events[n]))'
    BY <1>1, <1>8, <2>1, <2>2 DEF ReportedOnes, IsArmed, table, main
  <2> QED
    BY <1>1, <1>2, <1>8, <2>3 DEF ReportedOnes, Live, IsQueued, IsHandled, table, main, pool
<1>11. QueuedOnes'
  <2>1. \A n \in DOMAIN pending :
            /\ pending[n].idx \in Slots /\ Live(pending[n].idx) /\ clients[pending[n].idx].fd # f
    BY <1>2, OtherClients
  <2>2. \A n \in DOMAIN pending : clients[pending[n].idx].fd \in Fds
    BY <1>8, <2>1 DEF Owned
  <2> HIDE DEF s, f
  <2>3. \A n \in DOMAIN pending : (~IsArmed(pending[n].idx))'
    BY <1>1, <1>8, <2>1, <2>2 DEF QueuedOnes, IsArmed, table, pool
  <2> QED
    BY <1>1, <1>2, <1>8, <2>3 DEF QueuedOnes, Live, IsHandled, CopyOf, table, pool
<1>12. HandledOne'
  BY <1>2 DEF HandledOne
<1> QED
  BY <1>6, <1>7, <1>9, <1>10, <1>11, <1>12 DEF Books, Places

(* worker_callback returns; the client in its slot may be another by now,  *)
(* which its time and its mark do not tell. *)
LEMMA ReturnBooks ==
    ASSUME Sound, Touch \/ ClearInFlight
    PROVE  Books'
<1> DEFINE s == running.idx
<1>1. /\ hpc \in {"touch", "clear"} /\ hpc' = "idle"
      /\ UNCHANGED <<net, kernel, free_list, main, req, pending>>
  BY DEF Touch, ClearInFlight, JQ!Finish
<1>2. clients \in [Slots -> ClientType]
  BY DEF Sound, TypeOK
<1>3. \/ clients' = [clients EXCEPT ![s].age = 0, ![s].in_flight = FALSE]
      \/ clients' = [clients EXCEPT ![s].in_flight = FALSE]
  BY DEF Touch, ClearInFlight
<1> HIDE DEF s
<1>4. SameClients /\ \A t \in Slots : clients'[t].age \in {0, clients[t].age}
  <2>1. CASE clients' = [clients EXCEPT ![s].age = 0, ![s].in_flight = FALSE]
    BY <1>2, <2>1 DEF SameClients, ClientType
  <2>2. CASE clients' = [clients EXCEPT ![s].in_flight = FALSE]
    BY <1>2, <2>2 DEF SameClients, ClientType
  <2> QED
    BY <1>3, <2>1, <2>2
<1>5. SameStages /\ ~Handling'
  BY <1>1, UnchangedConns DEF net, Handling
<1>7. Ledger'
  BY <1>1, <1>4, <1>5, LedgerFrame DEF Sound, Books, net, kernel
<1>8. Places'
  BY <1>1, <1>4, <1>5, PlacesFrame DEF Sound, Books, kernel, main
<1>9. Heard' /\ Answering'
  BY <1>1, <1>4, HeardFrame, AnsweringFrame DEF Sound, Books, net, main
<1> QED
  BY <1>7, <1>8, <1>9 DEF Books

(* A live client is removed: nobody else has its event, and its slot goes  *)
(* back to the free list, which has room for it. *)
LEMMA RemovalBooks ==
    ASSUME Sound, NEW s \in Slots, NEW cl, RemoveClient(s, cl), Live(s),
           cl.fd = clients[s].fd, cl.address = clients[s].address,
           \A n \in DOMAIN events : events[n] # s,
           ~IsQueued(s),
           Handling' => Handling /\ running.idx # s /\ UNCHANGED <<hpc, running>>,
           UNCHANGED <<events, pending, req>>
    PROVE  Books'
<1> DEFINE f == clients[s].fd
           a == clients[s].address
<1>1. /\ free_list' = Pushed(s)
      /\ fds' = [fds EXCEPT ![f] = NoConn]
      /\ epoll' = [epoll EXCEPT ![f] = Unregistered]
      /\ conns' = Released(f, a)
      /\ clients' = [clients EXCEPT ![s].is_alive = FALSE]
      /\ UNCHANGED backlog
  BY DEF RemoveClient, CloseDescriptor, Descriptors, Buried
<1>2. /\ Handling' => Handling /\ running.idx # s /\ UNCHANGED <<hpc, running>>
      /\ hpc' \in {"recv", "respond"} => Handling'
  BY DEF Handling
<1>3. /\ Live(s) /\ f \in Fds /\ f = clients[s].fd /\ a = clients[s].address
      /\ a \in Conns /\ fds[f] = a /\ conns[a].stage = "open" /\ conns[a].address = "live"
  BY DEF Sound, Books, Ledger, Owned
<1>4. /\ clients \in [Slots -> ClientType] /\ conns \in [Conns -> ConnType]
      /\ fds \in [Fds -> Conns \cup {NoConn}] /\ epoll \in [Fds -> EventType]
      /\ free_list \in Seq(Slots) /\ Len(free_list) <= MaxConnections
      /\ backlog \in Seq(Conns) /\ TypeOK
  BY DEF Sound, TypeOK, ConnType, EventType
<1>5. /\ SlotsAccounted /\ Owned /\ Waiting /\ FreedOnce
      /\ ArmedOnes /\ ReportedOnes /\ QueuedOnes /\ HandledOne /\ Heard /\ Answering
  BY DEF Sound, Books, Ledger, Places
<1>6. /\ \A t \in Slots : Live(t) /\ t # s => clients[t].fd \in Fds \ {f}
      /\ \A n \in DOMAIN events : events[n] # Listen =>
            /\ events[n] \in Slots /\ events[n] # s /\ Live(events[n])
      /\ \A n \in DOMAIN pending :
            /\ pending[n].idx \in Slots /\ pending[n].idx # s /\ Live(pending[n].idx)
      /\ Handling => running.idx \in Slots /\ Live(running.idx) /\ running.address \in Conns
  <2>1. \A t \in Slots : Live(t) /\ t # s => clients[t].fd \in Fds /\ clients[t].fd # f
    BY <1>3, <1>5, DescriptorsDistinct DEF Owned
  <2>2. \A n \in DOMAIN events : events[n] # Listen => events[n] \in Slots /\ Live(events[n])
    BY <1>4, <1>5, SlotNames DEF ReportedOnes
  <2>3. \A n \in DOMAIN pending : pending[n].idx \in Slots /\ Live(pending[n].idx)
    BY <1>4, <1>5, SlotNames DEF QueuedOnes
  <2> QED
    BY <2>1, <2>2, <2>3, HandledClient DEF IsQueued
<1>7. /\ \A c \in Conns : /\ conns'[c].inbox = conns[c].inbox /\ conns'[c].eof = conns[c].eof
                          /\ conns'[c].waiting = conns[c].waiting
      /\ \A c \in Conns : c # a => conns'[c].stage = conns[c].stage /\ conns'[c].address = conns[c].address
      /\ conns'[a].stage = "closed" /\ conns'[a].address = "freed"
  <2> HIDE DEF a, f
  <2>1. ASSUME NEW c \in Conns
        PROVE  conns'[c] = [conns[c] EXCEPT
                               !.stage = IF c = a THEN "closed" ELSE @,
                               !.address = IF c # a THEN @
                                           ELSE IF @ = "live" THEN "freed" ELSE "twice"]
    BY <1>1, <1>3 DEF Released
  <2>2. ASSUME NEW c \in Conns
        PROVE  /\ conns'[c].inbox = conns[c].inbox /\ conns'[c].eof = conns[c].eof
               /\ conns'[c].waiting = conns[c].waiting
               /\ conns'[c].stage = IF c = a THEN "closed" ELSE conns[c].stage
               /\ conns'[c].address = IF c # a THEN conns[c].address
                                      ELSE IF conns[c].address = "live" THEN "freed" ELSE "twice"
    <3>1. conns[c] \in ConnType
      BY <1>4
    <3> QED
      BY <2>1, <3>1 DEF ConnType
  <2> QED
    BY <1>3, <2>2
<1>8. /\ \A t \in Slots : /\ clients'[t].fd = clients[t].fd /\ clients'[t].address = clients[t].address
                          /\ clients'[t].age = clients[t].age
                          /\ (t # s => clients'[t].is_alive = clients[t].is_alive)
      /\ clients'[s].is_alive = FALSE
  BY <1>1, <1>3, <1>4 DEF ClientType
<1>9. /\ \A g \in Fds : g # f => fds'[g] = fds[g] /\ epoll'[g] = epoll[g]
      /\ fds'[f] = NoConn /\ epoll'[f].armed = FALSE
  <2> HIDE DEF f
  <2> QED
    BY <1>1, <1>3, <1>4 DEF Unregistered
<1>10. UNCHANGED <<backlog, events, pending, req>>
  BY <1>1
<1>11. SlotsAccounted'
  <2>1. IsInjective(free_list) /\ s \notin Range(free_list)
    BY <1>3, <1>5 DEF SlotsAccounted, Live
  <2>2. Len(free_list) < MaxConnections
    BY <1>3, <1>4, <2>1, RoomForOne, ServerAssumption DEF Slots
  <2>3. free_list' = Append(free_list, s)
    BY <1>1, <2>2 DEF Pushed
  <2>4. IsInjective(free_list') /\ Range(free_list') = Range(free_list) \cup {s}
    BY <1>3, <1>4, <2>1, <2>3, AppendToInjective
  <2> QED
    BY <1>5, <1>8, <2>4 DEF SlotsAccounted
<1> HIDE DEF f, a
<1>12. Owned'
  <2>1. ASSUME NEW t \in Slots, Live(t)'
        PROVE  /\ t # s /\ Live(t) /\ clients[t].fd \in Fds \ {f}
               /\ clients[t].address \in Conns \ {a}
               /\ fds[clients[t].fd] = clients[t].address
               /\ conns[clients[t].address].stage = "open"
               /\ conns[clients[t].address].address = "live"
    <3>1. t # s /\ Live(t)
      BY <1>8, <2>1 DEF Live
    <3> QED
      BY <1>3, <1>5, <1>6, <3>1 DEF Owned
  <2>2. ASSUME NEW t \in Slots, Live(t)'
        PROVE  (/\ clients[t].fd \in Fds
                /\ clients[t].address \in Conns
                /\ fds[clients[t].fd] = clients[t].address
                /\ conns[clients[t].address].stage = "open"
                /\ conns[clients[t].address].address = "live")'
    BY <1>7, <1>8, <1>9, <2>1, <2>2
  <2>3. ASSUME NEW t \in Slots, NEW u \in Slots, Live(t)', Live(u)',
               clients'[t].address = clients'[u].address
        PROVE  t = u
    BY <1>5, <1>8, <2>1, <2>3 DEF Owned
  <2>4. ASSUME NEW g \in Fds, fds'[g] # NoConn
        PROVE  \E t \in Slots : Live(t)' /\ clients'[t].fd = g
    <3>1. g # f /\ fds[g] # NoConn
      BY <1>9, <2>4
    <3>2. PICK t \in Slots : Live(t) /\ clients[t].fd = g
      BY <1>5, <3>1 DEF Owned
    <3>3. t # s
      BY <1>3, <3>1, <3>2
    <3> QED
      BY <1>8, <3>2, <3>3 DEF Live
  <2>5. ASSUME NEW c \in Conns, conns'[c].stage = "open"
        PROVE  \E g \in Fds : fds'[g] = c
    <3>1. c # a /\ conns[c].stage = "open"
      BY <1>7, <2>5
    <3>2. PICK g \in Fds : fds[g] = c
      BY <1>5, <3>1 DEF Owned
    <3> QED
      BY <1>3, <1>9, <3>1, <3>2
  <2> QED
    BY <2>2, <2>3, <2>4, <2>5 DEF Owned
<1>13. Waiting'
  <2>1. \A n \in DOMAIN backlog : backlog[n] \in Conns /\ backlog[n] # a
    BY <1>3, <1>4, <1>5 DEF Waiting
  <2> QED
    BY <1>5, <1>7, <1>10, <2>1 DEF Waiting
<1>14. FreedOnce'
  BY <1>5, <1>7, <1>8, <1>10 DEF FreedOnce
<1>15. ArmedOnes'
  <2>1. ASSUME NEW g \in Fds, epoll'[g].armed
        PROVE  (epoll[g].oneshot /\ Live(epoll[g].slot) /\ clients[epoll[g].slot].fd = g)'
    <3>1. g # f /\ epoll'[g] = epoll[g] /\ epoll[g].armed
      BY <1>9, <2>1
    <3>2. epoll[g].slot \in Slots /\ epoll[g].oneshot /\ Live(epoll[g].slot) /\ clients[epoll[g].slot].fd = g
      BY <1>4, <1>5, <3>1, SlotNames DEF ArmedOnes
    <3>3. epoll[g].slot # s
      BY <1>3, <3>1, <3>2
    <3> QED
      BY <1>8, <3>1, <3>2, <3>3 DEF Live
  <2> QED
    BY <2>1 DEF ArmedOnes
<1>16. ReportedOnes'
  <2>1. ASSUME NEW n \in DOMAIN events, events[n] # Listen
        PROVE  Live(events[n])' /\ ~IsArmed(events[n])'
    <3>1. /\ events[n] \in Slots /\ events[n] # s /\ Live(events[n])
          /\ clients[events[n]].fd \in Fds \ {f} /\ ~IsArmed(events[n])
      BY <1>5, <1>6, <2>1 DEF ReportedOnes
    <3> QED
      BY <1>8, <1>9, <1>10, <3>1 DEF Live, IsArmed
  <2> QED
    BY <1>2, <1>5, <1>10, <2>1 DEF ReportedOnes, IsQueued, IsHandled
<1>17. QueuedOnes'
  <2>1. ASSUME NEW n \in DOMAIN pending
        PROVE  Live(pending[n].idx)' /\ ~IsArmed(pending[n].idx)'
                 /\ CopyOf(pending[n].idx)' = CopyOf(pending[n].idx)
    <3>1. /\ pending[n].idx \in Slots /\ pending[n].idx # s /\ Live(pending[n].idx)
          /\ clients[pending[n].idx].fd \in Fds \ {f} /\ ~IsArmed(pending[n].idx)
      BY <1>5, <1>6, <2>1 DEF QueuedOnes
    <3> QED
      BY <1>8, <1>9, <1>10, <3>1 DEF Live, IsArmed, CopyOf
  <2> QED
    BY <1>2, <1>5, <1>10, <2>1 DEF QueuedOnes, IsHandled
<1>18. HandledOne'
  <2> SUFFICES ASSUME Handling'
               PROVE  (/\ Live(running.idx)
                       /\ running = CopyOf(running.idx)
                       /\ ~IsArmed(running.idx))'
    BY DEF HandledOne
  <2>1. /\ Handling /\ running' = running /\ running.idx \in Slots /\ running.idx # s
        /\ Live(running.idx) /\ running = CopyOf(running.idx) /\ ~IsArmed(running.idx)
        /\ clients[running.idx].fd \in Fds \ {f}
    BY <1>2, <1>5, <1>6 DEF HandledOne
  <2>2. CopyOf(running.idx)' = CopyOf(running.idx)
    BY <1>8, <2>1 DEF CopyOf
  <2> QED
    BY <1>8, <1>9, <2>1, <2>2 DEF Live, IsArmed
<1>19. Heard'
  <2>1. /\ \A n \in DOMAIN events : events[n] # Listen => clients[events[n]].address \in Conns
        /\ \A n \in DOMAIN pending : pending[n].address \in Conns
    BY Addresses
  <2>2. \A c \in Conns : Hears(c) => Hears(c)'
    BY <1>7 DEF Hears
  <2> QED
    BY <1>2, <1>5, <1>6, <1>8, <1>10, <2>1, <2>2 DEF Heard
<1>20. Answering'
  <2>1. ASSUME NEW c \in Conns, conns'[c].stage # "closed", conns'[c].inbox # NoRequest
        PROVE  conns'[c].waiting
    BY <1>5, <1>7, <2>1 DEF Answering
  <2>2. ASSUME hpc' = "respond"
        PROVE  (/\ req.from = running.address
                /\ conns[running.address].waiting
                /\ conns[running.address].inbox = NoRequest)'
    <3>1. hpc = "respond" /\ running' = running /\ running.address \in Conns
      BY <1>2, <1>6, <2>2
    <3> QED
      BY <1>5, <1>7, <1>10, <3>1 DEF Answering
  <2> QED
    BY <2>1, <2>2 DEF Answering
<1> QED
  BY <1>11, <1>12, <1>13, <1>14, <1>15, <1>16, <1>17, <1>18, <1>19, <1>20
    DEF Books, Ledger, Places

(* The worker removes the client that it has handled ... *)
LEMMA RemoveBooks ==
    ASSUME Sound, RemovePeer
    PROVE  Books'
<1>1. /\ hpc = "remove" /\ hpc' = "clear" /\ RemoveClient(running.idx, running)
      /\ UNCHANGED <<events, pending, req>>
  BY DEF RemovePeer, main, pool
<1>2. Handling /\ ~Handling'
  BY <1>1 DEF Handling
<1>3. /\ running.idx \in Slots /\ Live(running.idx) /\ running.fd = clients[running.idx].fd
      /\ running.address = clients[running.idx].address
  BY <1>2, HandledClient
<1>4. /\ \A n \in DOMAIN events : events[n] # running.idx
      /\ ~IsQueued(running.idx)
  <2>1. running.idx # Listen
    BY <1>3, ServerAssumption
  <2> QED
    BY <1>2, <2>1, OtherClients DEF IsQueued
<1> QED
  BY <1>1, <1>2, <1>3, <1>4, RemovalBooks

(* ... and the sweep one that nobody has in hand. *)
LEMMA ReapBooks ==
    ASSUME Sound, Snapped, Reap, CleanSweep
    PROVE  Books'
<1>1. /\ RemoveClient(snapshot.slot, snapshot.client)
      /\ UNCHANGED <<events, pending, running, hpc, req>>
      /\ snapshot.client.fd = clients[snapshot.slot].fd
      /\ snapshot.client.address = clients[snapshot.slot].address
  BY DEF Reap, Snapped, pool, handler
<1>2. snapshot.slot \in Slots
  BY DEF Sound, TypeOK
<1>3. /\ Live(snapshot.slot) /\ ~IsQueued(snapshot.slot) /\ ~IsHandled(snapshot.slot)
      /\ \A n \in DOMAIN events : events[n] # snapshot.slot
  BY DEF CleanSweep, Unclaimed
<1>4. Handling' => Handling /\ running.idx # snapshot.slot
  BY <1>1, <1>3 DEF Handling, IsHandled
<1> QED
  BY <1>1, <1>2, <1>3, <1>4, RemovalBooks

(* A second that passes changes nothing but ages. *)
LEMMA TickBooks ==
    ASSUME Sound, Tick
    PROVE  Books'
<1>1. /\ clients' = [s \in Slots |->
                        [clients[s] EXCEPT !.age = Min({@ + 1, KeepAliveTimeout})]]
      /\ UNCHANGED <<net, kernel, free_list, main, pool, handler>>
  BY DEF Tick
<1>2. SameClients
  <2>1. clients \in [Slots -> ClientType]
    BY DEF Sound, TypeOK
  <2> QED
    BY <1>1, <2>1 DEF SameClients, ClientType
<1>3. SameStages
  BY <1>1, UnchangedConns DEF net
<1>4. Ledger'
  BY <1>1, <1>2, <1>3, LedgerFrame DEF Sound, Books, net, kernel
<1>5. Places'
  BY <1>1, <1>2, PlacesFrame DEF Sound, Books, kernel, main, pool, handler, Handling
<1>6. Heard' /\ Answering'
  BY <1>1, <1>2, HeardFrame, AnsweringFrame DEF Sound, Books, net, main, pool, handler
<1> QED
  BY <1>4, <1>5, <1>6 DEF Books

(* epoll_wait disarms what it reports: the events go from the kernel to    *)
(* events[]. *)
LEMMA EpollBooks ==
    ASSUME Sound, EpollWait
    PROVE  Books'
<1>1. UNCHANGED <<net, fds, table, pool, handler>>
  BY DEF EpollWait
<1>2. PICK batch \in EpollResults :
        /\ events' = [n \in DOMAIN batch |-> IF batch[n] = Listen THEN Listen
                                             ELSE epoll[batch[n]].slot]
        /\ epoll' = [f \in Fds |-> IF f \in Range(batch) /\ epoll[f].oneshot
                                   THEN [epoll[f] EXCEPT !.armed = FALSE]
                                   ELSE epoll[f]]
  BY DEF EpollWait
<1>3. /\ \A n \in DOMAIN batch : batch[n] \in Ready /\ batch[n] \in Range(batch)
      /\ \A m, n \in DOMAIN batch : batch[m] = batch[n] => m = n
  BY BatchType DEF Range
<1>4. /\ epoll \in [Fds -> EventType] /\ \A f \in Fds : epoll[f].slot \in Slots
  BY SlotNames DEF Sound, TypeOK, EventType
<1>5. \A f \in Fds : /\ epoll'[f].slot = epoll[f].slot /\ epoll'[f].oneshot = epoll[f].oneshot
                     /\ epoll'[f].armed => epoll[f].armed /\ ~(f \in Range(batch) /\ epoll[f].oneshot)
  <2>1. ASSUME NEW f \in Fds
        PROVE  epoll'[f] = IF f \in Range(batch) /\ epoll[f].oneshot
                           THEN [epoll[f] EXCEPT !.armed = FALSE]
                           ELSE epoll[f]
    BY <1>2
  <2> QED
    BY <1>4, <2>1 DEF EventType
<1>6. SameClients /\ SameStages
  BY <1>1, UnchangedClients, UnchangedConns DEF table, net
<1>8. Ledger'
  BY <1>1, <1>6, LedgerFrame DEF Sound, Books, net, table
<1>9. Answering'
  BY <1>1, AnsweringFrame DEF Sound, Books, net, pool, handler
<1>10. ArmedOnes /\ QueuedOnes /\ HandledOne /\ Owned /\ Heard
  BY DEF Sound, Books, Places, Ledger
<1>11. ArmedOnes'
  BY <1>1, <1>5, <1>10 DEF ArmedOnes, Live, table
<1>12. \A s \in Slots : Live(s) /\ ~IsArmed(s) => ~IsArmed(s)'
  BY <1>1, <1>5, <1>10 DEF Owned, IsArmed, table
<1>13. QueuedOnes' /\ HandledOne'
  <2>1. /\ \A n \in DOMAIN pending : pending[n].idx \in Slots
        /\ Handling => running.idx \in Slots
    BY SlotNames DEF Sound, Handling
  <2>2. UNCHANGED <<clients, pending, running, hpc>>
    BY <1>1 DEF table, pool, handler
  <2>3. QueuedOnes'
    BY <1>10, <1>12, <2>1, <2>2 DEF QueuedOnes, Live, IsHandled, Handling, CopyOf
  <2>4. HandledOne'
    BY <1>10, <1>12, <2>1, <2>2 DEF HandledOne, Live, Handling, CopyOf
  <2> QED
    BY <2>3, <2>4
<1>14. ASSUME NEW n \in DOMAIN batch, batch[n] # Listen
       PROVE  /\ batch[n] \in Fds /\ epoll[batch[n]].armed /\ epoll[batch[n]].oneshot
              /\ Readable(fds[batch[n]]) /\ epoll[batch[n]].slot \in Slots
              /\ Live(epoll[batch[n]].slot) /\ clients[epoll[batch[n]].slot].fd = batch[n]
  <2>1. batch[n] \in Fds /\ epoll[batch[n]].armed /\ Readable(fds[batch[n]])
    BY <1>3, <1>14 DEF Ready
  <2> QED
    BY <1>4, <1>10, <2>1 DEF ArmedOnes
<1>15. /\ DOMAIN events' = DOMAIN batch
       /\ \A n \in DOMAIN batch : events'[n] = IF batch[n] = Listen THEN Listen
                                               ELSE epoll[batch[n]].slot
  BY <1>2
<1>16. ReportedOnes'
  <2>1. ASSUME NEW n \in DOMAIN events', events'[n] # Listen
        PROVE  (Live(events[n]) /\ ~IsArmed(events[n]) /\ ~IsQueued(events[n])
                  /\ ~IsHandled(events[n]))'
    <3> DEFINE f == batch[n]
               s == epoll[f].slot
    <3>1. n \in DOMAIN batch /\ f # Listen /\ events'[n] = s
      BY <1>15, <2>1
    <3>2. /\ f \in Fds /\ epoll[f].armed /\ epoll[f].oneshot /\ f \in Range(batch)
          /\ s \in Slots /\ Live(s) /\ clients[s].fd = f
      BY <1>3, <1>14, <3>1
    <3> HIDE DEF f, s
    <3>3. ~IsQueued(s) /\ ~IsHandled(s)
      BY <1>10, <3>2 DEF QueuedOnes, HandledOne, IsQueued, IsHandled, IsArmed
    <3>4. ~epoll'[clients'[s].fd].armed
      BY <1>1, <1>5, <3>2 DEF table
    <3> QED
      BY <1>1, <3>1, <3>2, <3>3, <3>4
        DEF Live, IsArmed, IsQueued, IsHandled, Handling, table, pool, handler
  <2>2. ASSUME NEW m \in DOMAIN events', NEW n \in DOMAIN events',
               events'[m] = events'[n], events'[n] # Listen
        PROVE  m = n
    <3>1. batch[m] # Listen /\ batch[n] # Listen /\ epoll[batch[m]].slot = epoll[batch[n]].slot
      BY <1>15, <2>2
    <3>2. batch[m] = batch[n]
      BY <1>14, <1>15, <2>2, <3>1
    <3> QED
      BY <1>3, <1>15, <3>2
  <2> QED
    BY <2>1, <2>2 DEF ReportedOnes
<1>17. Heard'
  <2>1. ASSUME NEW n \in DOMAIN events', events'[n] # Listen
        PROVE  Hears(clients[events'[n]].address)
    <3>1. n \in DOMAIN batch /\ batch[n] # Listen /\ events'[n] = epoll[batch[n]].slot
      BY <1>15, <2>1
    <3>2. fds[batch[n]] = clients[events'[n]].address
      BY <1>10, <1>14, <3>1 DEF Owned
    <3> QED
      BY <1>14, <3>1, <3>2 DEF Hears, Readable
  <2> QED
    BY <1>1, <1>10, <2>1 DEF Heard, Hears, net, table, pool, handler
<1> QED
  BY <1>8, <1>9, <1>11, <1>13, <1>16, <1>17 DEF Books, Places

(* The connection that is accepted, and those behind it. *)
LEMMA FirstInLine ==
    ASSUME TypeOK, Waiting, Accepting
    PROVE  /\ Head(backlog) \in Conns
           /\ conns[Head(backlog)].stage = "backlog"
           /\ \A n \in DOMAIN backlog' : /\ n \in Nat /\ n + 1 \in DOMAIN backlog
                                         /\ backlog'[n] = backlog[n + 1]
                                         /\ backlog'[n] \in Conns
                                         /\ backlog'[n] # Head(backlog)
<1>1. backlog # <<>> /\ backlog' = Tail(backlog) /\ backlog \in Seq(Conns)
  BY DEF Accepting, TypeOK
<1>2. /\ 1 \in DOMAIN backlog /\ Head(backlog) = backlog[1]
      /\ \A n \in DOMAIN backlog' : /\ n \in Nat /\ n + 1 \in DOMAIN backlog /\ n + 1 # 1
                                    /\ backlog'[n] = backlog[n + 1]
  BY <1>1, TailEntries
<1>3. \A n \in DOMAIN backlog : backlog[n] \in Conns
  BY <1>1
<1>4. Head(backlog) \in Conns /\ conns[Head(backlog)].stage = "backlog"
  BY <1>2, <1>3 DEF Waiting
<1>5. \A n \in DOMAIN backlog' : backlog'[n] \in Conns /\ backlog'[n] # Head(backlog)
  BY <1>2, <1>3 DEF Waiting
<1> QED
  BY <1>2, <1>4, <1>5

(* It belongs to no client yet. *)
LEMMA NextConnection ==
    ASSUME Sound, Accepting
    PROVE  /\ Head(backlog) \in Conns
           /\ conns[Head(backlog)].stage = "backlog"
           /\ \A s \in Slots : Live(s) => clients[s].address # Head(backlog)
<1>1. Head(backlog) \in Conns /\ conns[Head(backlog)].stage = "backlog"
  BY FirstInLine DEF Sound, Books, Ledger
<1>2. Owned
  BY DEF Sound, Books, Ledger
<1> QED
  BY <1>1, <1>2 DEF Owned

LEMMA RestWaits ==
    ASSUME TypeOK, Waiting, Accepting,
           \A c \in Conns : c # Head(backlog) => conns'[c].stage = conns[c].stage
    PROVE  Waiting'
<1>1. \A n \in DOMAIN backlog' : /\ n \in Nat /\ n + 1 \in DOMAIN backlog
                                 /\ backlog'[n] = backlog[n + 1]
                                 /\ backlog'[n] \in Conns
                                 /\ backlog'[n] # Head(backlog)
  BY FirstInLine
<1>2. \A n \in DOMAIN backlog' : conns'[backlog'[n]].stage = "backlog"
  BY <1>1 DEF Waiting
<1>3. ASSUME NEW m \in DOMAIN backlog', NEW n \in DOMAIN backlog', backlog'[m] = backlog'[n]
      PROVE  m = n
  <2>1. m + 1 = n + 1
    BY <1>1, <1>3 DEF Waiting
  <2> QED
    BY <1>1, <2>1
<1> QED
  BY <1>2, <1>3 DEF Waiting

(* What is true of the live clients stays true when a dead slot is written *)
(* to and a descriptor that none of them has is opened. *)
SameLive == \A s \in Slots : Live(s) => clients'[s] = clients[s]
SameArmed == \A s \in Slots : Live(s) => epoll'[clients[s].fd] = epoll[clients[s].fd]

LEMMA LivePlaces ==
    ASSUME Sound, SameLive, SameArmed, UNCHANGED <<events, pending, running, hpc>>
    PROVE  ReportedOnes' /\ QueuedOnes' /\ HandledOne'
<1>1. ReportedOnes /\ QueuedOnes /\ HandledOne
  BY DEF Sound, Books, Places
<1>2. /\ \A n \in DOMAIN events : events[n] # Listen => events[n] \in Slots
      /\ \A n \in DOMAIN pending : pending[n].idx \in Slots
      /\ Handling => running.idx \in Slots
  BY SlotNames DEF Sound, Handling
<1>3. \A s \in Slots : Live(s) => /\ Live(s)' /\ (IsArmed(s)' <=> IsArmed(s))
                                  /\ clients'[s] = clients[s]
  BY DEF SameLive, SameArmed, Live, IsArmed
<1>4. ReportedOnes'
  BY <1>1, <1>2, <1>3 DEF ReportedOnes, IsQueued, IsHandled, Handling
<1>5. QueuedOnes'
  BY <1>1, <1>2, <1>3 DEF QueuedOnes, IsHandled, Handling, CopyOf
<1>6. HandledOne'
  BY <1>1, <1>2, <1>3 DEF HandledOne, Handling, CopyOf
<1> QED
  BY <1>4, <1>5, <1>6

LEMMA LiveHeard ==
    ASSUME Sound, SameLive, UNCHANGED <<events, pending, running, hpc>>,
           \A c \in Conns : Hears(c) => Hears(c)'
    PROVE  Heard'
<1>1. Heard /\ ReportedOnes
  BY DEF Sound, Books, Places
<1>2. \A n \in DOMAIN events : events[n] # Listen =>
          clients'[events[n]] = clients[events[n]]
  BY <1>1, SlotNames DEF Sound, ReportedOnes, SameLive
<1>3. hpc = "recv" => Handling
  BY DEF Handling
<1> QED
  BY <1>1, <1>2, <1>3, Addresses DEF Heard

(* A connection gets a slot, a descriptor and an armed registration. *)
LEMMA AcceptBooks ==
    ASSUME Sound, NEW f \in Fds, AcceptClient(f)
    PROVE  Books'
<1> DEFINE c == Head(backlog)
           s == Last(free_list)
<1>1. /\ Accepting /\ free_list # <<>> /\ free_list' = Front(free_list) /\ fds[f] = NoConn
      /\ fds' = [fds EXCEPT ![f] = c]
      /\ epoll' = [epoll EXCEPT ![f] = ClientEvent(s)]
      /\ clients' = [clients EXCEPT ![s] = [fd |-> f, address |-> c, age |-> 0,
                                            is_alive |-> TRUE, in_flight |-> FALSE]]
      /\ conns' = [conns EXCEPT ![c].stage = "open", ![c].address = "live"]
      /\ UNCHANGED <<keep_on, events, i, snapshot, pool, handler, mpc>>
  BY DEF AcceptClient, Accepting
<1>2. /\ clients \in [Slots -> ClientType] /\ conns \in [Conns -> ConnType]
      /\ fds \in [Fds -> Conns \cup {NoConn}] /\ epoll \in [Fds -> EventType]
      /\ free_list \in Seq(Slots) /\ TypeOK
  BY DEF Sound, TypeOK, ConnType, EventType
<1>3. /\ SlotsAccounted /\ Owned /\ FreedOnce /\ ArmedOnes /\ Answering /\ HandledOne
  BY DEF Sound, Books, Ledger, Places
<1>4. /\ c \in Conns /\ conns[c].stage = "backlog"
      /\ \A t \in Slots : Live(t) => clients[t].address # c
  BY <1>1, NextConnection
<1>5. s \in Slots /\ s \in Range(free_list)
  BY <1>1, <1>2, FrontLast DEF Range
<1>6. ~Live(s)
  BY <1>3, <1>5 DEF SlotsAccounted, Live
<1>7. \A t \in Slots : Live(t) => clients[t].fd # f /\ clients[t].fd \in Fds /\ t # s
  BY <1>1, <1>3, <1>6, ServerAssumption DEF Owned
<1>8. SlotsAccounted'
  <2>1. IsInjective(free_list') /\ Range(free_list') = Range(free_list) \ {s}
    BY <1>1, <1>2, <1>3, FrontOfInjective DEF SlotsAccounted
  <2> HIDE DEF s, c
  <2>2. /\ \A t \in Slots : t # s => clients'[t] = clients[t]
        /\ clients'[s].is_alive = TRUE
    BY <1>1, <1>2, <1>5
  <2> QED
    BY <1>3, <2>1, <2>2 DEF SlotsAccounted
<1>9. /\ clients'[s] = [fd |-> f, address |-> c, age |-> 0, is_alive |-> TRUE,
                        in_flight |-> FALSE]
      /\ \A t \in Slots : t # s => clients'[t] = clients[t]
      /\ fds'[f] = c /\ \A g \in Fds : g # f => fds'[g] = fds[g]
      /\ epoll'[f] = ClientEvent(s) /\ \A g \in Fds : g # f => epoll'[g] = epoll[g]
  <2> HIDE DEF s, c
  <2> QED
    BY <1>1, <1>2, <1>5
<1>10. /\ \A d \in Conns : /\ conns'[d].inbox = conns[d].inbox /\ conns'[d].eof = conns[d].eof
                           /\ conns'[d].waiting = conns[d].waiting
                           /\ (d # c => conns'[d] = conns[d])
       /\ conns'[c].stage = "open" /\ conns'[c].address = "live"
  <2> HIDE DEF s, c
  <2> QED
    BY <1>1, <1>2, <1>4 DEF ConnType
<1>11. Waiting'
  BY <1>1, <1>10, RestWaits DEF Sound, Books, Ledger
<1> HIDE DEF s, c
<1>12. SameLive /\ SameArmed
  BY <1>7, <1>9 DEF SameLive, SameArmed
<1>13. UNCHANGED <<events, pending, running, hpc, req>>
  BY <1>1 DEF pool, handler
<1>14. ReportedOnes' /\ QueuedOnes' /\ HandledOne'
  BY <1>12, <1>13, LivePlaces
<1>15. Heard'
  BY <1>10, <1>12, <1>13, LiveHeard DEF Hears
<1>16. Answering'
  <2>1. ASSUME NEW d \in Conns, conns'[d].stage # "closed", conns'[d].inbox # NoRequest
        PROVE  conns'[d].waiting
    BY <1>3, <1>4, <1>10, <2>1 DEF Answering
  <2>2. hpc = "respond" => running.address \in Conns
    BY Addresses DEF Handling
  <2> QED
    BY <1>3, <1>10, <1>13, <2>1, <2>2 DEF Answering
<1>17. FreedOnce'
  BY <1>3, <1>9, <1>10, <1>13 DEF FreedOnce
<1>18. ArmedOnes'
  <2>1. ASSUME NEW g \in Fds, epoll'[g].armed
        PROVE  (epoll[g].oneshot /\ Live(epoll[g].slot) /\ clients[epoll[g].slot].fd = g)'
    <3>1. CASE g = f
      BY <1>9, <3>1 DEF ClientEvent, Live
    <3>2. CASE g # f
      <4>1. /\ epoll'[g] = epoll[g] /\ epoll[g].slot \in Slots /\ epoll[g].oneshot
            /\ Live(epoll[g].slot) /\ clients[epoll[g].slot].fd = g
        BY <1>2, <1>3, <1>9, <2>1, <3>2, SlotNames DEF ArmedOnes
      <4> QED
        BY <1>12, <4>1 DEF SameLive, Live
    <3> QED
      BY <3>1, <3>2
  <2> QED
    BY <2>1 DEF ArmedOnes
<1>19. Owned'
  <2>1. \A t \in Slots : Live(t)' <=> t = s \/ Live(t)
    BY <1>5, <1>9 DEF Live
  <2>2. ASSUME NEW t \in Slots, Live(t)'
        PROVE  (/\ clients[t].fd \in Fds
                /\ clients[t].address \in Conns
                /\ fds[clients[t].fd] = clients[t].address
                /\ conns[clients[t].address].stage = "open"
                /\ conns[clients[t].address].address = "live")'
    <3>1. CASE t = s
      BY <1>4, <1>9, <1>10, <3>1
    <3>2. CASE t # s
      <4>1. /\ Live(t) /\ clients'[t] = clients[t] /\ clients[t].fd \in Fds \ {f}
            /\ clients[t].address \in Conns \ {c} /\ fds[clients[t].fd] = clients[t].address
            /\ conns[clients[t].address].stage = "open"
            /\ conns[clients[t].address].address = "live"
        BY <1>3, <1>4, <1>7, <1>9, <2>1, <2>2, <3>2 DEF Owned
      <4> QED
        BY <1>9, <1>10, <4>1
    <3> QED
      BY <3>1, <3>2
  <2>3. ASSUME NEW t \in Slots, NEW u \in Slots, Live(t)', Live(u)',
               clients'[t].address = clients'[u].address
        PROVE  t = u
    <3>1. \A x \in Slots : x # s /\ Live(x)' =>
              Live(x) /\ clients'[x].address = clients[x].address /\ clients'[x].address # c
      BY <1>4, <1>9, <2>1
    <3>2. clients'[s].address = c
      BY <1>9
    <3> QED
      BY <1>3, <2>3, <3>1, <3>2 DEF Owned
  <2>4. ASSUME NEW g \in Fds, fds'[g] # NoConn
        PROVE  \E t \in Slots : Live(t)' /\ clients'[t].fd = g
    <3>1. CASE g = f
      BY <1>5, <1>9, <2>1, <3>1
    <3>2. CASE g # f
      <4>1. PICK t \in Slots : Live(t) /\ clients[t].fd = g
        BY <1>3, <1>9, <2>4, <3>2 DEF Owned
      <4> QED
        BY <1>12, <2>1, <4>1 DEF SameLive
    <3> QED
      BY <3>1, <3>2
  <2>5. ASSUME NEW d \in Conns, conns'[d].stage = "open"
        PROVE  \E g \in Fds : fds'[g] = d
    <3>1. CASE d = c
      BY <1>9, <3>1
    <3>2. CASE d # c
      <4>1. PICK g \in Fds : fds[g] = d
        BY <1>3, <1>10, <2>5, <3>2 DEF Owned
      <4> QED
        BY <1>1, <1>9, <4>1, ServerAssumption
    <3> QED
      BY <3>1, <3>2
  <2> QED
    BY <2>2, <2>3, <2>4, <2>5 DEF Owned
<1> QED
  BY <1>8, <1>11, <1>14, <1>15, <1>16, <1>17, <1>18, <1>19 DEF Books, Ledger, Places

(* A connection is closed at once, for want of a slot or of a registration, *)
(* or with the process: the live clients do not notice. *)
LEMMA TurnedAway ==
    ASSUME Sound, Accepting, SameLive, UNCHANGED <<kernel, free_list>>,
           \A s \in Slots : clients'[s].is_alive = clients[s].is_alive,
           \A c \in Conns : /\ conns'[c].inbox = conns[c].inbox /\ conns'[c].eof = conns[c].eof
                            /\ (c # Head(backlog) => conns'[c] = conns[c]),
           \/ conns' = conns
           \/ conns'[Head(backlog)].stage = "closed" /\ conns'[Head(backlog)].address = "freed"
    PROVE  Books'
<1> DEFINE c == Head(backlog)
<1>1. UNCHANGED <<fds, epoll, events, pending, running, hpc, req>>
  BY DEF Accepting, pool, handler, kernel
<1>2. /\ SlotsAccounted /\ Owned /\ FreedOnce /\ ArmedOnes /\ Answering /\ HandledOne
      /\ TypeOK
  BY DEF Sound, Books, Ledger, Places
<1>3. /\ c \in Conns /\ conns[c].stage = "backlog"
      /\ \A t \in Slots : Live(t) => clients[t].address # c
  BY NextConnection
<1>4. \A t \in Slots : Live(t)' <=> Live(t)
  BY DEF Live
<1>5. SlotsAccounted'
  BY <1>2 DEF SlotsAccounted
<1>7. Waiting'
  BY RestWaits DEF Sound, Books, Ledger
<1>8. SameArmed
  BY <1>1 DEF SameArmed
<1>9. ReportedOnes' /\ QueuedOnes' /\ HandledOne'
  BY <1>1, <1>8, LivePlaces
<1>10. Heard'
  BY <1>1, LiveHeard DEF Hears
<1>11. ArmedOnes'
  BY <1>1, <1>2, <1>4, SlotNames DEF ArmedOnes, SameLive
<1> HIDE DEF c
<1>12. /\ \A d \in Conns : d # c => conns'[d] = conns[d]
       /\ conns'[c].stage # "open" /\ conns'[c].address # "twice"
       /\ conns' = conns \/ conns'[c].stage = "closed"
  BY <1>2, <1>3 DEF c, FreedOnce
<1>13. FreedOnce'
  BY <1>2, <1>12 DEF FreedOnce
<1>14. Owned'
  <2>1. \A t \in Slots : Live(t) => clients'[t] = clients[t] /\ clients[t].address \in Conns \ {c}
    BY <1>2, <1>3 DEF SameLive, Owned
  <2>2. ASSUME NEW t \in Slots, Live(t)'
        PROVE  (/\ clients[t].fd \in Fds
                /\ clients[t].address \in Conns
                /\ fds[clients[t].fd] = clients[t].address
                /\ conns[clients[t].address].stage = "open"
                /\ conns[clients[t].address].address = "live")'
    BY <1>1, <1>2, <1>4, <1>12, <2>1, <2>2 DEF Owned
  <2>3. ASSUME NEW t \in Slots, NEW u \in Slots, Live(t)', Live(u)',
               clients'[t].address = clients'[u].address
        PROVE  t = u
    BY <1>2, <1>4, <2>1, <2>3 DEF Owned
  <2>4. ASSUME NEW g \in Fds, fds'[g] # NoConn
        PROVE  \E t \in Slots : Live(t)' /\ clients'[t].fd = g
    BY <1>1, <1>2, <1>4, <2>1, <2>4 DEF Owned
  <2>5. ASSUME NEW d \in Conns, conns'[d].stage = "open"
        PROVE  \E g \in Fds : fds'[g] = d
    BY <1>1, <1>2, <1>12, <2>5 DEF Owned
  <2> QED
    BY <2>2, <2>3, <2>4, <2>5 DEF Owned
<1>15. Answering'
  <2>1. ASSUME NEW d \in Conns, conns'[d].stage # "closed", conns'[d].inbox # NoRequest
        PROVE  conns'[d].waiting
    BY <1>2, <1>3, <1>12, <2>1 DEF Answering
  <2>2. hpc = "respond" => running.address \in Conns /\ running.address # c
    <3>1. hpc = "respond" => Handling
      BY DEF Handling
    <3> QED
      BY <1>3, <3>1, HandledClient
  <2> QED
    BY <1>1, <1>2, <1>12, <2>1, <2>2 DEF Answering
<1> QED
  BY <1>5, <1>7, <1>9, <1>10, <1>11, <1>13, <1>14, <1>15 DEF Books, Ledger, Places

LEMMA RejectBooks ==
    ASSUME Sound,
           (\E f \in Fds : AcceptUnregistered(f)) \/ Reject \/ RejectBrokenPipe \/ AcceptFails
    PROVE  Books'
<1> DEFINE c == Head(backlog)
<1>1. /\ clients \in [Slots -> ClientType] /\ conns \in [Conns -> ConnType]
      /\ free_list \in Seq(Slots) /\ SlotsAccounted
  BY DEF Sound, TypeOK, ConnType, Books, Ledger
<1>2. ASSUME NEW f \in Fds, AcceptUnregistered(f) PROVE Books'
  <2> DEFINE s == Last(free_list)
  <2>1. /\ Accepting /\ free_list # <<>>
        /\ clients' = [clients EXCEPT ![s] = [fd |-> f, address |-> c, age |-> 0,
                                              is_alive |-> FALSE, in_flight |-> FALSE]]
        /\ conns' = [conns EXCEPT ![c].stage = "closed", ![c].address = "freed"]
        /\ UNCHANGED <<kernel, free_list, mpc>>
    BY <1>2 DEF AcceptUnregistered
  <2>2. s \in Slots /\ s \in Range(free_list)
    BY <1>1, <2>1, FrontLast DEF Range
  <2>3. clients[s].is_alive = FALSE
    <3>1. ~clients[s].is_alive
      BY <1>1, <2>2 DEF SlotsAccounted
    <3>2. clients[s].is_alive \in BOOLEAN
      BY <1>1, <2>2 DEF ClientType
    <3> QED
      BY <3>1, <3>2
  <2>4. c \in Conns
    BY <2>1, NextConnection
  <2> HIDE DEF c, s
  <2>5. /\ SameLive
        /\ \A t \in Slots : clients'[t].is_alive = clients[t].is_alive
    BY <1>1, <2>1, <2>2, <2>3 DEF SameLive, Live
  <2>6. /\ \A d \in Conns : /\ conns'[d].inbox = conns[d].inbox /\ conns'[d].eof = conns[d].eof
                            /\ (d # c => conns'[d] = conns[d])
        /\ conns'[c].stage = "closed" /\ conns'[c].address = "freed"
    BY <1>1, <2>1, <2>4 DEF ConnType
  <2> USE DEF c
  <2> QED
    BY <2>1, <2>5, <2>6, TurnedAway
<1>3. CASE Reject
  <2>1. /\ Accepting
        /\ conns' = [conns EXCEPT ![c].stage = "closed", ![c].address = "freed",
                                  ![c].waiting = FALSE]
        /\ UNCHANGED <<kernel, clients, free_list, mpc>>
    BY <1>3 DEF Reject, table
  <2>2. c \in Conns
    BY <2>1, NextConnection
  <2> HIDE DEF c
  <2>3. /\ \A d \in Conns : /\ conns'[d].inbox = conns[d].inbox /\ conns'[d].eof = conns[d].eof
                            /\ (d # c => conns'[d] = conns[d])
        /\ conns'[c].stage = "closed" /\ conns'[c].address = "freed"
    BY <1>1, <2>1, <2>2 DEF ConnType
  <2>4. /\ SameLive
        /\ \A t \in Slots : clients'[t].is_alive = clients[t].is_alive
    BY <1>1, <2>1 DEF SameLive
  <2> USE DEF c
  <2> QED
    BY <2>1, <2>3, <2>4, TurnedAway
<1>4. CASE RejectBrokenPipe \/ AcceptFails
  <2>1. /\ Accepting
        /\ UNCHANGED <<conns, kernel, clients, free_list>>
    BY <1>4 DEF RejectBrokenPipe, AcceptFails, table
  <2>2. /\ SameLive
        /\ \A t \in Slots : clients'[t].is_alive = clients[t].is_alive
    BY <1>1, <2>1 DEF SameLive
  <2> QED
    BY <2>1, <2>2, TurnedAway
<1> QED
  BY <1>2, <1>3, <1>4

-----------------------------------------------------------------------------
(* The peers. *)

(* One that connects waits behind the others. *)
LEMMA ConnectWaits ==
    ASSUME TypeOK, Waiting, NEW c \in Conns, Connect(c)
    PROVE  Waiting'
<1> DEFINE l == Len(backlog) + 1
<1>1. /\ conns[c].stage = "new" /\ conns' = [conns EXCEPT ![c].stage = "backlog"]
      /\ backlog' = Append(backlog, c)
  BY DEF Connect
<1>2. conns \in [Conns -> ConnType] /\ backlog \in Seq(Conns)
  BY DEF TypeOK, ConnType
<1>3. /\ \A d \in Conns : d # c => conns'[d].stage = conns[d].stage
      /\ conns'[c].stage = "backlog"
  BY <1>1, <1>2 DEF ConnType
<1>4. /\ l \in DOMAIN backlog' /\ l \notin DOMAIN backlog /\ backlog'[l] = c
      /\ \A n \in DOMAIN backlog : n \in DOMAIN backlog' /\ backlog'[n] = backlog[n]
      /\ \A n \in DOMAIN backlog' : n \in DOMAIN backlog \/ n = l
  BY <1>1, <1>2, AppendEntries
<1> HIDE DEF l
<1>5. \A n \in DOMAIN backlog : backlog[n] \in Conns /\ backlog[n] # c
  BY <1>1, <1>2 DEF Waiting
<1>6. \A n \in DOMAIN backlog' : conns'[backlog'[n]].stage = "backlog"
  BY <1>3, <1>4, <1>5 DEF Waiting
<1>7. \A m, n \in DOMAIN backlog' : backlog'[m] = backlog'[n] => m = n
  BY <1>4, <1>5 DEF Waiting
<1> QED
  BY <1>6, <1>7 DEF Waiting

LEMMA ConnectBooks ==
    ASSUME Sound, NEW c \in Conns, Connect(c)
    PROVE  Books'
<1>1. /\ conns[c].stage = "new" /\ conns' = [conns EXCEPT ![c].stage = "backlog"]
      /\ backlog' = Append(backlog, c) /\ UNCHANGED <<kernel, table, main, pool, handler>>
  BY DEF Connect
<1>2. /\ conns \in [Conns -> ConnType] /\ backlog \in Seq(Conns)
      /\ Owned /\ SlotsAccounted /\ Waiting /\ FreedOnce /\ Places /\ Answering
  BY DEF Sound, TypeOK, ConnType, Books, Ledger
<1>3. /\ \A d \in Conns : /\ conns'[d].inbox = conns[d].inbox /\ conns'[d].eof = conns[d].eof
                          /\ conns'[d].waiting = conns[d].waiting
                          /\ conns'[d].address = conns[d].address
                          /\ (d # c => conns'[d].stage = conns[d].stage)
      /\ conns'[c].stage = "backlog"
  BY <1>1, <1>2 DEF ConnType
<1>4. SameClients
  BY <1>1, UnchangedClients DEF table
<1>6. SlotsAccounted' /\ FreedOnce'
  BY <1>1, <1>2, <1>3, <1>4, SlotsFrame DEF table, FreedOnce
<1>7. Owned'
  <2>1. \A s \in Slots : Live(s) => clients[s].address # c
    BY <1>1, <1>2 DEF Owned
  <2>2. UNCHANGED <<clients, fds>>
    BY <1>1 DEF table, kernel
  <2>3. \A d \in Conns : conns'[d].stage = "open" => conns[d].stage = "open"
    BY <1>3
  <2>4. \A d \in Conns : conns'[d].stage = "open" => \E f \in Fds : fds'[f] = d
    BY <1>2, <2>2, <2>3 DEF Owned
  <2>5. \A s \in Slots : Live(s) =>
            /\ clients[s].address \in Conns
            /\ conns'[clients[s].address].stage = "open"
            /\ conns'[clients[s].address].address = "live"
    BY <1>2, <1>3, <2>1 DEF Owned
  <2> QED
    BY <1>2, <2>2, <2>4, <2>5 DEF Owned, Live
<1>8. Waiting'
  BY <1>2, ConnectWaits DEF Sound
<1>9. Places'
  BY <1>1, <1>2, <1>4, PlacesFrame DEF Sound, kernel, main, pool, handler, Handling
<1>10. Heard'
  BY <1>1, <1>3, <1>4, HeardKept DEF Hears, main, pool, handler
<1>11. Answering'
  <2>1. hpc = "respond" => running.address \in Conns
    BY Addresses DEF Handling
  <2>2. ASSUME NEW d \in Conns, conns'[d].stage # "closed", conns'[d].inbox # NoRequest
        PROVE  conns'[d].waiting
    BY <1>1, <1>2, <1>3, <2>2 DEF Answering
  <2> QED
    BY <1>1, <1>2, <1>3, <2>1, <2>2 DEF Answering, pool, handler
<1> QED
  BY <1>6, <1>7, <1>8, <1>9, <1>10, <1>11 DEF Books, Ledger

LEMMA TalkBooks ==
    ASSUME Sound, NEW c \in Conns, Close(c) \/ \E r \in Requests : Send(c, r)
    PROVE  Books'
<1>1. /\ conns \in [Conns -> ConnType] /\ Places /\ Answering /\ Ledger
  BY DEF Sound, TypeOK, ConnType, Books
<1>2. UNCHANGED <<backlog, kernel, table, main, pool, handler>>
  BY DEF Close, Send
<1>3. \/ conns' = [conns EXCEPT ![c].eof = TRUE]
      \/ /\ ~conns[c].waiting
         /\ \E r \in Requests : conns' = [conns EXCEPT ![c].inbox = r, ![c].waiting = TRUE]
  BY DEF Close, Send
<1>4. /\ \A d \in Conns : /\ conns'[d].stage = conns[d].stage
                          /\ conns'[d].address = conns[d].address
                          /\ (Hears(d) => Hears(d)')
                          /\ (d # c => conns'[d] = conns[d])
      /\ \/ conns'[c].inbox = conns[c].inbox /\ conns'[c].waiting = conns[c].waiting
         \/ ~conns[c].waiting /\ conns'[c].waiting
  <2>1. CASE conns' = [conns EXCEPT ![c].eof = TRUE]
    BY <1>1, <2>1 DEF ConnType, Hears
  <2>2. ASSUME ~conns[c].waiting, NEW r \in Requests,
               conns' = [conns EXCEPT ![c].inbox = r, ![c].waiting = TRUE]
        PROVE  <1>4
    <3>1. r # NoRequest
      BY DEF Requests, NoRequest
    <3> QED
      BY <1>1, <2>2, <3>1 DEF ConnType, Hears
  <2> QED
    BY <1>3, <2>1, <2>2
<1>5. SameClients /\ SameStages
  BY <1>2, <1>4, UnchangedClients DEF table, SameStages
<1>7. Ledger'
  BY <1>1, <1>2, <1>5, LedgerFrame DEF Sound, kernel, table
<1>8. Places'
  BY <1>1, <1>2, <1>5, PlacesFrame DEF Sound, kernel, main, pool, handler, Handling
<1>9. Heard'
  BY <1>2, <1>4, <1>5, HeardKept DEF main, pool, handler
<1>10. Answering'
  <2>1. ASSUME NEW d \in Conns, conns'[d].stage # "closed", conns'[d].inbox # NoRequest
        PROVE  conns'[d].waiting
    BY <1>1, <1>4, <2>1 DEF Answering
  <2>2. hpc = "respond" => running.address \in Conns
    BY Addresses DEF Handling
  <2> QED
    BY <1>1, <1>2, <1>4, <2>1, <2>2 DEF Answering, pool, handler
<1> QED
  BY <1>7, <1>8, <1>9, <1>10 DEF Books

-----------------------------------------------------------------------------
(* Sound is inductive.                                                   *)
LEMMA InitBooks == Init => Books
<1> SUFFICES ASSUME Init PROVE Books
  OBVIOUS
<1> USE DEF Init
<1>1. /\ \A s \in Slots : clients[s] = NoClient
      /\ \A c \in Conns : /\ conns[c].stage = "new" /\ conns[c].inbox = NoRequest
                          /\ conns[c].address = "none"
      /\ \A f \in Fds : fds[f] = NoConn /\ epoll[f] = Unregistered
  OBVIOUS
<1>2. events = <<>> /\ pending = <<>> /\ backlog = <<>> /\ hpc = "idle"
  BY DEF JQ!Init
<1>4. SlotsAccounted
  <2>1. DOMAIN free_list = 1 .. MaxConnections
    OBVIOUS
  <2>2. IsInjective(free_list)
    BY <2>1, ServerAssumption DEF IsInjective
  <2>3. ASSUME NEW s \in Slots PROVE s \in Range(free_list)
    <3>1. MaxConnections - s \in DOMAIN free_list /\ free_list[MaxConnections - s] = s
      BY <2>1, ServerAssumption DEF Slots
    <3> QED
      BY <3>1 DEF Range
  <2> QED
    BY <1>1, <2>2, <2>3 DEF SlotsAccounted, NoClient
<1>5. Owned /\ FreedOnce
  BY <1>1 DEF Owned, Live, NoClient, FreedOnce
<1>6. Waiting /\ Heard
  BY <1>2 DEF Waiting, Heard
<1>7. Places
  BY <1>1, <1>2 DEF Places, ArmedOnes, Unregistered, ReportedOnes, QueuedOnes, HandledOne, Handling
<1>8. Answering
  BY <1>1, <1>2 DEF Answering
<1> QED
  BY <1>4, <1>5, <1>6, <1>7, <1>8 DEF Books, Ledger

LEMMA NextBooks ==
    ASSUME Sound, Snapped, mpc \notin Leaving, [Next]_vars, CleanSweep
    PROVE  Books'
<1>1. CASE MainStep
  <2>1. ~(CloseClient \/ CloseListener \/ StopPool)
    BY DEF Leaving, CloseClient, CloseListener, StopPool
  <2> QED
    BY <1>1, <2>1, EpollBooks, LookOn, ReapBooks, MarkingBooks, DispatchBooks, DropEvent,
       AcceptBooks, RejectBooks DEF MainStep
<1>2. CASE CallbackStep
  BY <1>2, StartBooks, RecvBooks, HoldOn, RespondBooks, RearmBooks, ReturnBooks, RemoveBooks
    DEF CallbackStep
<1>3. CASE Shortage
  BY <1>3, DropEvent, RejectBooks DEF Shortage
<1>4. CASE Arrive \/ Talk
  BY <1>4, ConnectBooks, TalkBooks DEF Arrive, Talk
<1>5. CASE Tick \/ Interrupt
  BY <1>5, TickBooks, LookOn
<1>6. CASE UNCHANGED vars
  <2>1. UNCHANGED <<net, kernel, table, main, pool, handler>>
    BY <1>6 DEF vars
  <2>2. SameClients /\ SameStages
    BY <2>1, UnchangedClients, UnchangedConns DEF table, net
  <2>3. Ledger'
    BY <2>1, <2>2, LedgerFrame DEF Sound, Books, net, kernel, table
  <2>4. Places'
    BY <2>1, <2>2, PlacesFrame DEF Sound, Books, kernel, main, pool, handler, Handling
  <2>5. Heard' /\ Answering'
    BY <2>1, <2>2, HeardFrame, AnsweringFrame DEF Sound, Books, net, main, pool, handler
  <2> QED
    BY <2>3, <2>4, <2>5 DEF Books
<1> QED
  BY <1>1, <1>2, <1>3, <1>4, <1>5, <1>6 DEF Next, ServerStep, Ended

(* As long as time stands still nobody grows old. *)
YoungNext == ServerStep \/ Shortage \/ Arrive \/ Talk \/ Interrupt \/ Ended

LEMMA YoungNextIsNext == [YoungNext]_vars => [Next]_vars
BY DEF YoungNext, Next

LEMMA NextYoung ==
    ASSUME TypeOK, Young, [YoungNext]_vars
    PROVE  Young'
<1>1. clients \in [Slots -> ClientType]
  BY DEF TypeOK
<1>2. CASE UNCHANGED clients /\ mpc' # "reap"
  BY <1>2 DEF Young
<1>3. CASE MainStep \/ Shortage
  <2>1. ~SweepExpired /\ ~Reap
    <3>1. ASSUME SweepExpired PROVE FALSE
      <4>1. i \in Slots /\ clients[i].age >= KeepAliveTimeout
        BY <3>1 DEF SweepExpired, Expired, TypeOK
      <4> QED
        BY <4>1, ServerAssumption DEF Young
    <3> QED
      BY <3>1 DEF Young, Reap
  <2>2. mpc' # "reap"
    BY <1>3, <2>1
      DEF MainStep, Shortage, Young, EpollWait, SweepPast, Advance, EventsDone, MarkInFlight,
          Dispatch, DispatchDropped, AcceptLater, ListenEvent, StartAccepting, WouldBlock,
          AcceptClient, AcceptUnregistered, Accepting, Reject, RejectBrokenPipe, AcceptFails,
          LeaveLoop, CloseClient, CloseListener, StopPool
  <2>3. CASE MarkInFlight
    BY <1>1, <2>2, <2>3 DEF MarkInFlight, Young, ClientType
  <2>4. ASSUME NEW f \in Fds, AcceptClient(f) \/ AcceptUnregistered(f) PROVE Young'
    <3>1. \E b \in BOOLEAN :
            clients' = [clients EXCEPT ![Last(free_list)] =
                          [fd |-> f, address |-> Head(backlog), age |-> 0, is_alive |-> b,
                           in_flight |-> FALSE]]
      BY <2>4 DEF AcceptClient, AcceptUnregistered
    <3> QED
      BY <1>1, <2>2, <3>1 DEF Young
  <2>5. CASE UNCHANGED clients
    BY <1>2, <2>2, <2>5
  <2> QED
    BY <1>3, <2>1, <2>3, <2>4, <2>5
      DEF MainStep, Shortage, table, EpollWait, SweepPast, EventsDone, Dispatch, DispatchDropped,
          AcceptLater, StartAccepting, WouldBlock, Reject, RejectBrokenPipe,
          AcceptFails, LeaveLoop, CloseClient, CloseListener, StopPool
<1>4. CASE CallbackStep
  <2>1. mpc' # "reap"
    BY <1>4 DEF Young, CallbackStep, StartCallback, RecvRequest, RecvNothing, Respond,
                RespondBrokenPipe, Rearm, RearmFails, Touch, RemovePeer, ClearInFlight, main
  <2>2. CASE Touch
    BY <1>1, <2>1, <2>2 DEF Touch, Young, ClientType
  <2>3. CASE ClearInFlight
    BY <1>1, <2>1, <2>3 DEF ClearInFlight, Young, ClientType
  <2>4. CASE RemovePeer
    BY <1>1, <2>1, <2>4 DEF RemovePeer, RemoveClient, Buried, Young, ClientType
  <2>5. CASE UNCHANGED clients
    BY <1>2, <2>1, <2>5
  <2> QED
    BY <1>4, <2>2, <2>3, <2>4, <2>5
      DEF CallbackStep, StartCallback, RecvRequest, RecvNothing, Respond, RespondBrokenPipe,
          Rearm, RearmFails, table
<1>5. CASE Arrive \/ Talk \/ Interrupt \/ UNCHANGED vars
  BY <1>2, <1>5 DEF Young, Arrive, Talk, Connect, Send, Close, Interrupt, vars, table, main
<1> QED
  BY <1>3, <1>4, <1>5 DEF YoungNext, ServerStep, Ended

(* Without an interrupt main stays in its loop. *)
LEMMA NextCalm ==
    ASSUME TypeOK, Calm, [BusyNext]_vars
    PROVE  Calm'
<1>1. Young'
  BY NextYoung DEF Calm, BusyNext, YoungNext
<1>2. keep_on' = keep_on
  BY DEF BusyNext, ServerStep, MainStep, CallbackStep, Shortage, Arrive, Talk, Ended, EpollWait,
         SweepPast, SweepExpired, Reap, EventsDone, MarkInFlight, Dispatch, DispatchDropped,
         AcceptLater, StartAccepting, WouldBlock, AcceptClient, AcceptUnregistered, Accepting,
         Reject, RejectBrokenPipe, AcceptFails, LeaveLoop, CloseClient, CloseListener, StopPool,
         StartCallback, RecvRequest, RecvNothing, Respond, RespondBrokenPipe, Rearm, RearmFails,
         Touch, RemovePeer, ClearInFlight, Connect, Send, Close, vars, main
<1>3. mpc' \notin Leaving
  BY DEF Calm, Leaving, BusyNext, ServerStep, MainStep, CallbackStep, Shortage, Arrive, Talk, Ended,
         EpollWait, SweepPast, SweepExpired, Reap, Advance, EventsDone, MarkInFlight, Dispatch,
         DispatchDropped, AcceptLater, ListenEvent, StartAccepting, WouldBlock, AcceptClient,
         AcceptUnregistered, Accepting, Reject, RejectBrokenPipe, AcceptFails, LeaveLoop, LoopOver,
         CloseClient, CloseListener, StopPool, StartCallback, RecvRequest, RecvNothing, Respond,
         RespondBrokenPipe, Rearm, RearmFails, Touch, RemovePeer, ClearInFlight, Connect, Send,
         Close, vars, main
<1> QED
  BY <1>1, <1>2, <1>3 DEF Calm

LEMMA BusyNextIsNext == [BusyNext]_vars => [Next]_vars
BY DEF BusyNext, Next

(* As long as nobody is idle for too long the books are in order: every    *)
(* live client has its slot, descriptor, connection and address to itself, *)
(* and its next event is in one place.                                     *)
THEOREM BusyInvariant == BusySpec => []BusyInv
<1>1. Init => BusyInv
  <2> SUFFICES ASSUME Init PROVE BusyInv
    OBVIOUS
  <2>1. Calm
    BY DEF Init, Calm, Young, Leaving, NoClient
  <2> QED
    BY <2>1, InitType, InitBooks DEF BusyInv, Sound
<1>2. BusyInv /\ [BusyNext]_vars => BusyInv'
  <2> SUFFICES ASSUME BusyInv, [BusyNext]_vars PROVE BusyInv'
    OBVIOUS
  <2>1. TypeOK' /\ AtEvent'
    BY NextType, NextAtEvent, BusyNextIsNext DEF BusyInv, Sound
  <2>2. Calm'
    BY NextCalm DEF BusyInv, Sound
  <2>3. Books'
    <3>1. Snapped /\ CleanSweep /\ mpc \notin Leaving
      BY DEF BusyInv, Calm, Young, Snapped, CleanSweep, Reap
    <3> QED
      BY <3>1, NextBooks, BusyNextIsNext DEF BusyInv
  <2> QED
    BY <2>1, <2>2, <2>3 DEF BusyInv, Sound
<1> QED
  BY <1>1, <1>2, PTL DEF BusySpec

-----------------------------------------------------------------------------
(* What follows from the books being in order.                             *)

(* The slots, the copies and the addresses are parts of the books. *)
LEMMA SoundParts == Sound => SlotsAccounted /\ CopiesCurrent /\ FreedOnce
BY DEF Sound, Books, Ledger, Places, QueuedOnes, HandledOne, Handling, CopiesCurrent

(* The live clients own the descriptors. *)
LEMMA SoundDescriptors == Sound => DescriptorsOwned
<1> SUFFICES ASSUME Sound PROVE DescriptorsOwned
  OBVIOUS
<1>1. Owned /\ fds \in [Fds -> Conns \cup {NoConn}]
  BY DEF Sound, TypeOK, Books, Ledger
<1>2. \A c \in Conns : conns[c].stage = "open" => c \in Range(fds)
  BY <1>1 DEF Owned, Range
<1> QED
  BY <1>1, <1>2 DEF Owned, Live, DescriptorsOwned

(* At most one, for a set all whose elements are equal. *)
LEMMA AtMostOne ==
    ASSUME NEW S, \A x, y \in S : x = y
    PROVE  /\ Cardinality(S) \in {0, 1}
           /\ Cardinality(S) = 1 => S # {}
<1>1. CASE S = {}
  BY <1>1, FS_EmptySet
<1>2. CASE S # {}
  <2>1. PICK x : x \in S
    BY <1>2
  <2>2. S = {x}
    BY <2>1
  <2>3. Cardinality(S) = 1
    BY <2>2, FS_Singleton
  <2> QED
    BY <1>2, <2>3
<1> QED
  BY <1>1, <1>2

(* An event is in one place. *)
LEMMA SoundClaims == Sound => ClaimedOnce
<1> SUFFICES ASSUME Sound, NEW s \in Slots
             PROVE  Claims(s) <= IF clients[s].is_alive THEN 1 ELSE 0
  BY DEF ClaimedOnce
<1>1. ArmedOnes /\ ReportedOnes /\ QueuedOnes /\ HandledOne
  BY DEF Sound, Books, Places
<1>2. s # Listen
  BY ServerAssumption
<1>3. /\ \A f \in Armed(s) : Live(s) /\ clients[s].fd = f /\ IsArmed(s)
      /\ \A n \in Reported(s) : Live(s) /\ ~IsArmed(s) /\ ~IsQueued(s) /\ ~IsHandled(s)
      /\ \A n \in Queued(s) : Live(s) /\ ~IsArmed(s) /\ ~IsHandled(s) /\ IsQueued(s)
      /\ \A h \in Handled(s) : Live(s) /\ ~IsArmed(s) /\ IsHandled(s)
  BY <1>1, <1>2 DEF Armed, Reported, Queued, Handled, ArmedOnes, ReportedOnes, QueuedOnes,
                    HandledOne, IsArmed, IsQueued, IsHandled, Handling
<1>4. /\ Cardinality(Armed(s)) \in {0, 1} /\ (Cardinality(Armed(s)) = 1 => Armed(s) # {})
      /\ Cardinality(Reported(s)) \in {0, 1} /\ (Cardinality(Reported(s)) = 1 => Reported(s) # {})
      /\ Cardinality(Queued(s)) \in {0, 1} /\ (Cardinality(Queued(s)) = 1 => Queued(s) # {})
      /\ Cardinality(Handled(s)) \in {0, 1} /\ (Cardinality(Handled(s)) = 1 => Handled(s) # {})
  <2>1. /\ \A f, g \in Armed(s) : f = g
        /\ \A m, n \in Reported(s) : m = n
        /\ \A m, n \in Queued(s) : m = n
        /\ \A h, k \in Handled(s) : h = k
    BY <1>1, <1>2, <1>3 DEF Reported, Queued, Handled, ReportedOnes, QueuedOnes
  <2> QED
    BY <2>1, AtMostOne
<1> DEFINE a == Cardinality(Armed(s))
           r == Cardinality(Reported(s))
           q == Cardinality(Queued(s))
           h == Cardinality(Handled(s))
<1>5. /\ (a = 1 => IsArmed(s) /\ Live(s))
      /\ (r = 1 => Live(s) /\ ~IsArmed(s) /\ ~IsQueued(s) /\ ~IsHandled(s))
      /\ (q = 1 => Live(s) /\ ~IsArmed(s) /\ ~IsHandled(s) /\ IsQueued(s))
      /\ (h = 1 => Live(s) /\ ~IsArmed(s) /\ IsHandled(s))
  BY <1>3, <1>4
<1>6. a \in {0, 1} /\ r \in {0, 1} /\ q \in {0, 1} /\ h \in {0, 1}
  BY <1>4
<1>7. Claims(s) = a + r + q + h
  BY DEF Claims
<1> HIDE DEF a, r, q, h
<1>8. CASE Live(s)
  <2>1. a + r + q + h <= 1
    BY <1>5, <1>6
  <2> QED
    BY <1>7, <1>8, <2>1 DEF Live
<1>9. CASE ~Live(s)
  <2>1. a = 0 /\ r = 0 /\ q = 0 /\ h = 0
    BY <1>5, <1>6, <1>9
  <2> QED
    BY <1>7, <1>9, <2>1 DEF Live
<1> QED
  BY <1>8, <1>9

(* The worker answers on the descriptor it has read from. *)
LEMMA SoundAnswers == Sound => AnswerGoesBack
<1> SUFFICES ASSUME Sound, hpc = "respond"
             PROVE  Peer = req.from /\ conns[Peer].waiting
  BY DEF AnswerGoesBack
<1>1. Peer = running.address
  BY HandledClient DEF Handling
<1> QED
  BY <1>1 DEF Sound, Books, Answering

(* Only worker_callback goes from "recv" to "remove", and it has heard. *)
LEMMA SoundHangups ==
    ASSUME Sound, [Next]_vars, hpc = "recv", hpc' = "remove"
    PROVE  Peer \in Conns /\ conns[Peer].eof
<1>1. RecvNothing
  <2>1. hpc' # hpc
    OBVIOUS
  <2>2. ~MainStep
    BY <2>1 DEF MainStep, EpollWait, SweepPast, SweepExpired, Reap, EventsDone, MarkInFlight,
                Dispatch, AcceptLater, StartAccepting, WouldBlock, AcceptClient, Reject,
                RejectBrokenPipe, AcceptFails, Accepting, LeaveLoop, CloseClient,
                CloseListener, StopPool, handler
  <2>3. ~(Shortage \/ Arrive \/ Talk \/ Tick \/ Interrupt \/ UNCHANGED vars)
    BY <2>1 DEF Shortage, DispatchDropped, AcceptUnregistered, Accepting, Arrive, Talk, Connect,
                Send, Close, Tick, Interrupt, vars, handler
  <2>4. CallbackStep
    BY <2>2, <2>3 DEF Next, ServerStep, Ended
  <2> QED
    BY <2>4 DEF CallbackStep, StartCallback, RecvRequest, Respond, RespondBrokenPipe, Rearm,
                RearmFails, Touch, RemovePeer, ClearInFlight, handler
<1>2. Peer = running.address /\ Peer \in Conns
  BY HandledClient DEF Handling
<1>3. Hears(running.address)
  BY DEF Sound, Books, Heard
<1> QED
  BY <1>1, <1>2, <1>3 DEF Hears, RecvNothing

-----------------------------------------------------------------------------
(* The busy server.                                                        *)

(* No slot is lost and none is handed out twice, whatever the order in     *)
(* which main accepts and the worker removes (server_append_client,        *)
(* server_remove_client).                                                  *)
THEOREM NoSlotLost == BusySpec => []SlotsAccounted
<1>1. BusyInv => SlotsAccounted
  BY SoundParts DEF BusyInv
<1> QED
  BY <1>1, BusyInvariant, PTL

(* No descriptor leaks and no client speaks through another's: those in    *)
(* use are those of the live clients, each with its own connection and an  *)
(* address not yet freed. *)
THEOREM NoDescriptorLeaks == BusySpec => []DescriptorsOwned
<1>1. BusyInv => DescriptorsOwned
  BY SoundDescriptors DEF BusyInv
<1> QED
  BY <1>1, BusyInvariant, PTL

(* EPOLLONESHOT, events[], the queue and the worker hand a client on and   *)
(* never keep it: no event is handled twice or for a client that is gone.  *)
THEOREM EventsHandedOn == BusySpec => []ClaimedOnce
<1>1. BusyInv => ClaimedOnce
  BY SoundClaims DEF BusyInv
<1> QED
  BY <1>1, BusyInvariant, PTL

(* The copy that dispatch_client made is still that of the client in its   *)
(* slot when the worker uses it, although the table was written to since.  *)
THEOREM CopiesStayCurrent == BusySpec => []CopiesCurrent
<1>1. BusyInv => CopiesCurrent
  BY SoundParts DEF BusyInv
<1> QED
  BY <1>1, BusyInvariant, PTL

(* The answer goes to the connection the request came from, and that       *)
(* connection waits for one. *)
THEOREM AnswersGoBack == BusySpec => []AnswerGoesBack
<1>1. BusyInv => AnswerGoesBack
  BY SoundAnswers DEF BusyInv
<1> QED
  BY <1>1, BusyInvariant, PTL

(* No address is freed twice by server_remove_client. *)
THEOREM AddressesFreedOnce == BusySpec => []FreedOnce
<1>1. BusyInv => FreedOnce
  BY SoundParts DEF BusyInv
<1> QED
  BY <1>1, BusyInvariant, PTL

(* When recv gives worker_callback nothing the peer has closed: the event  *)
(* that was dispatched is still there when it is handled. *)
THEOREM HangupsMeanClosed == BusySpec => HangupMeansClosed
<1>1. BusyInv /\ [BusyNext]_vars =>
        [hpc = "recv" /\ hpc' = "remove" => Peer \in Conns /\ conns[Peer].eof]_vars
  BY SoundHangups, BusyNextIsNext DEF BusyInv
<1> QED
  BY <1>1, BusyInvariant, PTL DEF BusySpec, HangupMeansClosed

=============================================================================
