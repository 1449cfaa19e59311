# Foxtails in TLA+

A model of the Foxtails HTTP server (`src/`): its worker pool, event loop,
client table, memory pool, HTTP messages, configuration, route table and request
handling, checked with TLC on small instances. Every safety property that a run finds
to hold is also proved with TLAPS for every instance.

## 1. The system

`main` reads the configuration and the routes, creates the worker threads, and
then runs an event loop over one epoll instance until SIGINT. Client sockets are
registered with `EPOLLONESHOT`; when one is readable, the loop marks the client
`in_flight` and dispatches a copy of it to the worker pool. A worker receives the
request, makes the response, sends it, and either re-arms the descriptor or
removes the client. Before it handles the events of a round, the loop sweeps the
client table and closes whoever has been idle for `keep_alive_timeout`.

| component | source | state | operations | correct when |
|---|---|---|---|---|
| worker pool | `utils/workers.c` | ring buffer `data/head/count/capacity`, mutex, condition variable, `shutting_down` | `worker_pool_init`, `dispatch_command` (grows the ring), `worker_loop`, `worker_pool_delete` | FIFO; one callback at a time; no action lost, duplicated, overwritten or left without a wake-up; dispatch and delete return |
| client table | `utils/server.c` | `clients[]`, `free_list` with its lock | `server_append_client`, `server_remove_client`, `int_stack_push/pop`, `server_delete` | every slot is free once or in use; descriptors and addresses are owned by one client |
| event loop | `foxtails/src/main.c` | `running`, `events[]`, the loop variables, the sweep's `snapshot` | epoll round, sweep, dispatch, accept, shutdown | an event is handled once, for the client it is about; idle connections end; SIGINT ends the process |
| worker callback | `foxtails/src/worker_loop.c:225-284` | the copy of the client, the request | receive, respond, re-arm, remove | the answer goes to the connection the request came from; every request is answered |
| request handling | `foxtails/src/worker_loop.c:39-223` | the request, the route cursor, the backend socket | `fetch_response`, `handle_alias/reroute/proxy`, `serve_path`, `get_path` | the first line of the file that concerns the request decides; responses are framed; backends are released |
| route table | `utils/routing.c` | `routes` | `routes_parse`, `append_route` | malformed lines change nothing |
| memory pool | `include/cpool.h` | chain of blocks, list of large blocks, snapshots | `palloc`, `pcalloc`, `cpool_align`, `cpool_save`, `cpool_restore`, `cpool_reset` | what callers hold does not overlap and is not freed early; no block is lost |
| HTTP messages | `utils/http.c` | the receive buffer `buf/cap/len`, `body_start`, `content_length`; the header table | `http_recv_message`, `http_request_parse`, `http_response_parse`, `http_send_*` | a message is delimited as it was meant, and its body is its own |
| sockets | `utils/sockets.c` | descriptors | `socket_create_*`, `socket_accept`, `dispatch_client` | nothing leaks |
| configuration | `utils/config.c` | the mapped file, the scan's `line_start` and `found_section`, the pool's snapshots | `config_parse`, `config_get`, `config_get_int`, `config_delete` | the value of the key in its section; every scan ends and leaves the pool as it was |
| logging | `include/clog.h` | - | - | takes part in no decision |

Who calls whom: the event loop calls the client table (append, remove, delete),
the pool (`dispatch_client` -> `dispatch_command`) and the sockets; a worker
calls the client table (remove) and request handling, which calls the sockets
for proxying, the configuration and the route table, both of which are only read
after start-up. The client table and `free_list` are shared by the loop and the
worker under `free_list.lock`; the ring under `queue->lock`; the epoll instance
and the descriptors are shared without a lock. Each thread has its own memory
pool.

What is hard here: a slot, a descriptor number and an epoll registration are three
names of one client that are given up at different moments and reused at once; an
event travels from the kernel through `events[]`, the ring and a worker, while
another thread may remove the client; some updates that belong together are in two
critical sections; a condition variable is signalled after the unlock; the ring is
replaced while it is in use; shutdown overlaps running callbacks; a message arrives in
pieces on a socket that does not block, and two pieces of code look for its end by
different rules; a pointer into the buffer outlives a `realloc`. The list of
these places, with lines and the properties that watch them, is `hazards` in
`PROJECT.json`.

## 2. Modules

| module | models | used by |
|---|---|---|
| `JobQueue` | what the pool promises: an abstract FIFO that runs one job at a time | `WorkerQueue` implements it; `Foxtails` uses its actions |
| `WorkerQueue` | `workers.c` in full | `MCWorkerQueue`, `WorkerQueueProofs` |
| `WorkerQueueProofs` | theorems about `WorkerQueue` | - |
| `Foxtails` | `main.c`, `server.c`, `worker_callback`, over `JobQueue` | `MCFoxtails`, `FoxtailsProofs`, `LifecycleProofs` |
| `CPool` | `cpool.h` | `MCCPool`, `CPoolProofs` |
| `RequestHandling` | `routes_parse`, `fetch_response` and its handlers, `socket_create_auto`, `verify_url` | `MCRequestHandling`, `RequestHandlingProofs` |
| `HttpMessages` | `http_recv_message`, the parsers, the single `send` of a response | `MCHttpMessages`, `HttpMessagesProofs` |
| `Config` | `config.c`, and `main`'s reading of its settings | `MCConfig`, `ConfigProofs` |
| `FoxtailsProofs`, `CPoolProofs`, `RequestHandlingProofs`, `HttpMessagesProofs`, `ConfigProofs` | theorems about the module of that name | - |
| `LifecycleProofs` | theorems about `Foxtails` with expiry, SIGINT and shutdown, on top of `FoxtailsProofs` | - |
| `NatSets` | lemmas: induction and least and greatest elements, for sets of numbers | `RequestHandlingProofs`, `HttpMessagesProofs`, `ConfigProofs` |

`PROJECT.json` maps every definition to the lines it translates. Each module has a
section of *mutated forms*: one plausible mistake per definition. Substituting a
mutated form must violate the property it is paired with; nothing else uses them.

### WorkerQueue and JobQueue

The variables are the fields of `worker_queue_t`, the owner of its mutex, and the
program counter of each thread. A critical section is one action, with one
exception: `worker_callback` is called with the mutex locked and on the ring's own
cell, so `Take(w)` locks, `Return(w)` unlocks, and anything that does not need the
mutex may happen in between. `Signal` and `Broadcast` are separate because the code
calls them after the unlock. Spurious wake-ups are modelled. `Drop` is
`dispatch_command` returning because `pcalloc` gave no memory; it may happen at any
growth, and must happen beyond `MaxCapacity`. There is one dispatching thread, as in
the program.

`JobQueue` holds `pending`, `running` and `stopped`. That nothing is dispatched and
the pool is not stopped while a job runs is part of the promise: it is what the
mutex held during the callback gives to `Foxtails`. The refinement mapping reads the
ring from `head` (`Pending`) and takes the content of the cell a callback works on
(`Running`).

### Foxtails

`conns` is what the kernel and a peer know of a connection (stage, unread request,
end of stream, whether the peer waits for an answer) and the life of the address
structure that `socket_accept` allocates. `fds` and `epoll` are the kernel's
descriptor table and registrations: a number is reusable after `close`, which also
removes its registration. `clients` and `free_list` are the server's. `mpc`, `events`, `i` and
`snapshot` are `main`'s; `hpc` and `req` are the callback's. A critical section of
`free_list.lock` is an action; epoll calls, sends and receives are actions of their
own, since nothing makes them atomic with what surrounds them.

- Jobs are copies of the client, because `dispatch_command` copies `client_t` into the
  ring: the descriptor and the address the callback uses are those of the moment of
  the dispatch.
- Time: the only use of `time()` is the comparison of `now - last_recv` with the
  timeout, so each client has an `age` that `Tick` raises up to the timeout.
- A request is `keep` or `last`, which is all the callback distinguishes; a bad request
  is a `last` one. A peer sends its next request after the answer to the last one.
- `send` to a peer that has closed either returns (success, or an error that is logged)
  or raises SIGPIPE, which has its default action.
- `accept` failing for any other reason than an empty backlog ends in `exit(1)`, as in
  `socket_accept`. `epoll_ctl` may fail when a client is added or re-armed.
- SIGINT may come at any moment; `main` sees it at the head of its loop.

- An address that is freed a second time is `twice`, in place of what the heap would do.
- Shutdown is `LeaveLoop`, one `CloseClient` per slot, `CloseListener` and `StopPool`.
  Only the last one waits for the callback, as in `server_delete`, so a callback may
  be anywhere in its course while descriptors and addresses go away under it.

The full specification is `Spec`. Three specifications restrict its environment:
`BusySpec` has no expiry and no interrupt; `ShutdownSpec` has the interrupt, no expiry
and no shortage of memory, with fairness; `IdleSpec` has silent peers and expiry, with
fairness. All three leave out the combination of expiry and talking
peers, which is where `server_sweep` shows that the code fails: under `Spec` the
accounting of slots does not hold.

### CPool

A block is its position in the chain and a large block its position in the list; 0 is
NULL. `live` is a history variable: what the callers hold, with the number of saves
that were open when each allocation was made. `Restore` lets go of what is newer than
the matching save, as the callers in `workers.c`, `config.c` and `routing.c` do. `malloc`
failing leaves the pool as it was, except in `cpool_align`, which has by then moved
`head`.

### RequestHandling

Every `routes.conf` of up to `MaxLines` lines is an initial state. A path is a sequence
of characters since proxy routes match prefixes. `memchr` decides whether there is a
line: without a newline at its end the last line is not read (`ended`). A response has
the number of bytes sent of its body, `body_len`, which `http_send_response` announces, and
the `Content-Length` fields that came along from a backend (`fields`), since
`handle_proxy` passes a backend's fields on. `whole` remembers whether the backend sent all
that it announced. `lost` has the lines for which `append_route` had no memory: `realloc`
may fail for any of them (`LoseRoute`), and the server then starts without the route, as the
code does.

`handle_proxy` is split where it can fail: `socket_create_auto` refuses the target, has a
socket, has an address, connects; `backend` is what must be released. The code tests the
descriptor for 0 and not for -1: `ProxySocket` goes on without a socket if there is none, until
`connect` fails, and `ProxyZero` is the way out for a socket numbered 0, which is not
closed. `verify_url` is
`UnderRoot`, on real paths as sequences of characters: `strncmp` with the root, then a `/`
or the end. Symbolic links are in `RealPaths`: any requested path may resolve to any of them.

### HttpMessages

One connection byte by byte. The sender has a script of messages; a byte is known by its
message and its place in it, and `Kind` says what stands there: a character of the first
line, a header field, `Content-Length` as `http_recv_message` spells it or in another case,
the blank line with CRLF or LF, a byte of the body. `inbox` is what the kernel has for
`recv`. The variables of the loop are those of `http_recv_message`; `stale` says
that `body_start` points into a block that `realloc` has moved, after which the loop may
take the message for complete at any turn (`complete \in ... \cup {TRUE}`): the
difference of the two pointers is whatever the allocator made it. If the block was not
moved, `stale` stays FALSE. `recv` on a client's socket fails with `EAGAIN`, on a
backend's after its timeout; the loop ends in the same way.

The receiving loop and the parser find the end of the head and the length separately:
`BodyStart`/`Announced` against `HeadEnd`/`ParsedLength`. Their rules differ in the code,
and so they do here. The parser looks for the blank line behind the newline of the first line
(`http.c:153`, called with `line_end + 1`), so it misses the blank line of a message without
header fields, and the head of that message goes on into whatever follows it in the buffer.

A response has one of the `Lengths`. `send` is called once and the socket does not block:
what is beyond the kernel's buffer is lost (`sent`), and the sender sees fewer bytes than
are `due`.

The sender is either `patient` (each message in one piece, the next one after the whole answer,
or it gives up waiting and closes) or sends its bytes in any pieces, several messages at once
included. Both are initial
states of one specification. Several messages in one script are requests that bring at least
the body they announce (`Delimited`): what follows a request that brings less is, by HTTP,
its body and no other request.

### Config

A line is known by its shape, among them those that the scanner takes for something they
are not: a section without `]`, a name and a value without `=`, a name alone, a name
followed by spaces. Names and values are sequences of characters, because the scanner
compares by the length of the name in the file. `depth` is the number of snapshots on the
pool's stack: `CopyLine` saves, every end of a turn restores. `main`'s settings are read
one after the other, each by a scan from the beginning of the file; zero becomes the
default. An `int` is one of `Ints`, up to `IntMax`, and the `long` of `strtol` is cut to it.

## 3. Runs

| run | shows | bounds |
|---|---|---|
| `queue` | one callback at a time, ring consistent, no lost wake-up, payload stable; implements `JobQueue` with its fairness; dispatch and delete return | 2 workers, 2 jobs, capacity 2 growing to 4: wrap-around, growth with `head` in each place, a refused growth |
| `server_busy` | slots, descriptors, addresses, one-shot events and copies are accounted for; the answer goes back; a `recv` without result means that the peer has closed | 3 connections, 2 descriptors, 2 slots, 2 events per round: slots and numbers are reused, the backlog waits |
| `server_shutdown` | every request is answered or its connection closed; SIGINT ends the process, with every connection closed and every address freed | 2 connections, 2 slots, 2 events per round |
| `server_idle` | silent connections are closed, also those that waited for a slot | 3 connections, 2 slots, timeout 2 |
| `pool_memory` | allocations are disjoint, large blocks owned, blocks ahead empty, chain kept | 3 blocks of 4 bytes; sizes 1, 3, 4 and 5 (fits, leaves a rest, fills, large); alignment 2; 2 nested saves |
| `request_routing` | the first line that was stored decides; a response is misframed in the named cases only; backends are released, but for descriptor 0; files are served only from below the root | all files of up to 2 lines over 3 paths, one a prefix of another, 4 methods; the root `/r`, a file in it, one beside it named `/ra` |
| `http_messages` | `recv` has room; a body is the message's own, or the next one's if the message has no header fields; a patient sender is understood and answered, whole or with the fill of the send buffer, and nobody waits for a body that does not come | scripts of up to 2 of 7 messages; a buffer of 10 bytes, doubled when fewer than 2 are left; 2 header fields; responses of 2 and 4 bytes against a send buffer of 3 |
| `config_lookup` | each way out of a scan restores the pool, the scans end, a clear file is read as the reference definition reads it | all files of up to 4 of 14 lines of all shapes; 2 settings with the same key in two sections; an `int` of -32 to 31 |
| `server_sweep` | **violated**: the free list overflows | 2 connections, 1 slot |
| `server_pipe` | **violated**: a failed send ends the process | 2 connections, 1 slot |
| `server_hangup` | **violated**: a callback during shutdown takes its own process's `close` for the peer's | 2 connections, 2 slots |
| `http_grown` | **violated**: a message that was sent whole is cut short | 1 message of 19 bytes, for which the buffer of 8 grows twice |

The bounds are small because the cases are: the hazards involve two threads, one slot
that is reused, one growth of a buffer or one line of a file that is mistaken for another.
Three connections on two slots is the least with which one connection waits while
another's slot is reused. A file of four lines holds two sections with a key in each,
or a section with the three lines that may stand between its header and the key. The
buffer of `http_messages` grows in a body and in front of a second message, and has room at
first for a message without fields and the head and a part of the body of the one behind it: the
run reaches the case in which the first one is handed the second one's body. One response fits
the send buffer and one does not.

The safety properties of `queue`, `server_busy`, `server_shutdown`, `pool_memory`,
`request_routing`, `http_messages` and `config_lookup` are proved below for every value of
the constants, so the bounds of these runs do not matter for them. They do matter for the
liveness properties.

`server_busy` ends processes by `AcceptFails` and the broken-pipe actions as well; the
properties are invariants and hold up to that moment.

`PatientServed` and `NoNeedlessWait` are about messages that fit into the first buffer and
the header table and bring the body they announce (`Ordinary`); `ClearFileUnderstood` about files without a line that the
scanner misreads (`Clear`). What happens outside of these conditions is listed under
*Findings*.

`BodyIsOwnOrNext`, `ResponseFramed`, `BackendReleased`, `FirstLineDecides` and `EachAnswered` are about
code that has exceptions to what one would like to say. They have no precondition that leaves
the exceptions out: each names them, and says that there are no others. `ResponseFramed` compares the
response with `Framed`, all `Content-Length` fields equal and the body as long as they say, or
none for HEAD.

### Findings

1. `server_sweep`. The sweep stands between `epoll_wait` and the handling of the events it
   returned. A client that is idle for the timeout and whose event is in `events[]` is
   removed by the sweep; its event is then dispatched all the same, and the worker removes
   it again: its slot is pushed twice, onto a list that `int_stack_push` finds full
   (`server.c:18-20`), and its address is freed twice.
2. `server_pipe`. `http_send_response` logs a failed send as a warning, but `send` is called
   without `MSG_NOSIGNAL` and SIGPIPE is not ignored.
3. `server_hangup`. `server_delete` closes the clients' descriptors and frees their addresses
   before `worker_pool_delete` waits for the callbacks. A
   callback that has not read its request yet finds its descriptor closed, reports that
   the client closed the connection (`worker_loop.c:233`) and removes the client again:
   the address is freed a second time. `FreedOnce` is therefore checked without
   shutdown only.
4. `http_grown`. `http_recv_message` does not move `body_start` when it reallocates the
   buffer; the comparison at `http.c:364` then ends the loop too early, and what is left in
   the socket is taken for the next request. `http.c:192` calls the body truncated.

Further places where the code and its own words disagree, met while modelling and visible
in the models, but not worth a run each:

- `http.h:61` and `http.h:63` list POST, PUT, DELETE and PATCH under `Allow`; `serve_path`
  (`worker_loop.c:141-154`) refuses them with the very response of `http.h:61`.
- `app.root = /` is the one root whose real path ends with `/`; every file below it is refused as
  one that "escapes app.root" (`worker_loop.c:58-59`).
- A request of which the first line has not arrived is not ignored (`http.c:204`, "Partial
  request. Ignoring") but answered with 408, and the connection is closed.
- `http.c:345` logs `response_len` bytes as sent, whatever `send` has returned; a response
  larger than the free send buffer is cut, and the connection is kept (`EachAnswered`).
- A message without header fields takes `Content-Length` and body of the message behind it, if
  both are in the buffer: `http_parse_headers_and_body` starts to look for the blank line one
  newline too late (`http.c:153`; `BodyIsOwnOrNext`).
- HEAD is answered with a body by `handle_reroute` (301, `worker_loop.c:171`) and by the 404 and
  502 pages of `handle_proxy` (`worker_loop.c:177` and `187`), which return in front of the line that
  takes the body away. A proxied response has two `Content-Length` fields, the backend's and
  the server's own, which differ for HEAD and for a body that the backend cut
  (`worker_loop.c:190-194`; `ResponseFramed`).
- `sockets.c:139` tests for `!client.fd`, which is true of descriptor 0 and not of the -1 that
  `socket` returns when it fails (`BackendReleased`).
- `config.c:98` and `config.c:127` accept a name that is the beginning of the wanted one, also an
  empty one (an indented line), so that "Could not find config key" (`config.c:135`) is not said
  of keys that are absent.
- The test at `config.c:101` for a line without a value never fails, since `strchr` finds the
  terminator: of `port 8080` the value is `080`, and the port 80. Of an empty value the
  rest of the file is taken (`config.c:110`).
- `config.h:18` makes the caller responsible for freeing what `config_get` returns, which is
  pool memory.

### Fairness

- `WorkerQueue`: weak fairness of each worker's way out of the wait loop (`Take \/ Exit`)
  and of `Return`, and of the dispatching thread once it is inside `dispatch_command` or
  `worker_pool_delete`. It says that threads are scheduled, that callbacks return (client
  sockets do not block, the backend's receive has a timeout) and that the mutex is handed to
  a thread that could always take it. Calling `dispatch_command` or `worker_pool_delete`
  and waking spuriously are nobody's duty. Workers may take
  the mutex again and again while the dispatching thread waits for it; weak fairness suffices
  because nobody else adds actions, so the queue runs empty.
- `Foxtails`: weak fairness of `main`'s step and of the callback's step, two running threads,
  and of `Tick` in `IdleSpec`. No peer is obliged to do anything, and no shortage of memory
  to happen. `MainStep` and `CallbackStep` have their fairness separately: neither thread's
  progress may rest on the other's, except where `main` waits in `dispatch_command`.
- `HttpMessages`: weak fairness of the server's step and of a patient sender's reading. A
  sender that is not patient has to do nothing, and nothing is promised to it but safety.
- `Config`: weak fairness of `Next`: start-up is one thread that does not stop.

## 4. Proofs

Each proof module has one lemma per action, with a step for each conjunct that the action
can disturb, and the theorems at its end. The constants are arbitrary, up to the named
assumption of the module that declares them. Every inductive invariant was checked by TLC
on the constants of the runs before it was proved.

| module | theorems | from |
|---|---|---|
| `WorkerQueueProofs` | `TypeCorrect`, `MutualExclusion`, `RingSafety`, `WakeupSafety`, `PayloadSafety` (action property), `PoolImplementsJobQueue` (safety part of the refinement) | `QueueInvariance`, under `Spec` |
| `FoxtailsProofs` | `TypeCorrect` under `Spec`, expiry and shutdown included | `TypeOK` with `AtEvent` |
| | `NoSlotLost`, `NoDescriptorLeaks`, `EventsHandedOn`, `CopiesStayCurrent`, `AnswersGoBack`, `AddressesFreedOnce`, `HangupsMeanClosed` (action property) | `BusyInvariant`, under `BusySpec` |
| `LifecycleProofs` | `ShutdownLeavesNothing` under `ShutdownSpec`; `CleanShutdownLeavesNothing`, `AccountedWhileServing`, `HangupsWhileServing` (action property) under `Spec` with clean sweeps | `ServerInvariant`, under `Spec` with clean sweeps |
| | `RoomWhenBusy` under `BusySpec` | `BusyInvariant` |
| | `SilentSweptCleanly` under `IdleSpec` | `IdleInv` |
| | `SweepSeesItsClient`, `DescriptorsFromAccept`, `ConnectionsGoForward` (action property) | `SafeInvariant`, under `Spec`, all of it |
| `CPoolProofs` | `PoolTypes`, `HeldBytesDisjoint`, `LargeBlocksKept`, `NextBlockEmpty`, `NoBlockDropped` (action property) | `PoolInvariant`, under `Spec` |
| `RequestHandlingProofs` | `RequestTypes`, `BackendsReleased`, `FilesBelowRoot`, `ResponsesFramed`, `FirstLineChosen` | `RequestInvariant`, under `Spec` |
| `HttpMessagesProofs` | `MessageTypesKept`, `AlwaysRoom`, `BodiesOwnOrNext` | `MessagesInvariant`, under `Spec` |
| | `PatientSendersServed`, `NoTimeoutSpent` (action property) | `TurnInvariant`, under `Spec` |
| `ConfigProofs` | `ConfigTypes`, `SavesUndone`, `ClearFilesUnderstood` | `ConfigInvariant`, under `Spec` |

### The worker pool

From `QueueAssumption`: there is a worker; the initial capacity is a positive number; the two
markers `NoJob` and `Nobody` are neither jobs nor workers. All cells are found by
`CellOf(i) = (head + i) % capacity`; `ModOnce` and `CellOfValue` remove the `%`, since
`head + i` is below twice the capacity. The conjuncts beside the checked properties are
needed for:

- `CellsHoldJobs`: `Pending` must be a sequence of jobs for the refinement, and the
  index of a running callback must lie in the ring for `Return` and for `PayloadStable`;
- `ThreadPhases`: `Enqueue` stores `offer`, which has to be a job; a worker that exits
  must not be the last one awake for a queued action, and it is not needed once
  `shutting_down` is raised, which ties `wpc` to `mpc`.

`count < capacity`, part of `RingConsistent`, is what growing at `count + 1 >= capacity` is
for: the cell that `Enqueue` fills, and the one that `Take` vacates, are none of those that
remain queued.
In the refinement, `Enqueue` and `GrowAndEnqueue` are `Put`, `Take` and `Return` are `Take`
and `Finish`, `RaiseShutdown` is `Stop`, and everything else stutters; the step that needs
most work is `GrowAndEnqueue`, where every cell moves and `Pending` may only grow at its end.

### The server

From `ServerAssumption`: the markers are none of the things they stand beside, the limits are
positive, and there are finitely many descriptors, without which `Cardinality` in
`ClaimedOnce` would mean nothing. `FoxtailsProofs` uses `JobQueue` in the place of the pool,
which is what `PoolImplementsJobQueue` is for.

None of the properties of `server_busy` is inductive, and they need each other. A removal
may be trusted only if the copy that names the slot and the descriptor is current; a copy
stays current because nobody else removes the client; and nobody else does because the
event that led to the copy existed once. `Books` says so in one piece:

- `Ledger`: a live client, its descriptor, its connection and its address belong together and
  to no other client (`Owned`, stronger than `DescriptorsOwned` in that no two clients share an
  address); the backlog holds a connection once; slots are accounted for;
- `Places`: the next event of a live client is armed, reported in `events`, queued or handled, in
  exactly one of these places, and the copies made of it are current. `ClaimedOnce`, which
  counts, follows from it;
- `Heard`: an event that was reported still has its reason, a request or the end of the stream,
  when the callback comes to it: that is `HangupMeansClosed`;
- `Answering`: a peer whose request was read waits for the answer, and `req.from` is the
  callback's peer;

`NextBooks` shows that every step of the loop preserves `Books`, under `Spec`, with one
exception: the sweep removing a client whose event somebody has in hand. `CleanSweep` is the
action formula that excludes it: at a `Reap` the slot is live and its event is neither in
`events`, nor queued, nor handled. The code does not see to it, as `server_sweep`
shows; the theorems say where it holds all the same, and what depends on it.
`BusyInv` adds `Calm` to the books: nobody grows old, so nothing is reaped, and `main` stays in
its loop.

### Expiry and shutdown

`ServerInv` is inductive for all of `Spec` under `[][CleanSweep]_vars`. While `main` is in its
loop (`Serving`) it is `Books`, with `Kept`: nobody holds the address of a connection that is not
open. `AccountedWhileServing` is the consequence that matters: with expiry, shortage of memory and SIGINT, the
accounting that `server_busy` checks can be lost in one way only, which is finding 1.

From `LeaveLoop` on `Books` is false. `server_delete` closes the clients and leaves them in
the table, alive; the callback works on clients that are already closed and may remove
them again. `Closing` takes its place, and is what the end needs:

- `Outstanding`: a connection that is open, or whose address is not freed, is the client of a
  slot that `server_delete` has yet to come to, and both the descriptor and the client say
  so. When its loop is over nothing is outstanding;
- `Apart`: live clients do not share a descriptor. Otherwise closing one could make another one's
  slot lose the connection it is to close;
- `Copies`: what is queued or handled is current, and no two copies are of the same client.
  A removal by the callback then takes away the connection of its own slot and no
  other, whether `server_delete` has been there or not;
- nobody is left in the backlog once the listening socket is closed.

Peers may go on connecting and sending, and queued copies are taken up by the worker until
`StopPool`: the proof has a case for each. `Snapped` and `Course` carry what the sweep has copied and that
the pool is stopped last. `ShutdownSpec` satisfies `CleanSweep` because time does not pass in it
(`YoungIsClean`).

`IdleSpec` satisfies it for another reason, `Silent`: nobody sends or closes, so no event is reported
but those of the listening socket, and the worker has nothing to do. Expiry by itself is right, and so
are talking clients; only the two together are not.

`SafeInv` is about what is left of the guarantees when a sweep is not clean: it holds
under `Spec` without any assumption. A slot that is reported, queued, handled or swept has
had a client (`Traced`), and the connections behind descriptors have left the backlog (`Passed`).
It bounds the damage of finding 1. The worker may remove the client between the sweep's two
critical sections, but the slot is not given away there (`SweepSeesItsClient`), so what
the sweep removes is still the client it has copied; nobody acts on the socket of a slot that
never was in use; no connection comes back.

### The memory pool

From `PoolAssumption` (sizes are positive). A restore is right because of what was true when
the save was made: an allocation that is older than the save lies below the saved position
(`SavedSmall`), and the list of large blocks was as long as the saved `large_last`
(`SavedLarge`), for each of the nested saves. `LastIsEnd` is why `__append_block`, which appends at
`last`, cuts nothing off.

### Request handling

From `RequestAssumption`: paths are non-empty sequences of characters, real paths and the root
absolute. `routes` has no line numbers, and `FirstLineDecides` is about line numbers: the
invariant therefore says that there is a function from routes to lines, strictly
increasing, that leaves no well-formed line out but those in `lost` (`ReadFrom`). `Passed` and `Chosen` then say
of the loop what it knows of the routes in front of it, `Held` what `handle_proxy` holds at each
of its stages. That `UnderRoot`, which compares characters, implies that the root is one of the
directories the path leads through, is the lemma behind `FilesBelowRoot`. `ResponsesFramed` rests
on the same invariant: which responses are misframed depends on the line that decided, so the
proof goes through `Chosen` and not only through the action that made the response.

### HTTP messages

From `MessagesAssumption`: messages are of `MessageType`, and `Reserve` is at most the first
capacity. `buf \o inbox \o wire` is one piece of consecutive bytes that ends with the end of a
message (`OneStream`). A buffer that starts with the first byte of a message holds that message
byte by byte. The blank line that the parser finds is that message's own if it has fields;
if it has none, it is the blank line of the next message, which begins where the first one ends
(`HeadEndIs`, with `HasMessage` for a message anywhere in the buffer), and the only
`Content-Length` in front of it is the next message's. What the parser cuts out behind that blank
line is therefore the beginning of that message's body (`BodyBehind`), also when the loop stopped at
the wrong place because `body_start` was stale. `Room` is stronger than
`RecvHasRoom`: at each `recv` at least `Reserve` bytes are free, since doubling a capacity
of at least `Reserve` frees that many.

For a sender that waits, `Turn` follows one ordinary message through the loop: none under way,
whole in the kernel, whole in the buffer, parsed, answered. It never leaves a rest
for the next turn, because such a message fits into the first buffer, which is then not moved.
A message without fields is no exception here: it is alone in the buffer and its blank line is not found,
so it gets no body, and as an ordinary message it has none.

### Configuration

From `ConfigAssumption`: a line has one of the shapes, names and values are sequences of
characters, defaults are `int`s. `SavesBalanced` with `TypeOK` is inductive. For
`ClearFileUnderstood`, `Looked` says what `found_section` means after some lines: in it, there is
one header of the section among them, it is the last header, and the key is not behind it;
otherwise there is no such header. The scanner stops at the next header, so
the first pair it finds is the least candidate of the reference definition.

`Strtol` is a recursive function. That it is defined at all, and a number, is an
induction. The library's induction theorems take an operator, which the provers cannot
instantiate; `NatSets` states induction with a set in its place (`NatSetInduction`), from the
library's theorem that `<` is well founded.

### Only model-checked

Liveness, and the fairness part of the refinement, which the proof system does not treat:
`DispatchReturns`, `DeleteReturns`, `ImplementsJobQueue` as a whole, `InterruptEnds`,
`RequestsAnswered`, `SilentClosed`, `EachAnswered`, `StartsUp`. Nothing else: all invariants
and action properties of the passing runs are theorems. Of the refinement the initial states
and the steps are proved, and the fairness is left to TLC. The remaining recursive definitions
are functions, and what is proved of them (`Strtol` is a number) is an induction over sets;
what `Strtol` computes for a given text is left to TLC too.

## 5. Not modelled

- Logging (`clog.h`): it formats and writes, and takes part in no decision. Its level and its
  error variable are shared between the threads without a lock; only log lines can be wrong.
- Header texts and their layout: the 4096 bytes into which the fields of a response are
  printed, duplicate `Content-Length` fields in one message, chunked bodies (which the code does not
  know), MIME types and file contents, `Date` and the static buffer of `gmtime` behind it.
- `realloc` returning NULL in `http_recv_message`, and `malloc` failing in `handle_proxy` after the
  connection was made.
- How long things take: a backend that does not answer holds a worker, and the queue's
  mutex with it, until a timeout; the models say only that callbacks return.
- Creating the listening socket, the threads and the memory at start-up, which happens once
  and ends in success or `exit(1)`; `cpool_uninit`, which ends a pool.
- `oldest_timestamp`, which is used for `Retry-After` only.
- The splitting of a line of `routes.conf` into words: a line is a route or malformed.
- Steps that are one action although the code takes several, and nothing in the code makes them
  one. `CloseClient` looks at `is_alive`, closes and frees in one step, although `server_delete` holds no lock
  (`server.c:169-173`): a callback that removes the same client in between, so that one of the two frees an address
  that the other has just freed, is seen only as one removal after the other. `get_path` resolves a path and opens the file in
  one step: a link that is changed between `realpath` and `open` is not seen, and
  `ServedBelowRoot` is about the path that was resolved.
- Short sends in `Foxtails`, whose `Respond` answers or does not: how much of an answer
  arrives is in `HttpMessages`.

## 6. State of the work

All components that keep state have a module and runs; the safety properties of the passing
runs are proved. Not done, and why:

1. Liveness for every instance: out of the proof system's reach (see *Only model-checked*).
2. Hazards without a property: the timing of `connect` to a backend, the 4096 bytes of the
   printed header fields, the log's error variable and the buffer of `gmtime`. They are about data that
   the models leave out (section 5).
