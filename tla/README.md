# protocom: a verification project in TLA+

protocom is a small client/server message protocol in C++: a single-port TCP
server with one epoll I/O thread and one worker thread, a length-prefixed frame
format, and a session protocol on top of it (X25519 key exchange, authentication,
user messages, all of them protobuf messages). This directory holds TLA+ modules
that model the program, the TLC configurations that check them on small
instances, and TLAPS proofs for every value of the constants. The reference is
always the code; paths below are relative to the repository.

| Part | Modules | Abstract specification | Proofs |
|---|---|---|---|
| the queue between the threads | `WorkQueue` | | `WorkQueueProofs` |
| the frames in it and their buffers | `FrameQueue` (extends `WorkQueue`) | implements `WorkQueue` | `FrameQueueProofs` |
| the two threads and the kernel | `Server` | | `ServerProofs` |
| start and end of the server | `ServerLifecycle` (extends `WorkQueue`) | implements `WorkQueue` | `ServerLifecycleProofs` |
| frames as bytes, either direction | `ByteStream`, `RequestPath`, `ResponsePath` | `FrameStream` | `ByteStreamProofs`, `RequestPathProofs`, `ResponsePathProofs` |
| the generated message classes | `MessageClasses`, `Messages`, `MessageObjects` | `MessageValues` | `ProtocolSessionProofs` |
| a session: handlers, client, users | `ProtocolSession` (extends `Messages`) | `SessionPhases` | `ProtocolSessionProofs` |

`MC*.tla` and `MC*_*.cfg` are instances for TLC. `PROJECT.json` lists
components, runs, mutants, the map from definitions to source lines, findings,
hazards and theorems. Check one with
`tlc -config MCServer_orderly.cfg MCServer`, prove with `tlapm ServerProofs.tla`.

## 1. Inventory

| Component | State it keeps | Operations | Interacts with |
|---|---|---|---|
| **WorkQueue** (`WorkQueue.cpp`) | `queue`, `itemLimit`, `fetchCancelled`, threads inside `cv.wait` | `pushItem`, `fetchItemBlocking`, `fetchItemNonBlocking`, `cancelFetch`, `setItemLimit`, `getQueuedCount` | two instances: `wqIn` (I/O -> worker), `wqOut` (worker -> I/O) |
| **Server event loop** (`Server.cpp`) | `running`, `fdInfoTable` under `fdTableMtx`, epoll set, eventfd | `run`, `acceptClient`, `createHandler`, `handleDataIn`, `handleDataOut`, both `closeClient`s, `destroyHandler`, `stop`, `terminate`, `bindSock` | kernel, WorkQueue, ServerWorker, PFramer, PDeframer |
| **ServerWorker** (`ServerWorker.cpp`) | `shouldStop`, `handlerTable` under `htMutex` (lookups take no lock), the thread | `start`, `run`, `stop`, `createContext`, `destroyContext`, `FrameSink::writeFrame` | calls `Server::closeClient(int)` from its own thread; writes the eventfd |
| **PFramer** (`PFramer.cpp`) | `state`, the frame being read, its remaining bytes, `readEOF`, `readAgain` | `readAll` | non-blocking socket, pushes to `wqIn` |
| **PDeframer** (`PDeframer.cpp`) | the phase of the frame being written, the item, remaining bytes | `setSentItem`, `writeAll` | non-blocking socket |
| **Client** (`Client.cpp`) | `isConnected`, `isAuthenticated` (not initialised by the constructor), the coder in force | `connect`, `authenticate`, `fetchRequest` | the server, in lock-step, through IOFrameSocket |
| **IOFrameSocket** | blocking socket, `conn_open` | `sendFrame`, `recvFrame` | kernel |
| **PFrame** (`IFrameIO.cpp`) | pointer, length, `hasDynamicData` | copies, moves, `allocMsg`, `erase` | everything that carries a frame |
| **Protocol session** (`ProtocolContext`, `ProtocolConnectedHandler`, `ProtocolAuthenticationHandler`, user handlers) | current handler, coder, key exchange done, login request kept from frame to frame, remaining attempts | `handleFrame`, `setState`, `isActive` | FrameSink, Authenticator, coders |
| **Authenticator** | user table: name -> strategies | `authenticate`, `addUser`, `delUser` | the login handler; the embedding program |
| **Message coders** | buffer, AES-GCM key | `encode`, `decode` | both ends |
| **Key exchange** (`x25519KexProtocol.cpp`) | own pair, peer's key | load, agree, derive | both ends |
| **Generated protobuf code** | has-bits, members, unknown fields | accessors, copies, `Clear`, parse, serialise, size, merge, swap | handlers, client, coders |
| **Test program** (`main.cpp`) | the global server | SIGINT handler, `cleanup`, client and server mode | all |
| `FrameReader.cpp` | - | no code | - |

What is hard in this program, and what makes each component correct:

* **WorkQueue.** Notifications, cancellation and non-blocking fetches interleave.
  It is correct when no item lies in the queue with everyone asleep, a
  cancellation leaves nobody asleep, and items come out once and in order.
* **Server and ServerWorker.** Two threads share two tables that agree only by
  the order of their updates; work items name a connection by its *descriptor*,
  which the kernel reuses as soon as it is closed; epoll reports *edges*, in
  *batches* that are processed after the fact; the worker closes connections
  from its own thread and looks tables up without their lock. It is correct when
  the registries of a connection agree, a request is handled by its own session
  and answered to its own client, every response is announced exactly once, no
  input is left behind without an edge to come, connections are closed when - and
  only when - the client left or the session ended, and no thread waits for a
  mutex it holds.
* **Lifecycle.** The worker thread must be told, woken, joined and only then
  deleted, from a signal handler that runs on top of the I/O thread or from
  another thread, wherever the two threads are.
* **Framing.** Every field may arrive or leave in several segments. Correct
  when the frames delivered are a prefix of the frames sent, whatever the
  segmentation, and a partial write is resumed where it stopped.
* **PFrame.** One buffer, one owner, through moves into and out of the queue,
  drops at its limit, and connections that end in the middle of a frame.
* **Session.** Correct when nobody is served who was not accepted, both ends
  change to the same key at the same frame, and a call takes its own answer - with
  time-outs whose answers still come.
* **Messages.** Objects are reused for a whole session; each generated function
  names members, numbers and has-bits again, and they must agree.

The hazards, each at its line and with the properties that would catch it, are
in `PROJECT.json`.

## 2. What is modelled

### WorkQueue

Every operation but one holds `queueMutex` from its first to its last statement
and is one action. `setItemLimit` takes no lock: it is one unguarded assignment to
`itemLimit`, which the others read under the mutex, so it is one action too. `fetchItemBlocking` alone gives the mutex up, inside
`cv.wait`, so it is split there: `enterFetch` is the call up to the first
evaluation of the predicate (it clears `fetchCancelled`, as `WorkQueue.cpp:17`
does), `throwCancelled`, `takeAfterWait` and `waitAgain` are the evaluation
after a wake-up. `waiting` holds the threads asleep on `cv`, `woken` those that
were notified and have not got the mutex back. `notify_one` picks any sleeper;
`spuriousWakeup` may happen at any time. `accepted` and `delivered` are history.
Items are model values: the queue never looks into them.

### FrameQueue

`FrameQueue` puts frames into the queue: a `PFrame` is a pointer and the flag
`hasDynamicData`, and the operators `CopyInto`, `LeftByMove`, `Destroyed` and
`Allocated` are its special members, `erase` and `allocMsg`. The variables are
the places where frames live: `rxdFrame` (PFramer), the queue, `incomingMsg`
(each worker's local), `itmOut` (the local of `handleDataOut`), `txdFrame`
(PDeframer), and the `heap` of buffers in use. One queue stands for both, as they
are of one class: whoever pushes to either pushes, whoever fetches from either
fetches. Actions: `recvLen` and `pushFrame` (PFramer), `fetchItemBlocking`,
`writeFrame` and `endIteration` (worker), `fetchOut`, `setSentItem` and
`writeAll` (PDeframer), `eraseConnection` (`fdInfoTable.erase` in the middle of
anything). That `erase` deletes a `new[]` buffer with `delete` (`IFrameIO.cpp`)
is undefined behaviour whose outcome the common allocators make harmless; it is
not modelled.

### Server

`Server.tla` composes the event loop with the worker. Its state is the code's
(`fdInfoTable`, `handlerTable`, `wqIn`, `wqOut`, `running`, `fdTableMtx`, the
counter of `eventFdOut`), the program counters and locals of the two threads
(`iopc`, `batch`, `iofd`, `ioitem`; `wpc`, `witem`, `wnode`, `wctx`, `wleft`,
`cctx`), the kernel (`backlog`, `sockOf`, `epollSet`, `edge`, `rx`, `full`) and the
clients (`peer`). `wnode` is the node of the session table that `handlerIter`
points to, `wctx` the session whose `handleFrame` runs, `cctx` the connection
that `closeClient(int)` refers to. `sent`, `answered`, `stray`, `lost` and the
field `conn` of an item are history: the program has the descriptor only.

| Action | Code |
|---|---|
| `EpollWait` | `epoll_wait`; takes every pending edge and level into the batch |
| `AcceptClient`, `CreateHandler` | `acceptClient`, then `createHandler` with `createContext` under both mutexes |
| `LockTable`, `ClientEvent` | the client branch of `run`: lookup, hang-up, output, input; `closeClient(ConnectionContext&)` up to `fdInfoTable.erase` |
| `DestroyContext` | the rest of that `closeClient`: `worker->destroyContext`; the lock goes |
| `ReadEventFd`, `FetchOut`, `Deliver` | the eventfd branch and `handleDataOut` |
| `WorkerFetch` | `fetchItemBlocking` and the unlocked `find` |
| `FirstIsActive`, `EraseNode` | the first `isActive`, and `handlerTable.erase` of a session that had ended |
| `CallHandler` | `handlerIter->second->handleFrame`: the session is read from the node |
| `Respond`, `Notify` | `FrameSink::writeFrame`: the push, then the eventfd |
| `EndFrame` | `handleFrame` returns; it may have ended its session |
| `SecondIsActive` | the second `isActive`, which decides whether `closeClient(int)` is called |
| `UseOfErased` | any of these four uses meets a node that was erased and not handed out again |
| `CloseFind`, `CloseClose`, `CloseDel`, `DestroyHandler` | `closeClient(int)`: unlocked lookup, `close`, `epollDelClient`, `destroyHandler` |
| `Connect`, `Request`, `Leave`, `Drain` | the clients and the network |

One action is one stretch of code whose accesses to shared state the other
thread cannot tell apart. In particular `CreateHandler` and `DestroyHandler`
are single actions: everything the other thread does to the same tables is
either under `fdTableMtx` or an unlocked lookup of one of the two tables, and a
lookup of one table cannot observe in which order two tables change.

The worker reads the session table through `handlerIter` four times after its
`find` (`ServerWorker.cpp:43` to `:50`), never under `htMutex`, and the I/O thread may
erase the node, or erase it and have its memory back for another session
(`CreateHandler`), before each of them. So each is a step, and `wnode` is what
the node holds by then.

Undefined behaviour is a choice over what the build can do: a reference to an
erased node sees the old value, the value of the node that was allocated there
next, or ends the process (`Dies`); an unlocked `find` that meets a rehash
(`TableMoves`) may miss an entry that is there. With `Rehash` this is true of the
`find` of the worker and of that of `closeClient(int)`, which then closes nothing. `Dies` also stands for a
`std::system_error` out of the event loop and for SIGPIPE.

The switches say which environment and configuration a run is about:

| Constant | Meaning |
|---|---|
| `Conns`, `ClientFds` | the connections clients may open; the descriptors left for them (the kernel hands out the lowest free one) |
| `MaxFrames` | bound: the requests one connection sends |
| `Replies` | how many responses a handler may write for one frame: 1 for most requests, 0 for an unknown header, 2 after a decode error during authentication |
| `Deactivates` | may a session end (`setState(nullptr)`)? FALSE is `main.cpp`'s server (`TestUserHandlerFactory`, no authenticator); TRUE is the default `NullUserHandlerFactory`, or an authenticator that rejects |
| `Orderly` | does every client wait for its answer before it goes on, as `Client` does? |
| `AddMayFail` | may `epoll_ctl(EPOLL_CTL_ADD)` fail? |
| `Rehash` | are there enough sessions for an `emplace` to move the handler table? (libstdc++ moves it at the 14th entry, so this is a switch and not a number of connections) |

Abstractions of `Server`: a frame arrives whole, non-empty and well formed, so
`readAll` turns what is received into items (`RequestPath` treats
segments); a frame that does not fit the send buffer blocks once and is finished
by one EPOLLOUT; the session is reduced to how many responses a frame has and
whether it ends; `htMutex` does not appear because it is only taken inside
critical sections of `fdTableMtx`; failure of
`epoll_wait` and an error event on the listening socket, which only clear
`running`, are in `ServerLifecycle`.

### ServerLifecycle

`run` with `bindSock` and the worker's `start`; and the ways out: `cleanup` of
`main.cpp` (from the SIGINT handler, on top of the I/O thread, or after `run`),
`Server::stop` and `Server::terminate` from another thread. The worker's loop
drives an instance of `WorkQueue` (the module extends it), so a cancellation may
find it anywhere. `mpc`, `wpc` and `epc` are the program counters of main with
the I/O thread, of the worker, and of whoever ends the server. The event loop is
reduced to the mutexes it holds when it is interrupted (`QueueMutexHeld`,
`FdTableMtxHeld`): the handler calls `exit`, so the interrupted code never
continues. `lost`, `unjoined` and `interrupted` are history for the named
exceptions of the properties.

| Action | Code |
|---|---|
| `bindSock`, `newWorker`, `startThread`, `storeThread` | `bindSock`, the head of `run`, `ServerWorker::start`: the thread runs before `runnerThread` is assigned |
| `testRunning`, `eventOut`, `eventClient`, `eventFails`, `lockQueue`, `pushFrame`, `unlockTable`, `findWorker`, `useWorker` | the loop of `run` and what it locks |
| `testShouldStop`, `fetchItem`, `leaveWait`, `handleFrame`, `closeClient` | `ServerWorker::run` |
| `cleanup`, `stopRunning`, `writeEventFd`, `askWorker`, `setShouldStop`, `cancelWorker`, `joinWorker`, `deleteWorker`, `exitProcess` | `cleanup` and `~Server`; `stop`; `terminate`; `ServerWorker::stop` |
| `DeletedUnderMain`, `DeletedUnderWorker` | a method of the deleted worker is running or called |

### Framing: RequestPath and ResponsePath

Both put the frame format on bytes. A piece of the wire is what one `send` put
into the socket (header, length, message); the network keeps the order and cuts
the pieces named by `Cuts` wherever it likes, so `Cuts = {"header", "msg"}` is a
network that delivers the two bytes of a length together. `Base` is the number
of values of a byte: 256 in the program, 4 in the runs, so that lengths with a
non-zero upper byte stay short.

* `RequestPath` is `IOFrameSocket::sendFrame`, the network, the edge-triggered
  event loop reduced to one connection, and `PFramer`. One action of the I/O
  thread is one `tryRead` (`recvHeader`, `recvLen`, `recvMsg`, `emptyMsg`,
  `recvNothing` for EAGAIN and the end of the stream), so bytes may arrive
  between any two `recv` calls. The length is kept as the `uint16_t` it is:
  `LenReceived` stores what the pointer arithmetic of `PFramer.cpp:31` stores (the
  second byte alone goes behind the field), and every attempt swaps it.
  `readEOF` is not a variable: it is read only after the `recv` that sets it.
* `ResponsePath` is `PDeframer` with `setSentItem` and EPOLLOUT edges, the
  network, and `IOFrameSocket::recvFrame` on the client's blocking socket. `send`
  takes any part of what it is given, nothing only while the buffer holds
  something; then the next free space is an edge. A wrong length reads beyond the
  message: those bytes are any bytes.
* `FrameStream` is the promise of either direction: frames come out whole, once
  and in order. Each path implements it under `delivered <- pushed` and
  `delivered <- received` (`FramesInOrder`).

A full buffer may refuse a header, a length or a message whole, at any attempt;
`Cuts` only says what may be taken in part. `swapped` is history: the frames whose
length was refused an odd number of times (`PDeframer.cpp:83`).

Left out: the `EPOLLERR`/reset paths, which `Server` has, and a `recv` of the
client that times out (10 s) in the middle of a frame (`IOFrameSocket.cpp:31`, `:39`):
it leaves the rest of the frame in the socket, where the next call takes it for
headers. `ProtocolSession` has the time-outs before the first byte of an answer;
those in the middle of one are in no module.

### Messages

The generator wrote a separate function for copying, clearing, parsing,
serialising, sizing and merging of every class, and each names members, field
numbers and has-bits again. `MessageClasses` has a table per function and class,
each read from its own lines (eight classes: seven of the session and the `Test`
message of `host_files/msg.pb.*`, which `main.cpp` uses). `Messages` interprets the
tables: `set`, `mutable`, `released`, `Clear`, `CopyFrom`, `MergeFrom`,
`ParseFromArray`, `Serialize`, `ByteSizeLong`. A byte string is its length,
whether it is UTF-8, and the message it parses as. `MessageObjects` puts two
objects of a class under all operations in any order and implements
`MessageValues`: a message is a map from fields to values, nothing else shows.

### ProtocolSession

One session: a `Client` (`isConnected`, `isAuthenticated`, `ccoder`, `cpc` for the
answer its call waits for), frames in order in both directions (`up`, `down`), the
handlers of the server (`state`, `isKexComplete`, `scoder`, `areq`,
`remainingAttempts`), and the `Authenticator`. One server action,
`handleFrame`, is one `handleFrame` of the worker: decoding with the coder of
now, the case of the request, all answers, and the change of handler.
`connectedFrame`, `authFrame` and `userFrame` are the three handlers.
`closeClient` is what the worker does with a session that is over. The client's
calls are split where they wait in `recv`: `connect`, `kexAnswer`,
`askAuthAnswer`; `authenticateAs`, `authAnswer`; `fetchRequest`,
`requestAnswer`; each wait may also end by `timeOut`, `readEof` or `readReset`,
and after a time-out the answer is still to come. `otherFrame` is a client
program of another make, which sends any request in any phase. `addUser` and
`delUser` change the table between frames.

A coder is its key, a key the name of the call of `connect` whose pair it comes
from. A frame keeps what it was encrypted with and whether its 16-bit length was
enough (`whole`: `EncrMessageCoder.cpp:76` cuts it). The plain coder parses
whatever it is given: of ciphertext nothing, or a message without known fields.
An offered key is refused for two reasons: it has not 32 bytes (`IsPublicKey`), or
`agree` fails for it, as it does for a point of low order (`LowOrder`, sent by
`otherFrame`). An answer is taken whole or, after a time-out, left whole; that
`recvFrame` refuses one that comes in two segments is in `ResponsePath` only.
`SessionPhases` is the promise: key, login, service, in this order, and nobody
served whose credentials the table did not accept.

## 3. What is checked

| Run | Instance | What it shows |
|---|---|---|
| `queue_many` | 3 fetchers, 4 buffers, limits {none, 2}, 4 pushes | `NoLostWakeup`, `CancelReachesAll`, `FifoOnce` through every interleaving of pushes, fetches, cancellations and spurious wake-ups; with frames in the queue, every buffer has one owner (`SoleOwner`), none leaks (`NoLeak`), and what is queued does not point into its sender's buffer (`QueuedFramesOwn`) |
| `lifecycle` | 1 worker, 3 frames, all three ways out | `JoinMeetsNoSleeper` and `JoinEnds`: the thread that ends the server does not wait for a worker that nobody wakes; `WorkerOutlivesThread`; `StopEndsRun`; `FramesAreTaken` |
| `server_orderly` | 3 connections on 2 descriptors, 2 requests each, lock-step clients | no client reads the answer to another's request, and every request is answered, with descriptors reused and send buffers full |
| `server_abrupt` | 2 connections on 1 descriptor, 2 requests each, pipelining and resetting clients, `Rehash` | the four registries agree, no input is left without an edge to come, own session, one notification per response, nobody is closed who did not hang up, and whoever hung up is closed |
| `server_ending` | sessions end themselves, 2 connections on 2 descriptors, 0 or 1 response, `epoll_ctl` may fail, `Rehash` | the connection of a session that ended is closed, although the worker and the I/O thread race for it and the worker's iterator may have come to mean another session; two exceptions are named (`lost`) |
| `request_path` | 3 frames of five lengths (0, 1, 3, 4, 6), headers and messages cut anywhere | `FrameStream` is implemented; every frame is pushed unless an empty one stopped `readAll`; the FIN closes only after the last frame |
| `response_path` | 2 frames of four lengths (0, 2, 4, 6), partial writes, cut messages, headers, lengths and messages refused whole | `FrameStream` is implemented, but that a length which was refused an odd number of times arrives swapped (`Understood`); a write that met a full buffer ends; every frame is read |
| `messages` | all eight classes, 2 objects, at most 2 unknown fields | `MessageValues` is implemented: nothing an object held before shows; a member without its has-bit is empty (`RetainedIsEmpty`); the size that is allocated is the size that is written (`SizeIsExact`) |
| `session` | 3 calls in any order, 1 retry, right and wrong password, users that come and go, texts at the limits of a frame, another client program | `SessionPhases` is implemented; both ends have the same key; answers stay with their requests; a client that believes it is authenticated is; echoes are one's own; no request kills the worker; calls end |
| `stale_answer` | violation: 2 connections on 1 descriptor, clients that leave early | finding 1 below |
| `request_cut` | violation: a length may be cut | finding 2 below |
| `response_refused` | violation: one frame, its message cut | finding 3 below |

Each property has a mutant of the code in `PROJECT.json` (an operator beside the
original, such as `cancelFetchOne` or `readOne`) under which the run fails.

**Bounds.** Three fetchers with four pushes give more items than sleepers and more
sleepers than items; four buffers let every place of `FrameQueue` own one while
another is in the queue. The hazards of `Server` need a descriptor used twice (two
connections, one descriptor), two connections at once (`server_ending`), or both
(three on two). Two requests per connection let one wait behind another in either
queue and let a response meet a busy deframer. In `lifecycle` one worker is the
program; three frames let the worker be anywhere in its loop, with and without
work left, when it is cancelled. In the framing runs the longest message has six
bytes, so it can be cut in many places and its length uses both bytes (6 is 1, 2
in base 4); its bytes contain values that look like headers. In `messages` every
type has a default and a value of its own, a string also one that is not UTF-8,
and sizes need one and two bytes of varint. In `session` three calls are a
`connect`, a login and a request, or two tries of one of them around a time-out;
one retry (`Attempts` = 1; 5 in the code) reaches the last refusal; the lengths of
the texts (65489, 65490, 65500, 65531, 65532) are the longest whose echo can be
read, one more, one that an encrypted frame cuts, the longest that fits a plain
frame, and one more.

**Symmetry** is used over the fetchers of `queue_many` only, which has no liveness
property. Descriptors are ordered (lowest free first) and are never permuted.

**Deadlock.** `queue_many` keeps the deadlock check. The other systems may really
stop and say `CHECK_DEADLOCK FALSE`: clients need not connect or ask, the process
may end (`Dies`, `exitProcess`) or leave its loop, the framing and session runs
end when the frames or calls of the bound are through.

**Fairness.** The operating system schedules threads that can go on:

* `Server`: weak fairness of `IO` and `Worker` as wholes; a thread that is blocked
  (empty queue, held mutex, no event) has its actions disabled. `Drain` is fair per
  client: a connected client reads, or goes away, so its buffer gets room. Nothing
  is assumed of clients that connect, ask or leave.
* `ServerLifecycle`: weak fairness of `IO` and `End`, strong fairness of `Worker`:
  it needs `fdTableMtx`, which the I/O thread takes again and again, and gets it
  because that thread sleeps in `epoll_wait` in between. Events and signals come as
  they like.
* Framing: the network delivers, the I/O thread runs, the client reads.
* `ProtocolSession`: the worker takes frames (`FrameTaken`) and closes what is
  over (`closeClient`), a waiting client takes what comes (`AnswerTaken`). That a
  call times out is not assumed, so `CallEnds` is about answers.

### Findings

1. *A response goes to the next owner of its descriptor* (`stale_answer`). A
   request is queued, its client leaves, the descriptor is accepted again, and
   the response, queued under the bare descriptor (`ServerWorker.cpp:12`), is
   sent to the new client, which reads it as the answer to its own first request
   (`main.cpp:29`, `main.cpp:35`).
2. *A length in two segments desynchronises the server* (`request_cut`). If its
   second byte arrives alone, `PFramer` pushes a frame nobody sent and takes the
   message for headers. The debug text of `handleDataIn` calls an item of the
   queue a "Full frame" (`Server.cpp:184`).
3. *A response in two segments is refused* (`response_refused`).
   `IOFrameSocket.cpp:43` compares the size of the last `recv` with the length of
   the frame, so `fetchRequest` fails although the answer is complete ("User
   request failed!!!", `main.cpp:30`). The stream itself stays in step, which
   `response_path` shows.

### Observations

What the models contain and no text of the repository contradicts; the properties
name these cases as their exceptions.

* A session that ends by itself while the I/O thread holds a hang-up event of its
  descriptor: the event can close the next owner. `ClosedOnlyIfGone` is stated for
  servers whose sessions do not end.
* `PDeframer.cpp:83`: a length refused by a full buffer is swapped again at the next
  attempt. After an odd number of refusals it goes out in host order, and as many
  bytes of message follow as the wrong length says: fewer than there are, or the
  message and what lies behind it (`Misread`). Both ends count alike, so the frames
  after it are in step; `FramesInOrder` excepts these frames by name (`swapped`).
* A session may end with a frame of another descriptor: its node was erased under
  the worker's `handlerIter` and handed out again, to a session of another
  descriptor. The worker then closes the descriptor of the item. The session's own
  connection stays open, unless another frame or its client ends it
  (`ServerWorker.cpp:50`; `lost` in `EndedIsClosed`).
* `closeClient(int)` looks the connection up without `fdTableMtx`
  (`Server.cpp:327`): while an accept moves `fdInfoTable`, it may find nothing and
  close nothing (`lost`).
* An answer that comes after the time-out is read by the next call. OK of the first
  phase and AUTH_ACCEPT of the login are both 1, so a late OK passes for a login
  (`crossed` in `AuthenticatedMeansAccepted`).
* After a frame it cannot decode, the login handler answers and goes on with the
  request it has kept: two answers to one frame, an attempt lost (`garbled`).
* `Client::connect` sets `isConnected` before the handshake, so a failed one is not
  retried on a new socket, but over the old one.
* A request of type UNKNOWN in the first phase gets no answer (`CallEnds` is about
  `Client`, which sends none).
* `cancelFetch` between the worker's test of `shouldStop` and its fetch is cleared
  by `WorkQueue.cpp:17`, and the join waits for the next frame (`lost`).
* SIGINT while the I/O thread holds `queueMutex` or `fdTableMtx`: the destructor
  may wait for the mutex, or for a worker that needs it, for ever (`interrupted`).
* `stop` before `runnerThread` is assigned joins nothing (`unjoined`).
* A peer's reset ends the process: `std::system_error` out of the event loop, or
  SIGPIPE (`Dies`).

## 4. What is proved

Every theorem holds for every value of the constants under the assumptions of its
module (`WorkQueueAssumption`: finitely many fetchers, natural limits;
`FrameQueueAssumption`, `LifecycleAssumption`, `SessionAssumption`,
`ServerAssumption`, `ByteStreamAssumption`: types of the constants, messages no
longer than a length can say). Where a theorem needs more, it says
so in an ASSUME.

**WorkQueueProofs.** `WQTypeCorrect`; `WakeupsNeverLost` and
`CancellationComplete`: `NoLostWakeup` and `CancelReachesAll` for any number of
fetchers, items, limits and bound. `NoLostWakeup` is not inductive alone: a
fetcher that leaves by cancellation takes a wake-up away, which is harmless only
because nobody sleeps while the cancellation is in force. The inductive invariant
`WQInv` joins the two with the types; the argument on cardinalities rests on lemmas
about adding an element to a finite set and removing one. `ItemsOnceInOrder`:
`FifoOnce` is inductive as it stands; each operation appends to `accepted` and
`queue`, or moves the front of `queue` to the end of `delivered`.

**FrameQueueProofs.** `QueueOfFrames`: `FrameQueue` implements `WorkQueue`, so the
theorems above hold of queues of frames. `NeverDeletedTwice`, `NothingLeaks` and
`QueueOwnsItsFrames` follow from one inductive invariant, `FQInv`: queued frames
own their buffers, buffers of different places differ (`Apart`), and the heap is
exactly what the places hold (`Held`). It is written over the places one by one
instead of the set `Places` of the properties, because a pop shifts every index of
the queue and the argument is about the front and the rest.

**ServerLifecycleProofs.** `QueueOfServer`: starting, serving and ending drive `wqIn` only
as `WorkQueue` allows. `LifecycleTypes`, `JoinSeesAwake` (`JoinMeetsNoSleeper`) and
`ThreadNeverOrphaned` (`WorkerOutlivesThread`) follow from `LCInv`, whose part
`EndsOK` says what each stage of the end may rely on: from the flag on there is a
worker object, from the cancellation on `shouldStop` stands, while the join waits
the cancellation is in force and nobody sleeps, and the object is deleted only
after the thread ended or was never stored.

**ServerProofs.** `TypeCorrect`: `TypeOK`, including that the mutex is held exactly
inside the critical section of a client event. `NotificationsAccounted`:
`NotificationAccounting`, for any number of connections, descriptors, frames and
responses per frame, with every switch. The inductive invariant is
`SInv == TypeOK /\ LocalsOK`. `LocalsOK` ties each thread's locals to its program
counter: a batch holds the listening socket only while the backlog, and the
eventfd only while its counter, is not zero (no other step lowers them), and there
is an item, a descriptor and a session in hand wherever the code uses one. Without
it the counter could fall below zero and `Head(ioitem)` would have no type.

**ServerProofs, the tables**, for servers whose sessions do not end by themselves and
whose `epoll_ctl` does not fail (`~Deactivates`, `~AddMayFail`), so that only the
I/O thread closes connections: `RegistriesAgree` (`TablesAgree`),
`InputNeverStranded` (`NoStrandedInput`), `ClosesGoneOnly` (`ClosedOnlyIfGone`) and
`HandledByOwnSession` (`OwnSession`), for any number of connections, descriptors
and frames. The inductive invariant `RInv` adds to `SInv`:

* `Registries`: how the four registries differ inside accept and close, where
  `TablesAgree` says nothing;
* `BatchCurrent`: an event of the batch still says something true of its
  descriptor. A hang-up event means a peer that reset; an event without input means
  that there is none, or that another edge has come since. It rests on the I/O
  thread being the only one that closes: no descriptor of the batch changes hands;
* `NoStrandedInput` itself;
* `ConnsOnce`: a connection is in the backlog or on a descriptor, once.

`OwnSession` needs one more invariant, `OInv`: the connection of a request in wqIn
is never opened again (`NeverReopened`) and, if it is open, it is on the
descriptor the request names; so the entry that `find` yields is its own, and, since
nobody erases it, the worker's node and session (`wnode`, `wctx`) stay its own.

**ServerProofs, the answers**, for lock-step clients (`Orderly`), at most one response
to a frame (`Replies \subseteq {0, 1}`), and again `~Deactivates`, `~AddMayFail`:
`AnswersToOwnRequests` (`AnswersOwnRequest`), so that no client is given the answer to
another's request however descriptors are reused. Its invariant `AInv`, on top of
`RInv`, follows the one request that a client may have under way through the six
places where it can be, as a request or as its answer (`Places`). `Awaited`: it is in
one place only, its client is still there and has not been answered.
`AddressedRight`: an item in a queue, in the worker or with the I/O thread names the
descriptor that its connection still has, and an answer is in the deframer of
its own connection. Hence `stray = {}`. A step moves one request to its next place
(`Goes`) or loses requests (`NoneAdded`), and closes descriptors only of clients that
are gone (`Kept`).

**ProtocolSessionProofs.** Every safety property of the session, without a condition
on its behaviour: for every client program, user table, number of attempts, length
of credentials and requests, and number of calls.

* `WorkersSurvive` (`WorkerSurvives`): no response is too long to be encoded. `UpInv`
  says of each frame to the server what its sender meant by it (`UpFrame`). The only
  response that grows with its request is the echo: a request that could be read
  came in an encrypted frame whose length was not cut, and the overhead of that
  frame is more than the echo adds (`ReplyFits`).
* `PhasesInOrder` (`PhasesRespected`): the session implements `SessionPhases`. `PhaseInv`
  bounds `remainingAttempts` and fixes it before the login, so that the number of
  refusals can be read from it. A process that ended in mid-session would not be a
  phase; `WorkersSurvive` excludes it.
* `KeysStayAgreed` (`KeysAgree`): `KeyInv`, the server has a key exactly when the key
  exchange is complete; `DownInv`, a frame to the client is plain or encrypted with
  the server's key, and an encrypted one carries no key; `KeysInv`, from `connect`
  on both ends have the same.
* `AcceptedWhenTold` (`AuthenticatedMeansAccepted`): by `AcceptInv`, an answer to a login
  that is on its way says something else than AUTH_ACCEPT, or the login was accepted
  and the answer is encrypted (`Verdicts`).
* `EchoesAreOwn` (`EchoIsOwn`): by `EchoInv`, the frame that bears the number of the
  call under way is the reply to the text of that call.
* `AnswersStayInStep` (`AnswersInStep`): by `StepInv`, unless a call timed out or the
  handler answered twice, one frame at most is on its way in either direction, and
  it bears the number and the stage of the call that waits.

`KeyFirst` is what makes the login sound. Until the key exchange is complete, the
client has sent nothing (`Silent`), is a program of another make (`Strange`), or the
offer of a key is the next frame the server reads (`Offered`). It is needed because
the numbers of the enumerators coincide: OK of the key exchange is the number of
AUTH_ACCEPT, REQUEST_KEX that of AUTH_SUPPLY, and no frame says which handler it
is for. So the proof needs to know what an object of one class becomes on the wire
and what another class reads of it: what the folds of `Messages` compute.
Those facts are proved by induction over the fields, in the form the provers accept:
the intermediate results of a fold are a function on the numbers, and a set that
holds 0 and the successors of its members is `Nat` (`NatBySets`, from
the well-foundedness of `<`); each fold has one such lemma (`SizeChain`, `SerializeChain`,
`ParseChain`), because the library's theorems take an operator as a parameter.
`SerializeIn`, `ParseIs`, `KexParsed`, `PlainParsed` and their like build on them.
`SessionAssumption` asks that credentials and texts are byte strings (`IsBytes`) and
the frames of other programs sequences of fields (`IsWire`).

The last part of the module is about the message classes themselves: every class, any
operations of `MessageObjects` in any order, any number of unknown fields.
`MessageObjectsAssumption` asks of the field of a newer peer (`Newer`) only that no class knows it.
It proves three theorems from one inductive invariant, `MOInv`: either object is
`Good`, that is, each member holds a value of its type, a sub-message is a `Flat`
KexMsg, and a member whose has-bit is not set is empty (`Retained`).

* `NothingRetained` (`RetainedIsEmpty`) is the second half of `Good`.
* `ClassesAreMaps` (`ImplementsValues`): what is observed of the objects (`Seen`) does
  with every step what `MessageValues` says. An accessor `Touches` one member; a merge
  takes what the source has (`MergeSeen`); what is serialised is read row by row
  (`RowsRead`), first for KexMsg (`KexBack`) and with it for the classes that have
  one as a member (`WireRead`), and a string that is not UTF-8 leaves a part (`Partial`).
* `SizesAreExact` (`SizeIsExact`): the rows that are written, in their order, enumerate
  the set of rows that are counted (`RowsEnumerated`). `MapThenSumSet` adds in an order
  of its own choice, so `TotalOf` shows first that the order does not matter: any
  two sums over a set agree, by induction over its cardinality.

What the tables of the eight classes have in common, `RowsAgree` and `BitsAgree`, is
proved class by class (`ClassesAgree`), and nothing else is used of them: every
member is written once under a number that the parser knows and counted once, and
its has-bit is the same in every function that looks at one.

**RequestPathProofs and ResponsePathProofs**, on the lemmas of
**ByteStreamProofs**: `FramerTypes` and `DeframerTypes` (`RPTypeOK`, `SPTypeOK`),
whatever is cut; and, *as long as no cut divides a length* (`"len" \notin Cuts`;
`request_cut` shows what happens otherwise), `RequestsInOrder` and
`ResponsesInOrder`: either path implements `FrameStream` (`FramesInOrder`; on the way
back but for the frames that went out with a swapped length, see below), and
`ClosesAfterLastFrame` (`ClosedAfterLastFrame`). They hold for every base (256
included), every set of messages, every number of frames, and every cut of
headers and messages. The argument is the same in both directions. `S` is the
stream of all bytes of the frames sent so far, `at[i]` the length of its first
`i` frames. The invariant, `StreamInv`, says that the bytes between the place
where the reader is (`Position`) and the place where the writer is (the end, or
`Written`) are those in the reader's socket followed by those on the wire
(`InTransit`), that no boundary on the wire divides a length, and that what the
reader has of its frame begins the next frame that was sent (`Reading`). So the
header that is read is a header, the length is that of the next frame, and a
message is complete when its frame is. A send extends `S`, an arrival moves the
border between wire and socket, and the rest moves `Position` or `Written` along a
stream that stays the same.

A response whose length is refused leaves as another frame than the one that was
sent. So in `ResponsePathProofs` the frames of `S` are not those of `sent` but a
sequence `out` of the same length: `out[i]` is `sent[i]`, or `i` is `swapped` and it
is misread (`Misread`). While the length of the last frame is not out yet, `out` may
still change there: a refusal replaces the last frame, of which only the header
was written. That `MsgBytes` sends what the swapped length says and the message as
far as it goes is what makes the replaced frame a frame. `S` and `at` are existentially quantified over
unbounded functions, so TLC does not evaluate `StreamInv`; it checks what follows
from it.

Only model-checked: every liveness property. Liveness under fairness and ENABLED are
beyond the prover.

## 5. What is not modelled

* Of the generated code: the names of enumerators, descriptors, static
  registration and arenas. `src/protocom/pcomserver.pb.h` is the same file as
  `src/pcomserver.pb.h` and `host_files/testuserprotocol.pb.*` a copy of
  `src/testuserprotocol.pb.*`; `host_files/pcomserver.pb.*` comes from an older
  schema and no include reaches it.
* The cryptography: X25519, key derivation, AES-GCM. A message opens under the key
  it was encrypted with and no other.
* Getters and setters without effect on other state, `FrameReader.cpp` (no code),
  the self-tests of coder and key exchange in `main.cpp`, logging, `sleep(1)` after
  a refused login (it delays the worker, no step depends on it).
* Locks of `malloc` and `iostream` that the interrupted thread may hold when the
  SIGINT handler runs, and a second SIGINT during the first one's `cleanup`.
* The data race of `addUser` and `delUser` inside `authenticate`: the table changes
  between frames only. `isAuthenticated` is uninitialised before the first success;
  the model keeps it as a value of its own, and only a getter reads it.
* Frames that arrive malformed in `Server` (they do in `RequestPath`), and time-outs
  in the middle of a frame (those between frames are in `ProtocolSession`).
