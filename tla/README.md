# Verification of the xiaoxin server library

The repository holds the library under `src/common` of a chat system: a
socket layer on boost::asio, a message queue with worker threads, a database
layer with its own threads and connection pool, and the table that hands
database results back. (The servers built from it are there as executables
only.) It is C++ from 2014, for Windows, with boost 1.57. This directory models
the parts of it that several threads run, and the reading of its configuration
file, checks them with TLC and proves nearly all the safety properties checked,
for all sizes, with TLAPS.

## The system

```
 peers        io threads                         workers              database threads
 -----  accept  -------  packets  ------------  ------  objects  -------------------
 Acceptor ----> ReceiveManager -> MessageQueue -> DoData -> InfoTransferStation
 Connector      |  ^ handles                               |  ^ replies
                v  |                             requests  v  |
            SendOrRecvMngBase                       ThreadPool / cSQLPool
                ^                                          |
            SendManager                            connections (ODBC)
```

| Component | State | Operations | Talks to |
|---|---|---|---|
| `Acceptor`, `Acceptor_Connector_Base`, `SocketManager`, `AcceptorManager` | accepts under way, set of sockets, io_service, threads | Initialize, PostAccept, accept_handler, PostRecvAndFirst, Add, ClearAll, RunAll, StopAll | calls PostReceive and First of `ReceiveManager`; handlers run on any io thread |
| `Connector` | one socket, its io_service and receive manager | Initialize, ConnectServer, Start, Stop, ReleaseResource | same base class; DoData, on the thread in Start or on a worker of the queue, may call it |
| `ReceiveManager` over `SendOrRecvMngBase` | pool of handles; per handle buffer, offset, socket | PostReceive (two), AsynReceive, Receive, Dispatch, CloseSocket, GetData, ReleaseMemory | adds to `MessageQueue`, calls DoData itself for batches |
| `MessageQueue` | list of handle copies, own pool, condition | Add, Dispatch (worker loop) | calls DoData of the receive manager |
| `SendManager` | handles | GetData, PostSend, PostError, SendComplete | asio |
| `InfoTransferStation` | `_data_set`, pools of objects and buffers, workers | Get, SendRequest, PushData_db_to_me, WorkThread, Release, Exit | queues requests at `cSQLPool`, which pushes replies back |
| `cThreadPool`, worker of `cSQLPool` | `_data_set` of requests, its lock, condition | QueueRequest, GetData, WorkerThread, NotifyAllAndClose | connection pool |
| connection pool of `cSQLPool` | two linked lists, three counters, critical section | GetPool, ReleasePool, Attach/DetachPool, Alloc/FreeSQLConnection, Shutdown | ODBC |
| `ServerConfig` | settings | Initialize, ReadConfigScript | read once, before the threads start |
| `ChildServerManager` | map of child servers, no lock | getters, setters, ReleaseChildServer | servers outside of the repository |

What makes them correct, and what is hard about it:

- **Receiving.** TCP has no packets. Whatever pieces the bytes arrive in, the
  derived class must see each packet whole, once, in order, cut at the right
  place; no receive may go beyond the buffer; one connection must never have
  two receives under way; handles must not leak. Hard: rests kept behind an
  offset, the moved `_buffer` pointer of a batch, closes at any moment, several
  io threads.
- **Queue.** Each message dispatched once, in order, sooner or later, and
  handles given back, up to where the destructor is overtaken. Hard: the workers
  wait with a mutex nobody locked, so that `unlock` runs on a mutex of others, and
  test the list under another lock; the destructor walks the list without any.
- **Receiving with the queue.** Packets reach DoData on two ways, by a worker or
  on the io thread. None may be lost between them or handled twice, no two io
  threads may be in DoData for one connection, and the end of a connection
  should be the last the derived class hears of it. Hard: the two ways overtake
  each other, and the choice depends on how the bytes were cut and on memory.
- **Replies.** Each object handled and released once; no reply left lying; a
  clean Exit. Hard: the same wait, notify_one, waiting before looking.
- **Requests.** `_data_set` only changed under its lock, a request in one place
  at a time, every request taken. Hard: the worker waits with that lock, comes
  out of the wait with it locked and locks it once more.
- **Connections.** One user per connection, well-formed lists, counters that
  agree with them. Hard: removal in the middle, dead connections, partial
  failure, unsigned arithmetic.
- **Accepting.** As many accepts prepared as asked for, one owner per socket
  object, every connection served, closed ones released. Hard: raw pointers
  passed between handlers on several threads, failing accepts.
- **Connecting and stopping.** Whenever Stop comes, handlers must find their
  receive manager, the socket is deleted once, nothing is left. Hard: the owner,
  the thread in Start and the workers share everything without a lock, and any of
  them may call Stop, from DoData too and while another one is in it.
- **Sending.** A handle posted comes back, whatever becomes of the write.
- **Configuration.** The last line that gives a setting counts. Hard: a buffer
  used again and again for texts without an end.

The list of hazards with their lines is in `PROJECT.json`.

## Modules

| Module | Models | Correspondence |
|---|---|---|
| `ByteStream` | `Packet`, what a peer sends | A byte is its position. A stream is its length and, for every position, the two header sizes that would be read there. |
| `PacketStream` | what receiving promises | Deliver: the next packet; End: the end, once, with what is left. |
| `ReceiveManager` | `ReceiveManager`, `SendOrRecvMngBase` | `st[h]` is the point the callback of handle `h` has reached: posted, completed, then, in a thread, eof or scan (the loop of `Receive`), repost, release. One action per branch of the loop. `shift` is how far `_buffer` was moved. |
| `HandleQueue` | what `MessageQueue` promises | A list first in first out, a pool, workers that take, dispatch and give back one message at a time; Pass is the caller that dispatches for want of memory, Drop one handle the destructor frees. |
| `Dispatching` | `ReceiveManager` with its queue and DoData | The actions of `ReceiveManager` and of `HandleQueue`, joined where Receive calls `Add` or DoData: what a step appends to `handed` is put into the list or makes its thread call DoData (`calling[t]`), and the thread goes on when DoData returned. |
| `BoostCondition` | boost's `condition.wait` on a `recursive_mutex` its caller does not hold (external) | `locked`, `owner`, `count` are the fields of the mutex. Reads and writes of `count` are separate steps, since nothing protects them. |
| `MessageQueue` | `MessageQueue` | One action for `Add`, one per step of the worker loop, the wait from `BoostCondition`, and the destructor (`stage`): it notifies, interrupts, releases the handles of the list one by one without the lock (`walked` counts them) and clears the list. `reused` are workers that took a handle it had released; `stage` is "undefined" where that one is released again, or the list changes under the iterator. |
| `InfoTransferStation` | `InfoTransferStation` | `place[o]` follows an object from the pool to the upper layer, the database, `_data_set`, a worker and back. Exit is three steps. |
| `ThreadPool` | `cThreadPool`, `cSQLPool::WorkerThread` | The lock of the table is its exclusive bit; locking, changing and unlocking are separate steps, and so are testing `_is_exit` and entering the wait, setting it and notifying. `over` is set where an exception or a destructor ends the pool. |
| `ConnectionSets` | what the connection pool promises | Lend, open, give back, close. |
| `ConnectionPool` | the lists and counters of `cSQLPool` | The pointers are functions; each call that holds `mCs` is one action, composed from DetachPool and AttachPool as in the code. `driver` is what the wrappers of `OdbcSql.h` have opened: environment, connections, those connected, statements. |
| `Acceptor` | `Acceptor` with its base class and `SocketManager` | Completions are a queue, as in the completion port; a handler's steps are separate actions. |
| `SendManager` | the handles of `SendManager` | `place[h]` follows a handle from the pool to its caller, to asio and back. |
| `Connector` | `Connector`, `ReleaseResource` | The owner, the thread in Start (`Runner`) and the workers of the queue, each with the point it has reached; the steps of ReleaseResource, with every test of a pointer apart from its use, are separate actions that any of them may be at. `crashed` is set where a deleted object or NULL is used. |
| `ServerConfig` | `ServerConfig` | A line is a sequence of tokens; `transfer` is the buffer its text is copied to, and a setting is the text and the way it was converted. |
| `DispatchingProofs` | | Theorems about `ReceiveManager` (part 1) and `Dispatching` (part 2). |
| `BoostConditionProofs` | | Lemmas about the wait, for the two modules that use it. |
| `MessageQueueProofs`, `InfoTransferStationProofs`, `ConnectorProofs`, `AcceptorProofs`, `ServerConfigProofs` | | Theorems about the module of that name. |
| `SQLPoolProofs` | | Theorems about `ConnectionPool` with `ConnectionSets`, and about `ThreadPool`, the threads that serve its requests. |
| `MC...` | | Instances for TLC. |

`MessageQueue` and `InfoTransferStation` extend `BoostCondition` and share its
variables; `Connector` extends `SendManager` in the same way, and `Dispatching`
both `ReceiveManager` and `HandleQueue`. `ReceiveManager`, `MessageQueue` and
`ConnectionPool` instantiate `PacketStream`, `HandleQueue` and `ConnectionSets`
with a refinement mapping. `Dispatching` uses the promise of the queue in the
place of the queue, whose waiting would multiply its states. Definitions that
end in an underscored word and carry a comment "Bug:" are variants of the
definition below them, each a mistake the code could plausibly contain;
substituting one must break the property it is listed with.

## Runs

| Run | Question | Result |
|---|---|---|
| `rm_one` | One connection, two io threads, three handles, five streams cut in every way, closes at any time: TypeOK, SingleReader, NoByteLost, Aligned, BufferBounds, ReaderStops, Delivered, refinement of PacketStream | hold |
| `dp_dispatch` | Receiving with its queue, two io threads, two handles, two workers: OneIoThread, EachOnce, OnlyQueuedOvertaken, EndIsQuiet; AllDispatched, if workers come to take | hold |
| `mq_workers` | Two workers, three messages, two handles, the destructor at any time and its walk of the list while workers take: TypeOK, OneOutside, WarmDispatch, refinement of HandleQueue until it is overtaken | hold |
| `ist_station` | Two workers, two objects, Exit at any time: HandledOnce, BuffersBalanced, Backlog, OneLeaves, Drained | hold |
| `ist_exit` | Does Exit wait for the workers? (InfoTransferStation.cpp:71) | no |
| `cp_pool` | Four workers, five addresses, failures, Shutdown: TypeOK, Linked, NoneLost, Accounts, DriverFollows, refinement of ConnectionSets | hold |
| `acc_accept` | Two io threads, two accepts, three connections: AcceptsPrepared, OneOwner, Served (the type invariant is left to the theorem) | hold |
| `acc_close` | Is the socket of a closed connection released through CloseSocket? (ReceiveManager.h:7) | no: nothing calls SetSocketManager |
| `con_stop` | An owner that connects twice, sends and stops, a thread with the handlers, two workers, a DoData on each of them that sends or stops, as many Stops at a time as there are threads: TypeOK, HandlersHaveManager, DeletedOnce, NothingLeft, StopInDoData | hold |
| `sc_read` | Every file of up to three lines: LastLineWins | hold |
| `tp_pool` | Two callers, two workers, NULL requests, closing and destroying at any time: InOnePlace, RequestsHaveTakers, Progress | hold |
| `tp_table` | Does `_mutex` protect `_data_set`? (ThreadPool.h:31) | no: the worker's wait unlocks it |

What the passing runs add to the comments in the modules: `OneOutside` says that
after start-up only one worker of a message queue ever runs, however many there
are, because each returns from the wait with the mutex locked. It and
WarmDispatch suppose that all workers slept before the first message (`early` is
false): at start-up the unlocks of several workers can leave the mutex locked by
nobody, after which no worker returns from its wait; and a worker that found the
list empty, but has not entered the wait, misses the message added in between,
which then stays until another one comes. (The comment at MessageQueue.h:100
says that it waits to be processed.)

That the queue keeps its promise of order, of single dispatch and of its handles
(ImplementsHandleQueue) needs no such assumption, but ends in the destructor. It
releases what is in the list without the lock (MessageQueue.cpp:24-30) while
workers may be fetching: one can take the node the iterator points to, or,
from the end already walked, a handle that was released, which it dispatches and
releases again; and an io thread that is still there adds to the list. Each of
these sets `Overtaken`, up to which the refinement holds, with every handle the
destructor releases a step of its own.

`OneOutside` and `OneLeaves` are also about ends: the destructor of a queue, reached
by every `Connector::Stop` through ReleaseResource and `~ReceiveManager`, and
`InfoTransferStation::Exit` wait a second and interrupt the workers; the first one
that leaves keeps the mutex, and all others are still inside the object when it
is freed. The models stop there.

`dp_dispatch` shows what a class derived from ReceiveManager can count on. The
comment at ReceiveManager.cpp:57 says that whole packets are added to the queue;
in fact all packets of a read but the last go to DoData on the io thread
(ReceiveManager.cpp:118), so that they overtake earlier ones still in the queue, and DoData of a
connection runs on an io thread and a worker at the same time. OnlyQueuedOvertaken
says that this is the only way in which the order changes, as long as the
workers take turns; OneIoThread that there are never two io threads; EndIsQuiet
that an end told by a worker comes when everything else was dispatched and no
io thread is in DoData. When the queue's pool is empty the end is told by the
io thread and may come before queued packets.

`Progress` lists what keeps a request in the table of `cThreadPool`: the threads
stall (a worker comes out of the wait with the lock that GetData then locks
again: after the first request this is the normal case, until some other
worker's wait unlocks it), no worker was waiting when the request came (`missed`),
or the pool is closed or ended. `RequestsHaveTakers` is what the second of these
means: as long as every request met a waiting worker, there are at least as many
workers on their way to the table as requests in it. What keeps them from it is
then the stall, and that is final: no thread inside the pool and no caller
outside of it can end it (`StallIsForever`). `InOnePlace` holds until two threads have been in
the table at once (`raced`), which `tp_table` shows to happen.

`Backlog` measures the same kind of loss for replies: the table holds no more
than what workers on their way will take plus one for every reply that met no
waiting worker; such a reply stays until another one comes (the comment at
InfoTransferStation.h:86 says it is fetched).

The comment at SendOrRecvMngBase.cpp:45, "0 bytes were received: the client has
closed", is half true: CloseSocket is reached only after such a read, but
`_offset` counts what the handle has accumulated, so that a close in the middle
of a packet is not taken as one. The derived class hears of it (PacketStream).

What `con_stop` says of Stop depends on where it is called. On the thread in
Start, from a DoData that a handler calls directly, it waits for ever in
`_io_service.reset()`, as the comment at Connector.cpp:101 warns, unless another
Stop has taken the service before it. On a worker, where DoData gets whatever went
through the queue, it does not wait: it deletes the receive manager and the queue
in whose methods the worker is, and returns there (StopInDoData). And no Stop
knows of another: with one in `_io_service.reset()`, waiting for a handler, a
second one, or the destructor, finds the pointer NULL, skips both ifs
(Acceptor_Connector_Base.cpp:76-85) and deletes the manager under that handler.
HandlersHaveManager says that this is the only way to lose it. A Stop also deletes
the socket under a handler that may still post on it; the model ends where what
was deleted is used. Writes
that were not completed when the service is destroyed never reach SendComplete,
and their handles do not return to the pool ("dropped").

### Bounds

- `rm_one`: header of 2 bytes, buffer of 5, streams of at most 7. A header and a
  packet can be split at every point, three packets can be in one stream and a
  batch of two with a rest in one buffer; there is a packet longer than the
  buffer, one of size 0 and one with a wrong header. Three handles are what a
  reader and two threads need; the leaked ones of closed sockets run it dry.
  Several connections that share handles are left to the theorems.
- `dp_dispatch`: one stream of three packets, so that a batch of two with a
  third can come after a queued one, and all three can be queued; the buffer
  of three bytes holds all but the last byte; two handles and two in the pool
  of the queue let both run dry.
- `mq_workers`: two handles and three messages, so that the pool runs dry and is
  used again; two workers are enough for every race between two unlocks, an
  unlock and a lock, or a test and an add.
- `tp_pool`: a second caller for every race with a worker, a second request to
  be left behind the first.
- `ist_station`: `BufferCount` is one more than the objects, so that Get fails
  after it took a buffer; `MaxMissed` = 1 bounds the pushes that meet no worker.
- `cp_pool`: with four connections in use every position of a list is reached
  and detached; the fifth address lets freed ones be reused; `SizeRange` = 8
  lets the counter wrap; `MaxFailures` = 2.
- `con_stop`: two connections, so that what the first left behind meets the
  second; owner, runner and two workers, so that each can overtake each in Stop,
  and a third thread comes in between; two handles, `MaxReceives` = 2 per
  connection, `MaxRefused` = 1. The workers are symmetric, and the handles are.
- `sc_read`: three keys, one for each kind of conversion to 32 bits, to base 16
  and to text; values of up to two words, so that a shorter one follows a longer
  one; `MaxTokens` = 13 makes the longest lines too long.
- `acc_accept`: `MaxConnections` = 3 and five sockets; failing accepts are not
  bounded.

CHECK_DEADLOCK is off everywhere: all these programs end when peers, callers and
bounds give them nothing to do.

### Fairness

Weak fairness is assumed of threads of the program only: a thread that can take
its next step takes it. It stands for an operating system that schedules every
runnable thread; for a thread in `lock()` it also says that an open mutex lets it
in, which holds of boost's Windows mutex when nobody else keeps taking it. In
`ReceiveManager` a completed receive is also taken by some thread, since io
threads in `run` serve the completion port. In `Dispatching` it also says that
DoData returns and that a worker dispatches and releases what it has taken. That a
worker comes to take is not assumed, for at start-up a notification can be lost
or the mutex stay locked by nobody; it is the premise WorkersTake of
AllDispatched, which MessageQueue's workers meet once they are warm
(WarmDispatch). Peers, kernel, database, callers of the library and Exit are never
assumed to do anything.

## Proofs

Every theorem is of a specification without fairness, for all values of the
constants: any number of sockets, threads, workers, handles, messages, objects
and connections, any streams, buffer and header sizes, and any bounds. For each
safety property of the passing runs there is one.

| Theorem | States | Rests on |
|---|---|---|
| `TypeCorrect`, `OneReader`, `NothingLost`, `UnpacksAligned`, `StaysInBuffer` (DispatchingProofs) | `[]` of TypeOK, SingleReader, NoByteLost, Aligned, BufferBounds | `IInv`, theorem `Invariance` |
| `HandsOverThePackets`, `StopsReadingForAReason` | `ReceiveManager` implements `PacketStream`; ReaderStops | `IInv` |
| `ImplementsReceiving`, `DispatchesThePackets` | `Dispatching` implements `ReceiveManager`, and so `PacketStream` | every step is one of its steps or none |
| `OneIoThreadAtATime` | OneIoThread | `DInv` |
| `EveryPacketInOnePlace`, `OvertakesOnlyQueued`, `EndIsLast` | EachOnce, OnlyQueuedOvertaken, EndIsQuiet | `FullInv` |
| `ImplementsQueue` | `MessageQueue` implements `HandleQueue` until its destructor is overtaken | `QInv` |
| `OneWorkerAtATime`, `NoHandleLost`, `QueueTypes` | OneOutside; the pool, what the destructor has not walked of the list, and the workers that took no released handle have all handles, also while it walks (Balanced); TypeOK | `WInv`, `Balanced`, `Rest` |
| `OthersStayInWait` (in MessageQueueProofs and InfoTransferStationProofs) | once one worker ended, all others stand in wait(), and no step changes that, takes a message or moves the mutex | `WInv`; `IInv` of the station |
| `EachMessageOnce` | no message is dispatched twice, workers take messages in the order of Add (DispatchedOnce, TakenInOrder, OneTaker) | `QInv`, `OnceInv` |
| `RepliesHandledOnce`, `NoBufferLost`, `RepliesWaitForAReason`, `ExitEndsOne` | HandledOnce, BuffersBalanced, Backlog, OneLeaves | `IInv` |
| `PoolTypes`, `ListsLinked`, `NoConnectionLost`, `CountersAgree`, `DriverAgrees` | TypeOK, Linked, NoneLost, Accounts, DriverFollows | `IInv` |
| `ImplementsSets`, `LentToOne`, `PoolLendsToOne` | `ConnectionPool` implements `ConnectionSets`; what does has one user per connection (OneUser) | `IInv`, `CSInv` |
| `TypeCorrect`, `ManagerOutlivesHandlers`, `SocketDeletedOnce`, `StopLeavesNothing`, `StopInDoDataReturnsIntoNothing` (ConnectorProofs) | TypeOK, HandlersHaveManager, DeletedOnce, NothingLeft, StopInDoData | `IInv` |
| `AcceptorTypes`, `AcceptsStayPrepared`, `SocketsHaveOneOwner` | TypeOK, AcceptsPrepared, OneOwner | `Owners`, `Prepared` |
| `RequestsInOnePlace`, `QueuedHaveTakers`, `StalledForGood` | InOnePlace, RequestsHaveTakers; StallIsForever | `TPInv`; `TakersInv`; `Types` |
| `SettingsAreThoseOfTheLastLines` | LastLineWins | `LInv` |

They rest on the named assumptions of the modules only: the streams are streams
(the sizes at a packet boundary lead to a boundary), header and buffer are not
empty, NULL is no handle, socket, connection or request, numbers are numbers, the
workers of a pool are finitely many, no word of a value in the configuration is
a key, a colon, a minus or a blank (what that leaves out is under *Not modelled*),
and there are fewer connections than SIZE_T counts (`ConnsAssumption`: each is
an object with an address of its own).

None of the properties is inductive as it stands. What had to be added:

- **Receiving.** Aligned is not inductive alone: that a buffer begins at a
  boundary after the next packet was taken needs that it began at one before,
  that the size read there was the packet's, and that the bytes held are those
  after the ones handed over. `IInv` joins TypeOK, SingleReader, NoByteLost,
  Aligned and BufferBounds with `ReaderOK`: the reader of a socket belongs to an
  open connection whose end was not handed over, holds no complete packet until
  `Receive` has looked, and has read no more than was sent. The refinement maps
  every action to Deliver, End or a stutter.
- **Two io threads.** A thread in DoData still has the reader of that
  connection, or has told its end (`CallsOK`), and handles in callbacks belong to
  one thread (`ServingOK`); with SingleReader two threads with one connection
  would have one handle.
- **Order.** `QueueInv` follows the messages: those in the list and in hands are
  entries that were queued (`Contents`), none is in two places (`Once`) or in none
  (`Found`), and `InOrder`, in two parts: the list is always in the order of the
  entries; while workers take turns, the one message taken comes before the list
  and after every queued message dispatched. A worker that begins dispatching
  can then only be behind messages that io threads dispatched. For EndIsQuiet the
  end is the last entry of its connection (`EndLast`), and a thread in DoData
  has a message that was not queued, the end itself if it is about to release
  its handle (`CalledDirect`): were it there beside a worker with the end, both
  would have the same entry, queued and not queued.
- **The wait.** `CondInv` has two phases. Until all workers have slept nobody is
  notified, the count of the mutex is only decremented, from 0, and so no worker
  finds it 1 and opens a mutex that is not locked (`FirstWaits`). From then on the
  mutex behaves as if it had been used properly: who is not asleep owns it,
  with count 1 (`OneOut`). The lemmas are about one step of wait() and are used
  for both classes; MessageQueue and InfoTransferStation add that whoever
  notifies before that has set `early`.
- **The queue and the station.** A worker has a message exactly between fetching
  and releasing it (QInv), so whatever the mutex does to the workers maps to a
  stutter. The list is mapped to its part that the destructor has not walked
  (`Left`): a release takes the last message off it, and a worker that fetches
  takes the first, or, when nothing is left, is in `reused`. A reply is handled by the worker that took it out of the table
  (`Handles`); Backlog follows by counting, one worker that goes on its way for
  one reply pushed.
- **The lists.** `ListOf(first, S, n, p)` says that the links make the set S a
  doubly linked list: `Starts` and `Doubly` for the pointers, and `Reaches`, that a
  set with the first element and closed under the links is all of S, for what
  no count of pointers excludes, a ring beside the list. AttachPool and
  DetachPool, whose cases are first, last, inner and only element, keep it for
  the set with or without the connection (`Attach`, `Detach`), and leave the other
  list alone (`ListFrame`). The invariant: the two lists are the connections lent
  and the others.
- **The counters.** They are lengths modulo SIZE_T. The working set size, from
  which a failing connect takes one too many, may wrap; the quotas may not, for
  there are fewer connections than numbers.
- **The connector.** Any number of threads may be in ReleaseResource. The service
  lives as long as a handler; whoever has passed `reset()` knows the pointer to be
  NULL, and a service without a pointer has exactly one thread that destroys it
  (`Service`). The manager lives as long as that pointer, and after it only while
  somebody is on his way to delete it (`Manager`). The socket is with SocketManager
  exactly while it is open, and gone for whoever is past ClearAll (`SocketKept`);
  nothing waits for a service that is gone (`Quiet`).
- **Accepting.** Every accept that completes is in the queue or with a thread
  until the next one is posted; the threads in handlers are finitely many even if
  the threads are not (`Prepared`).
- **Who ended.** `CondInv` also says who has the mutex: a worker that ended still
  has it, so that every other one is asleep and can neither lock it nor find
  itself its owner. With slept = Workers no later notification sets `early`, and
  the situation preserves itself (`EndedKeepsMutex`, used for queue and station).
- **Each message once.** What is dispatched is neither in the list nor with a worker
  that has not dispatched it yet (`NotAgain`); the list increases and begins after
  every message a worker holds, and no two hold the same. Nothing is needed of
  the mutex.
- **Requests.** That no request is in two places does not need the lock at all in
  the model, where a step on the table is one step; that the code's set stays
  a set needs it, and so InOnePlace says nothing once two threads met in the
  table.
- **Takers.** RequestsHaveTakers needs that who is in `waiters` is before its lock
  (`Waiting`), so that a notification adds a worker to those on their way, and
  that a worker leaves that set only where it takes a request out of the table,
  or finds the table empty, and then there is nothing to count.
- **Configuration.** What is copied of a line is defined by recursion over its
  tokens, and the text after the colon and the setting are chosen from sets of
  positions. The library's induction rules cannot be instantiated here; what
  they give is taken instead from the set of the positions where the claim
  fails: if it is not empty it has a least element (`LeastNat`, from the
  library's theorem that < is well-founded on Nat), before which the claim
  holds, and so it holds there. In this way the recursion has a value and one
  only (`KeptExists`, `KeptIs`); the buffer is empty whenever a line is copied to
  it, so that it holds the text of that line alone (`CopiedSetting`, `CopyIs`); a line with
  setting and comment gives the value of its own key and of no other (`SetIs`);
  and the settings after line n are those of the last lines up to n (`LInv`).

Model-checked only:

- liveness (Delivered, AllDispatched, WarmDispatch, Drained, Served, Progress):
  the prover has no fairness;
- the three properties that do not hold.

## Not modelled

- Memory contents: what `operator=` of `PerHandleData` reads beyond a buffer.
- What follows undefined behaviour: workers inside a destroyed `MessageQueue` or
  `cThreadPool` or one that a worker overtakes, threads that go on in a deleted
  receive manager, a `Connector` that is itself freed, `Acceptor::Stop` with io threads running (PostAccept on NULL), a
  second round of `RunAll` with a deleted receive manager, releasing into deleted
  pools after Exit, releasing a connection after Shutdown. The models stop there.
- `SocketErrorNotify`: nothing in the source calls it.
- How much of a packet a write takes: nothing in the code looks at it.
- What handlers of a `Connector` do with a deleted socket, and an Initialize or
  Start while another thread is in Stop.
- The buffer that GetData of `SendOrRecvMngBase` loses when there is one and no
  object for it (SendOrRecvMngBase.cpp:22-39): in `ReceiveManager` objects and
  buffers run out together.
- Values of the configuration that contain a minus or a key, names longer than
  their arrays.
- `ChildServerManager`: unlocked getters and setters. Its map is filled by derived
  classes only, and neither these nor any caller are in the repository, so that
  a model would be about invented threads. (Its destructor, which never advances
  its iterator, would not end with an entry in the map.)
- The SQL scripts of the two databases: stored procedures of another language,
  whose isolation is that of a server outside; nothing under `src/common` calls
  them.
- Of the ODBC wrappers, diagnostics, transactions and test
  queries: calls of a library. Printing, string conversion.

## Plan

Done, in this order: ReceiveManager with PacketStream and its proofs;
MessageQueue; ConnectionPool with ConnectionSets; InfoTransferStation;
Acceptor; ThreadPool; the driver under ConnectionPool; SendManager with
Connector; ServerConfig; HandleQueue, which MessageQueue is proved to
implement, and Dispatching; the destructors of the queue and of the pool of
threads; Stop of a Connector from workers, and several at a time; the theorems, last those about ServerConfig, the takers of requests and
the workers that never end.

What is left:

1. `ThreadPool` with `ConnectionPool`: which requests get a connection.
2. `Connector`: how many writes are dropped by a Stop, and `SendManager` as the
   implementation of a pool of handles.
