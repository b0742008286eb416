# Qt_Asio_NetDisk: TLA+ models, model checking and proofs

This directory holds a verification project for the network disk in `src/`: a C++ server with an epoll
reactor and a thread pool, a load balancer that hands out servers, and a Qt client whose transfers run
on Boost.Asio. It is written from the source code. `PROJECT.json` lists the components, the runs, the
lines every definition stands for, the hazards and the theorems.

Paths below use `S` for `src/NetDisk-Server/Server/code`, `L` for `src/NetDisk-Server/LoadBalancing/code`
and `C` for `src/NetDisk-Client`.

How to run, in this directory:

    tlc -workers 2 -config upload_safety.cfg UploadMC
    tlc -workers 2 -config table.cfg TableMC
    tlc -workers 2 -config download.cfg DownloadMC
    tlc -workers 2 -config parts.cfg PartsMC
    for m in Upload FileDb Download Account Session Shared Heap Protocol
    do tlapm ${m}Proofs.tla; done

## 1. The system

```
 client                                   server
 +--------------------------+             +-------------------------------------------------+
 | Login, FileSystem (GUI)  |  short TLS  | main reactor (Server)      load balancer        |
 | ShortTaskManager, SR_Tool|<----------->|   accept, verify, heartbeat -> Equalizer + heap |
 |                          |             |                                                 |
 | TProgress  buttons       |             | 4 sub-reactors (EventLoop, each with a Timer)   |
 |   | control word, cv     |  long TLS   |   | PDUs as tasks                               |
 | UdTool / DownTool        |<----------->| WorkQue (10 threads, 4 of them run reactors)    |
 |   coroutines of SR_Tool  |             |   ShortTaskTool, LongTaskTool                   |
 | TaskQue (threads)        |             |   UpDownCon / ClientCon, SqlConnPool -> MySQL   |
 +--------------------------+             |   files mapped under ROOTFILEPATH, Log, buffers |
                                          +-------------------------------------------------+
```

One *long* connection carries one transfer. A PDU that a sub-reactor has framed becomes a task of the
pool; nothing orders the tasks of one connection, so several pool threads work on one `UpDownCon` at a
time, while the reactor may close it. On the client three kinds of threads share one `FileContext`: the
worker's `QThread` (slots), the coroutines on the `io_context`, and the GUI thread with the buttons.

### Components

| Component | Code | State | Operations | What makes it correct |
|---|---|---|---|---|
| Upload, server | `S/tool/LongTaskTool.cpp` 1-313, `S/pool/UpDownCon.cpp`, `S/pool/AbstractCon.cpp` | status, verified, `TaskContext` (sizes, map, names) of the connection; file; row | `PutsTool`, `PutsDataTool`, `PutsFinishTool`, `init`, `copyTask`, `close` | one row per upload; a success means row, bytes and file; `close` removes only unfinished files; no thread touches memory that is gone |
| Upload, client | `C/ToolClass/UdTool.cpp`, `SR_Tool.cpp` (`asyncSendFileData`), `C/WidgetClass/TProgress.cpp` | unacknowledged set, acknowledged bytes, control word, shared `QFile`, cursors | slots for three answers, send loop, pause / continue / close | progress is honest; pause holds; every sleeper is woken; every upload ends |
| Download | `S/tool/LongTaskTool.cpp` 318-665, `C/ToolClass/DownTool.cpp` | cursor of the sender, bitmap of missing chunks, control word | `GetsTool`, `GetsDataTool`, `GetsControlTool`, `GetsFinishTool`; pause, resume, cancel, hash check | the file written is the file stored; a cancelled download stops; a finished one is told |
| Thread pool | `S/pool/WorkQue.cpp`, `C/ToolClass/TaskQue.cpp` | task queue, closed flag, sleepers | `addTask`, worker loop, `close`, destructor | every task is taken once, in order, and run (the server never leaves `start()`, so its pool is never closed) |
| Sub-reactor | `S/server/EventLoop.cpp`, `Epoller.cpp` | connections, epoll interest, read buffer, timer | `loop`, `addClient`, `handleClientData`, `closeCon` | each PDU dispatched once, in order; a closed connection leaves nothing behind |
| Main reactor | `S/server/Server.cpp` | `client_con_`, `verify_con_`, load-balancer socket | accept, verify, hand over, heartbeat, shutdown | descriptors are not confused when reused |
| Database access | `S/sql/MyDB.cpp` | tables `Users`, `FileDir` | insert, delete, lookups; no transactions | ids are unique; the space in use covers the rows; a recorded content keeps its file; no row is its own parent |
| Connection pool | `S/sql/SqlConnPool.cpp` | free connections, semaphore | `getConn`, `freeConn`, `closePool` | never more than the pool; no thread waits for ever |
| Short tasks | `S/tool/ShortTaskTool.cpp`, `C/ToolClass/ShortTaskManager.cpp`, `C/WidgetClass/Login.cpp` | users, verified flag, listing under way | login, sign up, list, create, delete | a name has one owner; a client is served as the user it shows; a listing that is mixed up does not refuse the next ones for ever |
| Idle timer | `S/timer/Timer.cpp` | heap of deadlines, index of ids | add, adjust, tick, pop, clear | the root is the earliest; the index agrees with the heap |
| Load balancer | `L/equalizer/Equalizer.cpp`, `L/serverheap/ServerHeap.cpp` | servers by load, heap and index | register, state update, removal, answer clients | the least loaded live server is handed out |
| Buffer pools | `S/bufferpool/BufferPool.cpp` | free and used buffers, cleaner thread | acquire, release, clean | a buffer has one owner; the limit holds |
| Log | `S/log/Log.cpp`, `BlockDeque.h` | bounded deque, writer thread | write, flush, close | no line is lost or doubled; only a full queue lets one pass another |
| Protocol | `S/protocol.*`, `Serializer.cpp` of three programs, `S/tool/SRTool.cpp` | none | encode, decode, send under `send_mutex_` | what one program writes another reads; the header's length is what was written |
| Views | `C/WidgetClass/FileSystem.cpp` | folder shown, rows, map of folders | double click, back, refresh, create, delete | who waits for each answer sees the table |

### Hard behaviours

`PROJECT.json` lists 40 hazards with their lines. The groups:

- *Interleavings of pool threads on one connection*: the counter under a lock, the compare-exchange that
  elects the inserting thread, a task copied field by field while it is already visible.
- *`close()` against everything*: the reactor frees the SSL object, the map and the file while pool
  threads still use them; the test "handled < size" decides about removing a file.
- *Shared `QFile` and doubled answers on the client*: a repeated `SUCCESS` starts a second coroutine, and
  the two share the file position.
- *Wakeups without the mutex*: the buttons of `TProgress`, the control of a paused download.
- *Several database statements without a transaction*, two connections held at once by one thread.
- *Heaps with an index*: swaps and removals in `Timer` and `ServerHeap`; a mutex locked twice in
  `Timer::getNextTick`.
- *Limits*: the buffer pool, the bounded log, `MAX_FD`, and unsigned arithmetic on sizes.
- *Edge-triggered sockets*: what one event leaves unread (the read buffer, the backlog, the balancer's states),
  and a read error kept in an unsigned number.
- *Descriptors used again*: the connection object, the timer node, the balancer's entry of the last owner.
- *Answers of several threads to one client*: lists that mix, a list that overtakes the answer about a new
  folder, two sign-ups with one name.

## 2. Modules

| Module | Contents |
|---|---|
| `UploadWire` | the file as chunks (`NChunks`, `ChunkSize`, `LastSize`), the messages of an upload, the two directions of the stream |
| `UploadServer` | reactor, pool threads, connection object, disk and rows |
| `UploadClient` | `UdTool`, the coroutines of `asyncSendFileData`, the buttons |
| `Upload` | their composition, fairness, all properties |
| `UploadPromise` | the abstract specification: recorded at most once, one outcome told, success only when recorded |
| `UploadInv` | the inductive invariants: `IndInv`, as a conjunction of named parts, `BytesInv` about acknowledged bytes, and three that hold under a hypothesis |
| `UploadProofs` | theorems and proofs |
| `UploadMC` | the instances for TLC |
| `FileDb` | one user's account: the rows of `FileDir`, the space charged, the files, under concurrent requests |
| `FileDbProofs` | theorems and proofs about `FileDb` |
| `FileDbMC` | the instances for TLC |
| `Download` | a download from request to end: server tools, status word, waiting sender; client slots and destructor |
| `DownloadPromise` | the abstract specification: a copy that grows, is sealed once whole, and only then reported |
| `DownloadProofs` | theorems and proofs about `Download` and its refinement of `DownloadPromise` |
| `DownloadMC` | the instance for TLC |
| `Wire` | every message sent, by the serializer that writes it and the one that reads it |
| `Framing` | from TLS records through the read buffer to queued PDUs |
| `FramingMC` | an instance with records that arrive in pieces |
| `IndexedHeap` | the heap with its index that `Timer.cpp` and `ServerHeap.cpp` both contain, as operators |
| `Timer` | the idle timer over that heap, with its mutex |
| `Balancer`, `BalancerPromise` | servers, balancer and clients; what a load balancer is for |
| `Session` | a client after login: lists, folders, deletions that may fail half-way, and what it shows |
| `TableMC` | `FileDb` and `Session`, each in behaviours of its own, for TLC |
| `Account` | sign-up and sign-in, statement by statement, against the dialog |
| `LogQueue` | the asynchronous log |
| `Pools` | the buffer pool and the database connections, under the tasks that hold them |
| `Reactor` | accepting, handing over, closing, and descriptors that come back |
| `ClientProofs` | theorems and proofs about `Account` and about `Session` |
| `SharedProofs` | about what threads share: `Pools`, `LogQueue`, `Reactor` |
| `HeapProofs` | about `IndexedHeap`, and with it `Timer` and `Balancer` |
| `ProtocolProofs` | about `Framing` and `Wire` |
| `Parts`, `PartsMC` | the eight modules from `Wire` to `Reactor` other than `Session` in one specification, one part at a time |
| `PartsProofs` | a behaviour of `Parts` is one of each part; the types of all eight |

`FileDb` is not composed with `Upload`. `Upload` follows one transfer to its last byte and takes the rows that
other requests write as given (`priorRow`); `FileDb` follows many requests and takes a transfer as one step
between the making of the file and the insertion. They meet at `insertFileData`: `Upload` has its failures,
`FileDb` its statements.

### How state and actions correspond to the code

*Server.* A pool thread `w` holds one task (`job[w]`) and a program point (`pc[w]`). Every access to shared
state, every lock section and every compare-exchange is an action; local computation is merged into the next
one. `PutsTool` is `PutsStart` (doingTask's test of the status), `PutsLookup` (`firstCheck`'s queries),
`PutsOpen` (`createTask`), `PutsInit`, `PutsHandled`, `PutsStatus` (`UpDownCon::init`, which copies the task
field by field), `PutsReply`, `PutsQuick` (the row of a quick upload) and `PutsAgain` (the send at the end,
reached on every path). `PutsDataTool` is `DataStart`, `DataCount` (`lessEqualAddTaskHandleSize`), `DataCopy`
(`memcpy` into the map), `DataAck`, `DataFull` (the compare-exchange), `DataInsert`, `DataFinished`. The
reactor's `close()` takes three steps: mark, release, remove.

*Account.* `FileDb` has one action for each SQL statement of `MyDB` that changes or reads what another thread
may change. An upload is `RequestUpload`, `GetIsEnoughSpace`, `GetFileExist`, `Open` (`O_CREAT|O_EXCL`), then
`Transferred` or `Abandoned` (`close()` removes the unfinished file). `insertFileData` is `SelectNextId`, `InsertRow`, `Charge`;
`deleteOneFile` is `GetFileMd5`, `CountRows`, `DeleteRow`, `Credit`, `RemoveFile`; `deleteOneDir` is
`SelectChildren`, `DeleteChild` for each child of its result, `DeleteDirRow`. Its recursion is a stack of
frames (`op[w].frames`), each with the folder and the children still to delete; a failure anywhere returns
through all of them (`Done`), a success of a child goes back to the loop (`Succeed`).

*Client.* A slot is one action, because slots run one at a time on the worker's thread. A coroutine goes
`seek`, `read`, the check of the control word, `send`; the wait on the condition variable is three steps
(`Check`, `FallAsleep`, blocked), with the mutex held from check to sleep. A button stores the control word
and notifies in one step; it does not take the mutex, so it may fall between check and sleep.

*Download.* Each read and each store of `UpDownCon::status_` is an action, because four tools share the word
without a lock. `GetsTool` is `GetsStart`, `GetsLookup`, `GetsDoing`, then `GetsAccept` or `GetsRefuse`. `GetsDataTool` is
`DataBegin`, `DataSsl` and then, for each chunk, `DataChunk` (the copy out of the mapping), `DataPause`, `DataWait` and
`DataSleep` (`UpDownCon::wait`), `DataCancel`, `DataSend`; `DataEnd` stores FIN or CLOSE. `GetsControlTool` is `ControlCheck` and
`ControlApply`, `GetsFinishTool` is `FinishCheck` and `FinishAnswer`. On the client each slot of `DownTool` is an action;
`BeginStop` and `EndStop` are the destructor before and after it has waited in `SR_stop`.

*Parts.* `Framing`: `FSslRead` is one turn of the loop in `sslReadAll`, `FFrame` the inner loop of `handleClientData`,
`FAgain` the decision to read on. `IndexedHeap` has one operator per private method of the two heaps. `Timer`:
`TGetNextTick` is `getNextTick` with `tick` and `pop`, each with its lock. `Balancer`: one action per callback of
`Equalizer`, and per call that `Server` makes to it. `Session`: `CdTool` is `SCdSelect`, `SCdAnswer`, `SSendFileInfo`
(all rows under one lock, as the code holds `send_mutex_` for them); `CreateDirTool` is one action and an answer,
`DeleteTool` one action with the outcomes of `deleteOneFile` and `deleteOneDir` and an answer; the client's task
thread is `SDoing`, its GUI thread `SSlots` and the user's clicks. `Account`: `SignTool` is `AGetUserExist`,
`AInsertUser`, `ACreateDir`, `AInitCon`, `AAnswer`. `LogQueue`: `Log::write` is `LWrite`, `LCheck`, `LChangeFile`,
`LAppend`, split where it gives up its lock. `Pools`: `acquire`, `release`, `getConn`, `freeConn` as the tasks call
them. `Reactor`: `handleNewConnection` has one action per outcome, `closeCon` four steps; `Destroyed` is what a
connection on the same number does to one that is being closed, `RErase` then erases whatever the freed object names.

`Parts` composes nothing: the eight parts share no state in the model (they meet in the code where `Upload` and
`Download` take them as given), and a behaviour of `Parts` is one of one part. It exists so that one run checks them.

### Abstractions

- In `Upload` and `Download` messages travel whole: `Framing` and `Wire` look at what is below. That two coroutines may
  have `async_write`s on one stream under way together is left out.
- A payload is known only by whether it is the bytes of its own chunk; the file holds at each offset a hole,
  the right bytes or wrong ones.
- The database is two facts: a row existed before (`priorRow`), and how many this upload has inserted. The
  insertion and the charge of the space are two statements; either may fail, and what the caller learns
  is whether both worked.
- Undefined behaviour: a write to a freed or null SSL object either fails or ends the process; a copy through
  the null map ends it; a thread that still works for a connection whose object has been replaced (the
  descriptor was reused) may end it (`UseFreed`).
- The file may exist before the upload with a row (a quick upload follows) or without one (left by an upload
  that failed); `O_EXCL` then refuses it.
- Two actions merge two reads where this adds no behaviour: `Read` looks at the control word once (the code
  looks at it twice, and stop is never withdrawn), and `DataFull` reads the counter with the compare-exchange
  (a full counter never changes again). `CloseRemove` reads both sizes in one step.
- The idle timer's closing of a connection is one more cause for the same `close()`: `Download`'s `CloseCon` is either,
  `Upload` has the hang-up only, `Timer` looks at the deadlines.
- `FileDb` has one user: every statement names its user, so accounts do not meet. The user may be logged in
  several times. A client asks for what its view shows, and a view may be as old as one likes: `seen` holds
  every id and kind that a row ever had.
- `FileDb` keeps the space charged per content (`charged`), so that what is owed is a count; `Used` is the
  number the table holds. The column is signed, and a count may be -1 for a while: a thread may delete and
  credit a row whose insertion is not charged yet. `IsEnoughSpace` is the unsigned difference of the code.
- `insertFileData`'s first query finds only the depth of the row, which orders the view; it is left out. A
  folder is charged 0 bytes, so its insertion ends with the row.
- `PUTSCONTINUE` is left out: no client sends it.
- `Download` counts in chunks. `GetsFinishTool`'s answer and its store of CLOSE are one step, as nothing reads the word
  between them that could tell. `sound` is chosen at the start: whether what the server holds (and what a longer
  file left at the chosen path) hashes to the row's value. A send that fails is either a full socket or a dead
  peer, and may happen at any chunk. Two downloads do not meet except in the queue, so the run has one.
- `Wire` gives each field a byte count and each byte a name, so that a byte that lands elsewhere is seen; a tail
  is one of a few lengths. What `htonl` does, and that hosts are little-endian, is external.
- `Framing`: a cell is a byte or several that matter together (`FHeader` is 2 cells). With `FSplit` FALSE the network
  delivers whole records, which is what a PDU is to OpenSSL; several may arrive at once and the buffer must still
  be cut, moved and grown. With `FSplit` TRUE the run `framing` shows what becomes of a record in two
  pieces; the failed read of `FSslRead` happens only there, every other alternative of the eight parts in `parts`.
- `Timer` has one clock for all, and a step of the clock between any two others. `clear` and `doing` have no callers.
- `Balancer`: a state or a registration that is under way when the balancer crashes is lost. `~Server`, which would
  deregister, is not reached. `LoadBalancing`'s own buffers are not modelled.
- `Session` has one user with one client; other clients of the same account would only make the view older. `sHasty`
  and `sBehind` are histories that say when the view need not be right. The statements of `insertFileData`,
  `deleteOneFile` and `deleteOneDir` are one step here and many in `FileDb`; the step has every outcome they have:
  done, refused with nothing done, or FAILED with part of it done (the row inserted and the space not charged, the
  file's row gone and the file still there, a folder emptied in part). A new row gets the greatest id plus one and
  keeps the parent it is given, there or not. A folder that contains itself is never deleted (`endless`, or FAILED on
  the way), as in `FileDb`. A deletion names an id and a kind, and `getFileMd5` finds no folder. `sItems` keeps the
  items of the last list and the folders made since; `sShown` is a set of places in it.
- `Account`: passwords are compared as they are; `getUserInfo`'s second reading of the same row is left out.
- `LogQueue` gives a line its number when it is appended, since the order of lines written at the same time is theirs
  to choose. Days and lines per file are small.
- `Pools`: a task is a message with one connection, a quick upload with two, or none; the tools' other work is
  left out. A `char*` that `new` returns may be one that was freed before.
- `Reactor` has no idle timeout. A descriptor may come back while `closeCon` is still at it. If `closeCon` has only to
  erase it (`S/server/EventLoop.cpp:65`), the model goes on: `getSock()` of the freed object names the new connection,
  another one of this sub-reactor, or none, and a connection erased in another's place fails `loop`'s assertion when
  it hangs up (`RAssert`). Between `::close` and the count (`S/pool/ClientCon.cpp:37-41`) both threads close one
  object: the model notes it (`rUndefined`) and stops, and its properties say nothing of what follows. A refused
  descriptor is never closed (`rLost`).
- A client that is done never closes its connection: `~UdTool` waits in `SR_stop` for threads that wait for
  the server. `linkUp` turns false only when the client process or its network goes (`ClientDies`).

## 3. Runs

| Run | Instance | Shows |
|---|---|---|
| `upload_safety` | 2 chunks (2 bytes and 1), 2 pool threads (symmetric), 2 coroutines, no pause | `TypeOK`, `InsertOnce`, `ProgressHonest`, `AckedIsWritten`, `SuccessMeansStored`, `RowHasFile`, `CrashOnlyAfterClose`, `ClosedStaysUnfinished`, and that `Upload` implements `UploadPromise` (`PromiseKept`) |
| `upload_pause` | 1 chunk, 1 pause, fairness | `PauseHolds`, `EveryUploadEnds` |
| `upload_intact` | 2 chunks of 2 bytes | counterexample to `StoredIntact` |
| `upload_prior` | 1 chunk | counterexample to `PriorFileKept` |
| `upload_wake` | 1 chunk, 1 pause | counterexample to `ClickWakes` |
| `table` | `FileDb`: 2 pool threads (symmetric), contents of 1 and 2 bytes, capacity 2, 5 requests, 3 levels of recursion. `Session`: 2 pool threads, 3 ids, 4 clicks | `TableTypeOK` (with the uniqueness of ids), `NeverUndercharged`; `SNotStuck`, `SViewIsTable` |
| `filedb_parent` | `FileDb`, 4 requests | counterexample to `NeverOwnParent` |
| `filedb_quick` | `FileDb`, 4 requests | counterexample to `RecordedKeepsFile` |
| `download` | 1 download of 2 chunks, 2 pool threads, 2 presses of pause or continue, fairness | `TypeOK`, `DoneMeansWhole`, `GoneLeavesNoPartial`, `NoGap`, `EveryDownloadEnds`, and that each download implements `DownloadPromise` (`PromiseKept`) |
| `parts` | see below | `PartsTypeOK` and the properties of eight parts, `BPromiseKept` (the refinement of `BalancerPromise`) and `PFreedIdle` among them |
| `framing` | 4 messages, records in up to two pieces | counterexample to `FInOrder` |
| `timer_tick` | 3 descriptors | counterexample to `TTickReturns` |

| Part | Bounds in `parts` | Properties |
|---|---|---|
| `Wire` | every message and its copies; tails of 0, 1 and 7 bytes | `WReadBack`: each field arrives under its name with its value. `WLengthHonest`: the header's length is what was written, but for the four stale bytes after each PDU |
| `Framing` | messages of 3, 5, 4 and 3 cells, a buffer of 3, reads of 4 | `FInOrder`: what is queued is what was sent. `FNothingLeft`: the reactor never sleeps on a whole message |
| `Timer` | 4 descriptors, timeout 2, clock to 2 | `TFrontEarliest`, `TDeadlineIsOwn` |
| `Balancer` | 2 servers, 3 descriptors, loads to 1, 2 unread states, 1 waiting client | `BListsTheConnected`, `BPromiseKept` |
| `Account` | 2 clients, 2 names, 2 passwords, 2 threads, 3 clicks | `AOneOwner`, `AServedAs` |
| `LogQueue` | 2 threads, 5 lines, queue of 2, 2 lines to a file, 2 days | `LOnce`, `LOrder` |
| `Pools` | 4 threads, 2 of them reactor loops, 3 connections, 3 addresses, clock to 2 | `PSomeoneMoves`, `POneOwner`, `PFreedIdle` |
| `Reactor` | descriptors 5 to 8, 2 sub-reactors, `MAX_FD` 3, backlog of 2 | `RDrained`, `RCountHonest`, `RLimit` |

Why these bounds. Two pool threads are what it takes for a race between two tasks or between a task and
`close()`; a third would repeat the second's part, and the theorems cover any number. Two coroutines are all
there can be: `firstCheck` sends at most two `SUCCESS` answers. Two chunks, the second shorter, tell a full
chunk from the last one, let the two coroutines be at different chunks, and make the count reach the
total with the wrong chunks. `MaxPauses` bounds only how often the user presses pause. With one chunk the
liveness run still has both coroutines, both answers and all buttons. No run checks deadlock: a server
that has died, an upload that is over, or an account whose requests are used up, stops.

For the account: the capacity of 2 is one that a content of 2 fills and that two uploads which overlap pass
together, so each branch of `IsEnoughSpace` is taken. Five requests are enough to make a folder, fill it, delete
it and give its id out again while a second thread still works under it. `MaxDepth` cuts off recursions of
more than three levels; the endless one, which needs a row that is its own parent, meets the same row in each
frame. The theorems cover any number of threads, contents, requests and levels.

For the download: two chunks make a first, a last, and a place between them for a pause, a cancel or a close; two
threads let a control tool or the finishing tool run against the sender. Two presses are a pause and a
continue, or a continue that comes too early. Liveness is checked, so the run has no symmetry.

For the parts: the messages of `Framing` are sized so that the third fits only after the buffer has been moved, then
grown; four descriptors give a heap of three levels, where a removal can need either direction; two servers on
three descriptors let one come back on another's number; `Account`'s three clicks are a request, one that overlaps it and
one after both; a queue of two lets lines be queued, in the writer's hand and written directly at once; three
connections for two workers are the fewest that `PoolAssumption` allows (more connections than threads that run
tasks, as the shipped configuration of 10, 10 and 4 has it); `MAX_FD` of 3 with four descriptors lets one more come.
Sets of processes and values are symmetric; as one part moves at a time, parts share their model values.

For the session: the table starts with a folder and a file in it, and a third id is one to give out and to give out
again. Two threads let two lists mix and an answer overtake another's. Four clicks are enough to delete half a folder,
be told FAILED, go elsewhere and look again; or to put a folder into itself by way of an id given out again, which
takes three, and to delete it. `FileDb` and `Session` are in one run because both are about the rows of `FileDir`;
like the parts they move one at a time, and a view as old as one likes stands in `FileDb` for what `Session` shows.

Fairness of the download (`FairSpec` of `Download`): weak, for each pool thread, the reactor and the client's slots, for the
same reason as below. `EveryDownloadEnds` allows the server to give a transfer up without a word (`GivenUp`), as
`sendFileData` does when a send fails, and does not promise the confirmation: the client's FINISH may be handled before
the sender has stored FIN.

Fairness (`FairSpec`). Weak fairness for the reactor, each pool thread, the client's event loop and each
coroutine: each is a thread, or is run by threads, that the operating system schedules, and each action stays
enabled until taken or overtaken by the same thread. The user owes no click and the network never has to
fail. `EveryUploadEnds` speaks of a client that lives and never pauses; with a pause the run `upload_wake`
shows why more cannot be promised. It is stated for one chunk, where a repeated `SUCCESS` only repeats that
chunk; nothing is said there of longer files, whose second coroutine may end on a short read.

### What the code does not keep

1. `upload_intact`: `recvFileData` (`S/tool/LongTaskTool.cpp:229`) counts bytes, not chunks. The repeated
   `SUCCESS` starts two coroutines, the chunks of one are counted in place of the other's, and the row is
   inserted for a file with a hole. `src/README.md:16` says hashes verify the file; the server
   never hashes it.
2. `upload_prior`: `copyTask` (`S/pool/UpDownCon.cpp:53-54`) stores `file_size` before `handled_size`. A
   `close()` in between takes a quick upload for an unfinished one and removes the file stored earlier.
3. `upload_wake`: continue and close (`C/WidgetClass/TProgress.cpp:243`) store and notify without the mutex,
   and with `notify_one`; a coroutine can stay asleep.
4. `filedb_parent`: `insertFileData` (`S/sql/MyDB.cpp:68`) keeps the id of a parent that is gone, where its comment
   promises the root. If the deleted folder had the greatest id, the new row gets that same id and is its
   own parent; `deleteOneDir` of such a folder never returns.
5. `filedb_quick`: `deleteOneFile` (`S/sql/MyDB.cpp:155`) decides about the file by a count read before its row is
   deleted; a quick upload in between leaves a row without a file.

6. `framing`: `sslReadAll` (`S/server/EventLoop.cpp:341`) keeps `SSL_read`'s -1 in a `size_t`, takes it for a byte count and
   moves `write_pos_` back by one. Its branch for `SSL_ERROR_WANT_READ` (line 354) is never reached; a record that arrives in
   two pieces costs a byte that was already there.
7. `timer_tick`: `Timer::getNextTick` (`S/timer/Timer.cpp:103`) locks the mutex that `pop` locks again. The first connection
   that is idle for the timeout (30 minutes as shipped) hangs the main reactor, and then the sub-reactors.

Also met, and part of the model rather than findings, because nothing in the repository says otherwise: a refused
connection's descriptor is never closed and the rest of the backlog waits for the next client
(`S/server/Server.cpp:247`); a folder list that is empty is refused like a failed one, so the last file deleted stays
in view; a deletion that stops half-way (`S/sql/MyDB.cpp:141-165`, `191-201`) or a folder that is inserted and not
charged is answered FAILED, and the client asks for no list (`C/ToolClass/ShortTaskManager.cpp:155`, `171`), so that
the view is behind the table until a refresh; `PDU_BODY_BASE_LEN` (`S/protocol.h:121`) is four bytes too long, and as
much of an earlier message in the pooled buffer is sent along; the answer to `GETS` (`S/tool/LongTaskTool.cpp:373`)
counts eight bytes more than its string has, so the serializer reads past its end, and the client stops at the
string's NUL (`C/ToolClass/DownTool.cpp:281`); the log's configured queue size only switches the queue on
(`S/log/Log.cpp:53` constructs it with the default); a paused download keeps its pool thread, also after its client
has vanished.

## 4. Proofs

Eight modules hold 57 theorems that `PROJECT.json` lists, each for every value of the constants that the named
assumptions allow. Every safety property that a passing run checks is proved
(`TableTypeOK` as `AccountTypes` and `SessionTypes`), and so are the action properties
and the three refinements. For six of the seven statements that a run violates, a theorem says what would
be enough for it to hold; the seventh, `TTickReturns`, fails on the first timeout.

| Module | Theorem | Statement |
|---|---|---|
| `UploadProofs` | `TypeCorrect`, `Inductive` | `Spec => []TypeOK`, `Spec => []IndInv` |
| | `OneInsertion`, `CountBounded` | `[]InsertOnce`, `[](handled <= Total)` |
| | `AcksAreWrites`, `ProgressIsHonest` | `[]AckedIsWritten`, `[]ProgressHonest` |
| | `SuccessIsStored`, `RecordedFileStays` | `[]SuccessMeansStored`, `[]RowHasFile` |
| | `OnlyCloseCrashes`, `ClosedIsFinal`, `PausedHolds` | `[]CrashOnlyAfterClose`, `ClosedStaysUnfinished`, `PauseHolds` |
| | `UploadImplementsPromise` | `Spec => PromiseKept` |
| | `OneSenderIsIntact` | `[](OneSender /\ serverUp => StoredIntact)` |
| | `PriorFileStays` | `[]PriorFileKept`, without `RemovalBetween` |
| | `ClicksWake` | `[]ClickWakes`, with `OneSender` and without `ClickBetween` |
| `FileDbProofs` | `AccountTypes`, `ChargesCover` | `[]TypeOK`, `[]NeverUndercharged` |
| | `OnePerContentKeepsFile` | `[]RecordedKeepsFile`, with `OnePerContent` |
| | `OneUploadStaysWithin` | `[](Used <= Capacity)`, with `OneUpload` |
| | `RuleKeepsOwnParent` | `[]NeverOwnParent`, without `InsertsIntoMissing` |
| `DownloadProofs` | `DownloadTypes`, `DoneIsWhole` | `[]TypeOK`, `[]DoneMeansWhole` |
| | `NoPartialLeft`, `ChunksFollow` | `[]GoneLeavesNoPartial`, `[]NoGap` |
| | `DownloadImplementsPromise` | `Spec => PromiseKept` |
| `ClientProofs` | `SignInTypes`, `OneAccountOwner`, `ServedAsShown` | `[]ATypeOK`, `[]AOneOwner`, `[]AServedAs` |
| | `SessionTypes`, `ListsNotStuck`, `ViewIsTable` | `[]STypeOK`, `[]SNotStuck`, `[]SViewIsTable` |
| `SharedProofs` | `PoolTypes`, `SomeoneMoves`, `OneBufferOwner`, `FreedIdle` | `[]PTypeOK`, `[]PSomeoneMoves`, `[]POneOwner`, `PFreedIdle` |
| | `LogTypes`, `EachLineOnce`, `OrderKept` | `[]LTypeOK`, `[]LOnce`, `[]LOrder` |
| | `ReactorTypes`, `CountIsHonest`, `LimitIsKept`, `BacklogIsDrained` | `[]RTypeOK`, `[]RCountHonest`, `[]RLimit`, `[]RDrained` |
| `HeapProofs` | `TimerTypes`, `FrontIsEarliest`, `DeadlineIsOwn` | `[]TTypeOK`, `[]TFrontEarliest`, `[]TDeadlineIsOwn` |
| | `BalancerTypes`, `ListsTheConnected`, `BalancerImplementsPromise` | `[]BTypeOK`, `[]BListsTheConnected`, `BSpec => BPromiseKept` |
| `ProtocolProofs` | `WholeRecordsAreRead` | no `SSL_read` returns -1 where records arrive whole |
| | `FramingTypes`, `QueuedInOrder`, `NothingStaysBehind` | types, `[]FInOrder`, `[]FNothingLeft`, without `FReadFails` |
| | `WireTypes`, `FieldsReadBack` | `[]WTypeOK`, `[]WReadBack` |
| | `LengthIsHonest`, `HeaderIsRead` | `[]WLengthHonest`, `[]WHeaderRead` |
| `PartsProofs` | `PartsTypes` | `[]PartsTypeOK`, without `FReadFails` |

"With P" is the hypothesis `[]P`, about the states; "without A" is `[][~A]_vars`, that no step is an A.

Assumptions, each beside the constants it speaks of:

| Assumption | Says | Because |
|---|---|---|
| `ChunkAssumption` | at least one chunk, none empty, the last no longer than the others | `setTranPdu` computes them; empty files are left out |
| `PausesAssumption`, `DownloadAssumption` | bounds are numbers; a download has a chunk | the same |
| `AccountAssumption`, `DirAssumption` | types; finitely many threads and contents; a folder is not a content | `Used` is a sum over the contents |
| `PoolAssumption` | more connections than threads that run tasks; `NoBuffer` is no buffer | the configuration shown in `src/README.md`: 10 connections, 10 threads, of which 4 run reactors |
| `LogAssumption` | the queue and a file hold at least one line | the queue's default capacity is 1000 (`S/log/BlockDeque.h:13`; `Log.cpp:53` passes none, whatever `logqueSize` is), `MAX_LINES` is 50000 |
| `ReactorAssumption` | finitely many descriptors, numbers; one sub-reactor or more | the kernel gives the lowest number free |
| `SessionAssumption` | two ids or more | the table starts with two rows |
| `TimerAssumption`, `BalancerAssumption` | bounds are numbers | |
| `FramingAssumption` | bodies are lengths, reads ask for a byte or more | `sslReadAll` is called with 4096 |
| `WireAssumption` | lengths of tails and the buffer's size are numbers | |

### Upload

None of the properties is inductive alone. `IndInv` (`UploadInv`) adds, in layers:

- `TypeInv`: the step of a thread determines the kind of message it holds and the verdicts it can have; a
  coroutine that runs has a chunk to send.
- `OrderInv`: there is one request. It is in the stream, in the queue, being checked by one thread with all
  others idle, or answered. Before it is answered the client sends nothing, so the setup of the connection
  meets no data task. This is what makes the unlocked copy in `init` harmless to pool threads, and it is
  where the proof uses that a client sends nothing before `SUCCESS`.
- `InsertInv`: while the status is DOING nobody has begun to insert; a thread that inserts has taken DOING
  away (compare-exchange), and nobody brings it back.
- `CountInv`, `FullInv`: the count stays within the total (check and addition under one lock), is full for
  a thread that inserts, and then stays full.
- `PriorInv`: which path a thread is on agrees with the row that existed before.
- `FileInv`: the hard one. While DOING and open the file exists. After `close()` has begun, DOING
  can come back (a request still being prepared overwrites CLOSE), but then no data task waits or runs and the
  reactor frames no more, so nobody can insert after the removal. A thread that is to insert has a full
  count, so `close()` does not remove the file.
- `SuccessInv`, `PhaseInv`: who announces a success has seen the row; nothing is told twice.
- `MapInv`, `WrittenInv`: a thread that copies has the map unless `close()` released it; an acknowledgement
  follows its copy.

`IndStep` splits on the actions of `Next` (server, client, link), and each layer has its own lemmas, one per
action group. `ClosedIsFinal`, `PausedHolds` and `UploadImplementsPromise` use `IndInv` as an invariant and look at one step.

`ProgressIsHonest` needs a sum, and a sum over a sequence is an induction over data. `BytesInv` avoids it by counting
partial sums: there is a function that rises by one message's weight at each place of the stream (`Brings`), from what the
client shows to some number that is due, and that number with the bytes of threads that have counted and not yet
answered (`Owed`) is at most what the server counted. Sending extends the function by a place, handling drops its
first. A quick upload shows the whole size at once; its answer comes while nothing else is under way.

### Account of one user

`TypeOK` of `FileDb` is inductive because it includes `OpOK`, which ties the step of a thread to what its
operation must hold, and the uniqueness of ids, which the insertion keeps by the primary key and nothing else
does. `NeverUndercharged` is inductive relative to it: it counts, beside rows and charges, the threads that are
between a row and its charge and between a deletion and its credit. `InsertRow` and `DeleteRow` move a row into
one of these counts, `Charge` and `Credit` move it on (`OwesMore`, `OwesLess`), and every other action
leaves both counts and the charge alone and adds no row (`Aside`). That a credit follows only a deletion that
removed a row is the test of the affected rows at line 141. The opposite inequality does not hold:
`DeleteDirRow` may remove a file's row and returns no space.

### Download

`IndInv` of `DownloadProofs` is `TypeInv` (a thread's step fits the message it holds) and, of each download, `DownInv`:

- `OneRequest`: the request for the file, or after its answer the request for the data, is in one place and once: the
  stream, the queue, a thread, or the answer. Hence one thread sends, although nothing in the server prevents two.
- `AskInv`: until the client has taken the answer out, nothing else has begun.
- `DataInv`: `handled_size` is where the sending thread's own index is, and 0 before it starts.
- `StreamInv`: as long as the client has its file open, the stream carries the chunks from the one it expects to the last
  one sent and nothing else, so `handled` is `recv` plus their number. A pause, a cancel or a close takes nothing out of
  the middle.
- `EndInv`: a file taken for whole has all chunks and the right hash; what is confirmed, or asked to be, is whole; what
  is given up is gone.

The refinement then looks at one step at a time: a slot grows, seals or drops the copy, or tells the user, and every
other action leaves what `DownloadPromise` sees alone (`Keeps`, `Receives`, `Drops`, `Tells`).

### Sign-in and views

`OneAccountOwner`: threads look a name up and insert it in two statements. `OwnInv` says that a name in the table has one
owning thread until its sign-up is reported, since the key lets one insertion through, whoever looked first. `ServedInv`
follows a client that never had two requests under way: its request is in one place, and whom the answer names is whom the
connection serves.

`ListsNotStuck`: lists asked for at once mix their rows. `CountInv` says that whatever is counted, or will be counted when an
answer is handled, comes in one piece: its rows are still owed by a thread (`Owed`) or stand in the stream
(`Ahead`) behind that answer; so the count returns to zero when all is quiet.

`ViewIsTable` is about a user who waits for each answer. `ViewInv` says that then one thing at a time is under way:
nothing (`Settled`), a request (`Requested`), a list that is selected, announced, sent, collected and complete
(`Listed`), a refusal, or another operation between its statement and its signal (`Replying`, `Replied`, `Signalled`),
and each says how the view differs from the table: not at all, by the one folder that was made, or in whatever way,
because a list is asked for next or because the view is behind (`sBehind`). A view gets behind where the client is
told nothing: by a list the server refuses, or by a request answered FAILED with part of its work done. `Current` says
that the view is behind or shows the table, and that is all the proof takes of it: `initView` makes a view of nothing
but the new list and the current folder's id, so that wherever the user has gone, and whatever he has asked to delete,
the next list that is shown puts things right. `Closed`, that rows are only in folders that exist, is what the back
button needs: the parent of the current folder is in the map. It survives a deletion that stops half-way because a
folder goes after what is in it.

Two things are excluded (`sHasty`). One is acting while a request is under way. The other is making a folder in a view
that is behind: it may be put into a folder that is gone, the list has then a folder without a parent, Back from there
leads to no folder, and the next one made is shown where it is not. A thread in an endless recursion (`Endless`) is
the exception, as no answer comes.

### What threads share

- `Pools`: `PlaceInv` has each buffer in one place, `StampInv` says the pool's time stamp is that of its return, `ConnInv` that free
  connections, holders and holders of two add up to `PConns`. If all waited for a second one, each would hold one and
  none would be free: as many connections as threads, against `PoolAssumption`.
- `LogQueue`: `QueueInv` (what is queued is increasing, after the line in the writer's hand, and in no file yet), `FileInv` (no line is
  in the files twice), `AllInv` (each number given out is in a file, in hand or in the queue).
- `Reactor`: `Stages` relates the descriptors that are watched, open and refused to the step of `closeCon` each
  sub-reactor is at; `Accounts` says that `rCount` is the number of objects that are open, at most `MAX_FD`. A number
  that comes back when `closeCon` has only to erase it leaves both true, whatever is erased. One that comes back
  between `::close` and the count does not, since two threads then take the count down for one object; that is
  `rUndefined`, and nothing is proved of it.

### Heaps

`IsHeap(S, h)` says that the map is the index of the nodes; `Ordered` that no node is under a greater one. `Loose` allows one place to
disagree with the places next to it. `Rising` and `Sinking` are the loop invariants of `siftUp` and `siftDown`: their loops are recursive
functions of the turns taken, and a step of the proof about turn k uses turn k - 1 for the least k that fails. `AddIs`, `PopIs`,
`AdjustIs` say what the methods do to `HeldBy(h)`, which forgets places: what a user of a heap knows. `Added` and
`Replaced` are their statements, so that a proof about `Timer` or `Balancer` opens them only where it needs to.

`Timer::adjust` only sifts down. That is enough (`SinkingIsEnough`) because a deadline only moves to later; `TInv` has no deadline
later than the timeout from now, also for the node that a new connection takes over from the last owner of its number.
`Balancer`: `BInv` has one entry for each connection, with the server of its own, and an edge only where a state is
unread. Each step is a step of `BalancerPromise` on `HeldBy(bHeap)`.

### Framing and wire

`Framing`: `FInv` is `FTypes`, `FStream` and `FQuiet`. `FSocketIs` says what has arrived: whole records, one message each and in
order, of which the last may be a piece whose rest is still on its way (`FirstPiece`, `LastPiece`). A `Run` is a stretch of what the
client sends without gaps. `FStream` says that what can be read in the buffer and what OpenSSL holds make one run,
from behind what was queued to the first message in the socket. `FQuiet` says that no whole message is left in the buffer
when the reactor waits or looks again, and that an idle reactor has left nothing in OpenSSL, and in the socket
only what an edge will report. `Ensured`, `Stored` and `ReadAppends` say that moving and growing the buffer loses nothing;
`CutIs` is the invariant of the loop that cuts messages.

`FReadFails` is the step that takes `SSL_read`'s -1 for a count: the reactor reads while the first record in the socket is a piece.
The theorems about `Framing` exclude that step and nothing else, so records may be cut as the network likes if
they are complete when they are read. `WholeRecordsAreRead` derives the exclusion from `~FSplit`, with which `parts` is
run; the run `framing` shows that `FInOrder` is false without it (section 3, finding 6).

`Wire`: writing and reading are passes over lists of fields. `OutsAre` and `LaidOut` say which bytes the first pass leaves at each
offset, `NetTwice` that a number put in network order twice is itself, `ReadIs` and `Finds` that a pass over the same list finds
each field where the other left it, its tail as long as the length that was read before. That sender and receiver
have the same list, and how long it is, is looked up for each message (`PDUList` to `ServerStateList`); `Surplus` is the
four bytes by which `PDU_BODY_BASE_LEN` is too long. The proof covers tails of any length, where the run tries three.

### What the violated statements take

A run that ends in a counterexample says that a statement is false, and nothing of why. These theorems name what
the counterexample uses, as a condition on states or a step, and prove that the statement holds where that does not
happen, whatever else overlaps.

| Statement | holds if | Invariant |
|---|---|---|
| `StoredIntact` (finding 1) | one coroutine has been started and the process lives | `IntactInv` |
| `PriorFileKept` (2) | `close()` does not remove between the two stores of `init` | `QuickInv` |
| `ClickWakes` (3) | there is one coroutine, and no press falls between its check and its sleep | `AwakeInv` |
| `NeverOwnParent` (4) | no row is inserted under a parent that is missing, which is what the comment says | itself |
| `RecordedKeepsFile` (5) | at most one thread at a time relies on what it was told about a content | `KeepInv` |
| `FInOrder` (6) | no `SSL_read` returns -1 | `FInv` |
| `Used <= Capacity` (a hazard, not a finding) | at most one upload is between the check of the space and its charge | `LimitInv` |

- `IntactInv`: the coroutine reads each chunk at its place; the chunks not yet taken are in order; each chunk is coming, held by
  one thread, or in the file; and the count is the bytes of the chunks that are in the file or being copied
  (`HandledInv`). With a full count and nobody copying, no chunk is missing. The process has to live, because
  `close()` may unmap, once the row is there, under a thread that has counted and not copied. A second coroutine is what
  the second `SUCCESS` starts.
- `QuickInv`: a row that existed before has its file, and the connection looks unfinished to `close()` only at the step
  `handled` of the thread that prepares it.
- `AwakeInv`: unless paused, no coroutine is asleep or falling asleep. TLC finds a violation when either hypothesis
  of `ClicksWake` is dropped: `notify_one` chooses between two sleepers, or comes before the only one sleeps.
- `KeepInv`: what a thread was told about its content (no row, one row, a file) is still so when it acts. Threads with
  different contents, deletions of folders and stale views do not disturb it.
- `LimitInv`: beside the limit, an upload that has passed the check would still fit. `Used` is a sum that the community module
  defines recursively over sets, in an order that CHOOSE picks; `SumsUpToAny` and `SumExists` show that there is such a
  function, by the least number of contents for which there is none, and `SumChanges` that it changes by what one
  content changes by. Without the hypothesis TLC finds `Used > Capacity`, from where the server's unsigned difference wraps.

### How induction is done

Induction over numbers would be by a theorem that takes an operator. Instead a proof takes the least number that fails (`WFMin` of
the library's theorems, over a set), so that loops written as recursive functions can be proved about. For the
same reason no module that is proved about has a RECURSIVE operator.

### Only model-checked

The liveness properties `EveryUploadEnds` and `EveryDownloadEnds`: liveness under fairness is outside what TLAPS proves. That the
seven statements of section 3 are violated is what TLC's counterexamples show.

## 5. Plan

Done: all modules of section 2, their runs, the proof of every safety property those runs check, and for each
violated statement that something could save, what that is. Whoever changes the code will want to look first at the
hypotheses above: a fix is a change that makes one of them true (an answer that cannot repeat, the two stores of `init`
under the lock of `close`, a notification under the mutex, a count and a deletion in one transaction, a signed
return value), and the theorem then says what the fix buys.

## 6. Not modelled

Qt widgets and layout, dialogs, icons, the search box and `UserInfoWidget`, which shows what the login returned; the
configuration files; OpenSSL, MySQL and epoll beyond their results; the stopping rules of Boost.Asio.

Code that is never called: `Server::handleClientData`, `handleClientTask` and `getTool` (the sub-reactors have their own),
`Timer::clear` and `doing`, the serializer pairs no program uses, `PUTSCONTINUE`, and whatever runs only in destructors of the server
(`~Server`, `closePool`, the draining of the log), since `Server::start` does not return.

Not composed: framing, dispatch and closing of one connection are in three modules, and the idle timeout is in
`Timer` only. A model with all of them would be the product of state spaces that are each as large as TLC can take, and
what they share is small: a connection is closed, once, at any time, and each module allows that.
