# simpleKvSvr in TLA+

simpleKvSvr is a key-value server in C++, kept in three versions:

* **v1**, `src/simplekvsvr`: an accept loop and worker threads over a
  memory-mapped array of fixed-size records;
* **v2**, `src/simplekvsvr_v2`: a pipeline of thread pools joined by bounded
  queues, over an append-only log that is compacted in the background;
* **v3**, `src/simplekvsvr_v3`: a pool of processes fed through a queue in shared
  memory.

The modules in this directory model the parts of it where threads, processes,
crashes and files meet, and its sequential data structures. TLC checks them on
small instances. For every instance TLAPS proves the safety of both queues and
that each implements the same bounded FIFO, of the pipeline of v2, of the v1
index, which implements the key-value map, of the v1 server, and of the life
cycle of the v3 pool, and that the index of the v2 store knows what is set.

## Inventory

| Part | State | Operations | Meets |
| --- | --- | --- | --- |
| v2 queue, `queue.h` | ring `queue`, `head`, `tail`, four semaphores | `enqueue`, `dequeue` | joins every pair of thread pools of v2 |
| v2 store, `simplekvstore.h` | `fileList`, `fileNum`, manifest, the files | `initlization`, `check`, `getVal`, `setVal`, `delVal`, `diskIO`, `rebuildFile` | gets tasks from the logic layer; starts rebuild threads |
| v2 log files, `datanode.h`, `record.h` | descriptor and its position, `totalOffset` | `createAndOpen`, `appendRecord`, `getRecord`, `resetNode` | used by `diskIO` and rebuild threads at once |
| v2 index, `simplekvindex.h` | map from key to (node, offset), a mutex | `saveVal`, `getVal`, `delKey`, `compareAndSet` | shared by the same two, and by `stats` |
| v2 logic layer, `kvlogiclayer.h`, `task.h` | tasks in two queues | `inThread`, `outThread` | network layer above, store below |
| v2 network layer, `kvnetworklayer.h`, sockets, `epoll.h` | fd queue, one-shot epoll set | `epollThread`, `inputThread`, `outputThread`, `run` | clients, logic layer |
| v2 LRU cache, `cache.h`, `linkedlist.h` | linked list, index | `getCache`, `addToCache`, `removeTail`, `deleteCache` | constructed by the store, every call commented out |
| v1 index, `NewKVIndex.h`, `DataNode.h` | `kv_`, mapped file `store_`, cache ring | `Start`, `Resize`, `Set`, `Get`, `Delete`, `Exist`, `EraseCache` | called by every worker under one mutex |
| v1 worker, `main.cpp` | one request | `Process` | `Exist`, then `Get`, in two critical sections; answers and closes a descriptor |
| v1 loop, work queue, pool: `KVSvr.h`, `workqueue.h`, `ThreadPool.h`, `Worker.h` | descriptors, queue of requests | `Run`, `Push`, `Pop` | clients, workers |
| v1 old index, `KVIndex.h` | map, free list, mapped file of bytes, cache ring | `Start`, `Quit`, `Resize`, `Insert`, `Delete`, `Set`, `Get` | no longer included |
| v3 queue, `shm_cqueue.h/.cpp` | ring of nodes, mutex, two condition variables, `m_bShutDown` | `Enqueue`, `Dequeue`, `Shutdown`, `Alloc`, `Release` | shared by processes |
| v3 pool, `processpool.h/.cpp` | child pids, the queue pointer | constructor, `Start`, `AddTask`, `KillAll`, destructors, `Run` | forks consumers of the queue, kills them by SIGINT |

What is hard in it, and the properties that make each part right:

* **v2 queue.** Producers and consumers use different mutexes and meet only
  through `full` and `empty`. No slot may be lost or raced for, objects must
  come out once and in order, and threads must not sleep beside work.
* **v2 store.** The rebuild thread reads, appends and compares while `diskIO`
  sets and deletes; both seek and read on one descriptor; a node is closed,
  renamed and freed under a reader; several rebuild threads may run; the process
  may die between any two system calls. The store must be a map, must find after
  a restart what was set, and must let compactions end.
* **v1 index.** The cache ring is a second copy of the records, with iterators
  into a map whose elements are erased; a get is two critical sections; the file
  is mapped, so a crash keeps every store done so far. The cache must never
  answer an old value and the file must always be recoverable.
* **v1 server.** A request travels as a descriptor number, which is given out
  again as soon as a worker closes it; the queue notifies after its unlock; the
  accept loop waits for one connection at a time. Each descriptor must have one
  holder, and each client must get its own answer, once.
* **v1 old index and v2 LRU cache.** Not concurrent, but long sequences of legal
  calls put blocks together and split them, and move a tail pointer around.
  The free list must be exact, values intact, the list in order of use.
* **v2 layers.** A connection is armed again by one thread while others wait for
  it; commands of one connection are in several stages at once, and some answers
  take a shorter way; connections end while answers are under way. No connection
  may be read by two threads, every line must be answered once, to its own
  connection, and connections must not block each other.
* **v3 queue.** Messages of several nodes wrap around; each operation signals a
  single sleeper that may have no use for the signal; shutdown is unlocked; a
  consumer can be killed with the mutex or a message in its hands.
* **v3 pool.** The segment outlives the process that made it, and a program that
  finds one goes on without a queue; the destructors wait for children that may
  sleep for ever. The key must be free again after an orderly end, and the
  destructors must end.

`PROJECT.json` lists the hazards one by one with their lines.

## Modules

| Module | Models |
| --- | --- |
| `BoundedFifo` | abstract: a bounded blocking FIFO, and one that can be closed |
| `KVMap` | abstract: a key-value map, one command at a time, with crashes |
| `SemQueue` | v2 queue; implements `BoundedFifo` |
| `SemQueueProofs` | the theorems about `SemQueue`, with the refinement |
| `SimpleKVStore`, `MCSimpleKVStore` | v2 store, index and log files; implements `KVMap` under the conditions below |
| `SimpleKVStoreProofs` | the theorems about `SimpleKVStore`, with the refinement |
| `Pipeline`, `MCPipeline` | v2 network and logic layers, with the store as one stage |
| `PipelineProofs` | the theorems about `Pipeline` |
| `LruCache` | v2 LRU cache |
| `CacheRing` | the ring of cached values both v1 indexes have |
| `NewKVIndex`, `MCNewKVIndex` | v1 index and the commands of its workers; implements `KVMap` for a client with its own keys; extends `CacheRing` |
| `NewKVIndexProofs` | the theorems about `NewKVIndex`, with the refinement |
| `KVIndexAlloc` | v1 old index; extends `CacheRing` |
| `MCSequential` | `KVIndexAlloc` and `LruCache` side by side, for one run |
| `SequentialProofs` | the theorems about `KVIndexAlloc` and `LruCache` |
| `KVSvr` | v1 accept loop, work queue and workers |
| `KVSvrProofs` | the theorems about `KVSvr` |
| `ShareQueue`, `MCShareQueue` | v3 queue with its processes; implements the closable `BoundedFifo` |
| `ShareQueueProofs` | the theorems about `ShareQueue`, with the refinement |
| `TaskProcessPool`, `MCTaskProcessPool` | v3 pool, over `ShareQueue` |
| `TaskProcessPoolProofs` | the theorems about `TaskProcessPool`; extends `ShareQueueProofs` |

### SemQueue

One action per `sem_wait`, `sem_post` and access to `queue[head]`, `head`,
`queue[tail]`, `tail`, in the order of the source; `pc[t]` names the next one. A
semaphore is a natural number and waiting is a guard. Threads either enqueue or
dequeue on a given queue, as in every layer of v2. Consumers call `dequeue` in
an endless loop, producers call `enqueue` when they like. `used()` only reads a
semaphore and is left out.

In the refinement an object counts as queued when `head` moves past it and as
handed out when its slot has been read.

### SimpleKVStore

`io` is the `diskIO` thread, `reb[r]` the thread the r-th rotation starts. Commands
come in with `CallWrite` and `CallGet`, as tasks dequeued from the store's work
queue. Then:

* `setVal`, `delVal`: `CheckSkip` or `CheckCreate`, `CheckManifestNum`,
  `CheckManifestName` (the two writes to `manFile` are two steps), then
  `AppendStart`, `AppendFinish` and `UpdateIndex`;
* `getVal`: `GetLookup` under the index mutex, `GetSeek` and `GetRead` after it;
* `rebuildFile`: `RebuildStart`, then per record `RebuildSeek`, `RebuildRead`,
  `RebuildSeekEnd`, `RebuildWrite`, `RebuildCompareAndSet`, and at the end
  `RebuildSwap`, `RebuildRename`, `RebuildReopen`, `RebuildFree`;
* `initlization`: `CrashRestart`, a death of the process and its next start.

Files are inodes, so that a rename moves one and an open descriptor keeps the
old one. `latest` is a history variable: the value a key should have. `reply` is
the answer of the last command and empty while one is under way.

`OFFLIMIT` is a variable that never changes: the constant `Bounds` maps each of its
values to the keys, writes, faults and gets of the instance with that value, so
that one run checks instances of different shape. `CrashAt` names the steps at which
the process may die, `WritesAfterTorn` whether commands write behind a torn record.

Abstractions, each chosen so that it hides no step another thread could see:

* a record has length one, and so `OFFLIMIT` is a number of records. A record is
  written whole or torn (`AppendFault`, and between `AppendStart` and
  `AppendFinish`); its bytes are not modelled. A reader that starts at a place
  that is no record boundary gets `Garbage` or an error;
* the three reads of `getRecord` are one step. The `lseek` before them is
  another, because the other thread may move the position in between. A seek
  between two of the reads is left out: like one before them it gives a record
  other than the one at the offset, in the lengths of one and the bytes of
  another;
* `Garbage` also stands for the lengths `getRecord` leaves uninitialised at the
  end of a file and for what a descriptor number gives when it was closed and
  given out again;
* a scan stops at a torn record, since nothing behind it can be parsed. `TornTail`
  is the state in which the active file ends in one;
* `MaxGets` counts the gets that come while a compaction runs, each of
  which can make it read on, since both use the position of one descriptor. In a
  clash a thread may come to read the file it writes; `MaxOffset` ends that;
* the memory of a deleted `DataNode` and the number of its descriptor may be given
  to another one. A thread that still uses a deleted node therefore works on that
  node or on any other (`StandsFor`): a get that looked its position up before, and
  the second of two threads that rebuild one `DataNode` (`Old`, `RenameTargets`). The
  latter also deletes it a second time, which may close or delete any node
  (`RebuildFree`), or make `free` abort (`RebuildAborts`). `clashed` is a history
  variable: such a thing began since the server started;
* `manFile` exists: creating it on the first start is not a step;
* the cache, `hits`, `miss` and the sizes `stats` prints are no state.

### Pipeline

A task is a record of its connection, its number, its kind and its `CMD`. Each
queue is a sequence with atomic operations, which `SemQueue` shows to be right.
The stages are the threads `test.cpp` starts:

* `run`: `Accept` arms a connection for one event;
* `epollThread`, several of them: `EpollWait` takes any set of ready connections,
  in any order, and disarms them; `EpollEnqueue` moves them one by one to `fdQueue`;
* `inputThread`: `InputLine`, `InputNoLine` and `InputEnd` are a dequeue and the
  three results of `readline`; then `AddTask` and `Rearm`;
* `inThread`, `diskIO`, `outThread`: `Take` a task and `Pass` it on;
* `outputThread`: `OutputSend`, and after a quit `OutputShutdown` and
  `OutputDeleteEvent`.

Clients send lines (`SendLine`), beginnings of lines (`SendPart`) and close their
side (`HalfClose`) at any time. A kind of line stands for all that take the same
way: `get` for gets, `set` for sets and deletes, `quit`, `bad` for what
`errorReq` answers in `inThread`, `stats` and `blank`. A beginning of a line that
is never completed is also what a line longer than the buffer of `readline` looks
like. The constant `Loads` says what the clients of a run may send together.
`fdQueueSize` is the size that the network layer is given, `queueSize` that of the
other two.

Abstractions:

* a dequeue and what its thread does next alone are one step, since nobody else
  sees the object in between;
* the store executes a command in one step, and a command that fails takes the
  same way back, since `outThread` only writes another answer;
* `new Task()` leaves `CMD` as the memory was, and `errorReq` does not set it: it
  may be that of a quit or any other number;
* clients read their answers, so that sending does not block, and do not reset
  their connections; `recv` does not fail;
* sending to a connection that is shut down for writing ends the process by
  SIGPIPE, which nobody handles: `died`, after which nothing happens;
* `hasty` is a history variable: the clients that sent something, or closed,
  before they had all answers, or sent something after `quit`.

### LruCache

The nodes are numbers, 0 the head node, and `next`, `prev` and `lruTail` are the
pointers of the code; a freed node has no `content`. Each method is one action
(`GetHit`, `GetMiss`, `AddToCache` with its `removeTail`, `DeleteCache`), made of
`Unlink`, `AddToHead` and `MoveTailOff`, the methods of the list. `recent` is a
history variable, the cached tasks by their last use. A key is added only when it
is not cached, as the calls in `simplekvstore.h` that are commented out do.

### NewKVIndex

Every method of `KVIndex` runs under `mutex_`, so each is one action. A `get` is
two, `Exist` and `Get`. Inside `Set` and `Delete` the effects of `EraseCache` on
the map and on the iterators in `cache_element_` are operators of `CacheRing` on
the pair of both. `kv_[key]` on an absent key inserts an element of zeroes
(`NewEntry`). An iterator to an erased element is `Dangling`; writing through it
changes freed memory, which may by now be any other element.

The file is mapped shared, so `Crash` keeps `store`, while `CrashInSet` is a death
between the old record's expiry and the new record. `SetResizeFails` is a
`Resize` whose `ftruncate` or `mmap` fails, after which `store_` is no mapping
until the next `Resize`; touching it is a crash. `MemoryRecycle` has no caller.

`uses` says which keys each client uses and never changes; the constant `KeyUses`
has the ways a run may begin with. Any client deletes any of its keys at any time,
also one that is not there: that expires slot 0 (`DeletedSlot`), the record of another
key (`InSlot0`). `latest` says what each key should hold and is not read from the file
at a start; `lost` names the keys whose records went that way, which are served until
the next start. Where no two clients share a key (`Apart`) one client is compared
with `KVMap`.

### KVIndexAlloc

The store is a function from offsets to bytes, 0 or a letter, and the free list a
sequence of `<<head, tail>>`. A set consists of the steps in which it can leave
the index: `Set` deletes the old value, `Resize` or `ResizeFails` doubles the file
or not, `Insert` takes the first block that fits. `Released` is what `Delete` does
to the list, `Extended` what `Resize` does, `ScannedBlocks` what `Start` finds in
the bytes of the file; `QuitAndStart` writes the key file and reads it again.

### KVSvr

`main` is the accept loop: `Start`, `Accept`, then `Receive`, `RecvFails` or
`SelectFails` for the one connection it has, then `Notify`. A worker pops
(`PopTake`, `PopWait`), processes, writes and closes. `Push` and `Pop` hold the
mutex from their first access to the queue to the last and are one step each; the
`notify_one` of `Push` comes after the unlock and is a step of its own. `open[fd]`
is the client a descriptor is connected to; `Accept` takes the smallest free one,
as the kernel does. Clients connect, send one request, and may leave before the
answer; a request that lacks a word ends the process (`alive`), as does the second
write to a client that left, by SIGPIPE. What a command does to the index is not
in this module but in `NewKVIndex`.

### ShareQueue

What happens to the ring between `pthread_mutex_lock` and the unlock or wait is
one action, since nobody else reads it; `m_bShutDown` is tested outside of the
protection of the mutex by its writer, so testing it (`EnqNoRoom`, `DeqNothing`)
and falling asleep (`CondWait`) are two actions, and `Shutdown` is three. A
signal moves one sleeper, any one, to the lock; a broadcast moves all. `Kill`
stops a consumer at any step and keeps the mutex locked if it held it.

Nodes that were dequeued are set back to `NewNode`. The code leaves the old bytes
there; they are always written before they are read, so this only keeps the
state space small. The signal is for consumers or producers alone because each
waits on a condition of its own.

### TaskProcessPool

The program is the only producer of a `ShareQueue`, its children the consumers.
`step` is where it is: `Construct` with `Alloc`, a `Fork` per child, the tasks and
`KillAll` of `testprocesspool.cpp` in any order, then the destructors
(`ShutdownQueue`, `Release`, `WaitAll`). `segment` is whether the key of the pool
is taken. A program may `Die` at any step and another one is started (`Restart`);
system calls may fail (`Fault`), up to `MaxFaults` of them. Without a queue
(`~m_pQueue`) the program or a child that uses it reads through NULL and dies.
Children of a program that died are forgotten at the next start: a program never
attaches to a segment it did not make, so they share nothing with it. A `kill` of
pid -1, where a `fork` failed, reaches the children like any other; what it does
to processes that are not part of this program is left out.

## Runs

| Run | Instance | Checks |
| --- | --- | --- |
| `sem_queue` | 2 producers, 2 consumers, 2 slots, 2 objects, fair | `TypeOK`, `RingConsistent`, `MutualExclusion`, `NoSlotRace`, `ImplementsFifo`, `EveryObjectTaken`, `EnqueueProgress`; no deadlock |
| `store_map` | 3 keys, 2 values, 5 writes, 2 files of two records, gets outside of compactions, an append that fails, 2 crashes at any step of `diskIO`, no writes behind a torn record; keys and values are symmetric | `WritableUnlessHalfManifest`, `ImplementsMap` |
| `store_compact` | 1 key, 3 writes, 3 files of one record, a failing append; and 2 keys, 4 writes, 2 gets during a compaction, files of two records; `./tmpDir` missing or not, fair | `TypeOK`, `Presence`, `FreshestWins`, `RebuildsFinish` |
| `store_stale` | 2 keys, 3 writes | shows `SetsReadBack` violated |
| `store_late_rebuild` | 3 keys set once each, 3 files | shows `SetsReadBack` violated |
| `store_get_race` | 3 keys set once each, gets during a compaction | shows `GetsAnswerLastSet` violated |
| `kvindex` | 2 clients with a key each, one with 2 keys and the other with one of them, or one with both keys alone; 2 symmetric values, 2 cache slots, file of 2, 3 sets, a crash, a failing resize | `TypeOK`, `CacheCoherent`, `Recoverable`, `OnlySlot0Revived`, `ImplementsMap` |
| `sequential` | old index: 3 keys, values of 2 and 3 bytes, 2 cache slots, a file of 2 to 16 bytes; LRU cache: 3 keys, 2 nodes | `FreeListExact`, `ValuesIntact`, `CacheIsLru` |
| `kvsvr` | 3 clients, 2 workers, 2 descriptors, a failing system call, a spurious wakeup, fair | `OneHolderPerFd`, `OwnAnswerOnce`, `EveryCommandAnswered` |
| `pipeline` | 2 connections, one with 2 lines of get, set, stats and quit, one with a get, an error or a blank line, a half line and a half-close, or one alone with 9 gets; 2 epoll threads, queues of 1 for tasks and of 2 for descriptors, fair | `TypeOK`, `OneHolder`, `TasksConserved`, `OnlyDirectOvertakes`, `ClosedInOrder`, `StaysDeleted`, `EveryLineAnswered` |
| `share_queue` | 2 producers, 2 consumers, ring of 3, messages of 1 and 2 nodes, a shutdown, a kill, a spurious wakeup, fair | `TypeOK`, `LostOnlyByKill`, `SleepersMissedBroadcast`, `ImplementsFifo`, `OldestIsTaken`, `SomeProducerGoesOn`, `ShutdownEnds` |
| `task_pool` | 3 programs, 2 children, ring of 3, a failing system call, 2 kills, fair | `KeyFreed`, `TeardownEnds` |

What the runs show:

* **v2 queue.** It is a bounded FIFO, without deadlock, and with fair threads
  nothing stays in it. Two slots and two threads a side give a full ring, an
  empty ring, a wrap-around and waiting on each of the four semaphores; more of
  either is covered by the proofs below for the invariants and the refinement.
* **v2 store.** It is a map, across compactions and crashes, as long as no
  compaction meets a record of a key that was set again or deleted, no get comes
  during a compaction, and nothing is written behind a torn record. The first two
  are needed: without the first `store_stale` loses the value of an unrelated key,
  without the second `store_get_race` answers something else, and with two rebuild
  threads (`store_late_rebuild`) keys are lost that were set once. So is the third:
  `appendRecord` goes to the end of the file, behind a record that a crash or a
  failed write cut off, while `totalOffset` and the scan of `initlization` stop
  before it, so that a later set is answered and neither read nor found again. In all
  cases a key keeps its entry in the index exactly as long as it should (`Presence`),
  and `compareAndSet` never moves an entry of a later set (`FreshestWins`, until the
  first fault, crash or clash). The constant `Overwrites` says which keys a run writes
  again: all, none, or those whose entry is in the last file, which no compaction
  reads. A crash at any step, in the middle of an append too, loses no set that was
  answered before it: `KVMap` has a variable `durable`, what the next start would
  find, which is compared in every state and which neither a compaction nor a crash
  may change. Deletes are not durable (`DurableDeletes` is FALSE here): a record of
  a delete is skipped by `initlization`, and the key comes back. A crash between
  the two writes to `manFile` leaves a store that can be read but not written, and so
  may the second delete of a `DataNode` that two threads rebuilt. Every other
  compaction comes to its end, also one that cannot write to `./tmpDir` and one that
  meets a torn record, once gets pause: each of them can make it read one record
  more, and nothing keeps them from coming.
* **v2 layers.** A connection is with one thread at a time, and `inputThread`
  never waits in `recv`. Every line is answered once, by its own connection,
  also beside a connection that never finishes its line, and also when the four
  queues and the hands of all threads are full; commands that go to the store are
  answered in their order, and only errors, stats and quits overtake them, as in
  `pipeline` a stats or a quit overtakes a get or a set of its own client. A client that waits for its answers is closed only after its `quit` or
  its end, except after an error: the task of an error may find the `CMD` of a
  quit in its memory, and the connection is then closed. A client that does not
  wait can end the process: its `quit` or its half-close shuts the connection
  down while answers are under way, and sending these raises SIGPIPE.
* **v1 index.** With keys of its own a client sees a map whatever others do,
  and the cache never answers an old value. Two losses are named in the properties.
  A crash inside a set costs the key its old value too: `KVMap` has `AtomicSets =
  FALSE` here. And a delete of an absent key, by this client or another one, takes the
  key whose record is in slot 0 out of the file, to be missed at the next start:
  `Forgetful` lets `KVMap` lose one such key. With shared keys, a delete between
  `Exist` and `Get` brings an entry back, at slot 0 and no other.
* **v1 server.** A descriptor number that is given out again is never answered or
  closed on behalf of its former client, and no request is answered twice. A
  command may stay without an answer for the four reasons `EveryCommandAnswered`
  names; after a failed `select` the connection is neither served nor closed, and
  as long as a client stays silent nobody else is served.
* **Sequential structures.** The free list of the old index is exactly the space
  no value has, as the list of a restart would be, after every order of calls;
  values do not overlap, and a failed `Resize` costs the old value of the one key
  that was being set. The LRU list is in order in both directions, its index and
  tail pointer agree with it, and a full cache drops the task used least recently.
* **v3 queue.** Messages come out whole, once and in order; only the messages
  in the hands of killed consumers are lost; one signal per call is enough; a
  shutdown ends every call but those of processes that were between the flag and
  the sleep.
* **v3 pool.** The key is free again after every program that ended in order, and
  once a program left its segment every later one has no queue. After `KillAll` the
  destructors always end; without it a child that missed the broadcast of
  `Shutdown` keeps the program in `wait` for ever.

**Findings.** The three runs that end in a violation are disagreements between
the v2 store and `testgetset_consistent.sh`, which sets every key, gets every key
and expects the same values. `PROJECT.json` gives the lines.

**Bounds.** Each is a constant named in the module: `Bounds`, `MaxCrashes`,
`MAXFILE` for the store, `MaxSets`, `MaxCrashes`, `MaxFaults` for the v1 index,
`MaxFileSize` for the old one, `MaxFaults`, `MaxSpurious` for the v1 server,
`MaxSpurious`, `MaxKills` for the v3 queue, `MaxPrograms`, `MaxFaults` for the
pool, `Loads`, `queueSize` and `fdQueueSize` for the layers. Two files are one compaction,
three are two of them at once; four writes with `OFFLIMIT` 1 fill a file with a
record and its successor and go on during its compaction; two gets during it
make it read on twice. Two cache slots with
two keys make the ring wrap at the third get. A ring of three nodes has room for
two, so that a message of two nodes wraps around and does not fit beside
another. Three clients on two descriptors make a number be used again while
another is held. Three programs are one that leaves the segment, one that finds
it, and one after that. Values of two and three bytes with a file of 16 leave
gaps of every size up to several values, with neighbours on either side or none.
Two lines of a connection meet in any two stages, and overtake each other when the
later one is a stats or a quit; nine gets are as many as four queues of one
place and the hands of the five threads around them hold;
`fdQueue` of two is never too small for two connections, as 1024 is not for the
connections of one process, while the queues of tasks do fill up. A history of the
v2 store at `MAXFILE` files is out of bounds: `check` then writes past `fileList`,
and the model stops writing instead.

**Symmetry.** `store_map` has it for keys and values, `kvindex` for values. It is
sound: they occur in no order and are never chosen among, and the properties of
these runs are about safety alone. Runs with liveness have none.

**Deadlock** is checked for the queue of v2. The stores, the indexes and the cache
stop when their bounds are used up, the pipeline when its lines are answered or
the process died, the v1 server when its clients are served or it died, the v3
queue after a shutdown or a kill that holds the mutex, and the pool when its last
program ended.

**Fairness.** `SemQueue`: weak fairness of each thread's next step, since no
thread stops inside a call and consumers loop for ever; nobody has to enqueue.
Semaphores are not assumed to be FIFO, so a given producer may starve and
`EnqueueProgress` is about all of them together. `SimpleKVStore`: weak fairness
of `diskIO` once it has a command, and of each rebuild thread; both run until
they are done and wait for nothing. `ShareQueue`: weak fairness of every call
that was begun and of a `Shutdown` that was begun; calling either is not fair. A
mutex or a condition variable gives no order, so `SomeProducerGoesOn` too is
about all producers. `Pipeline`: weak fairness of each thread of the server, which
loops for ever, and for each connection of the step in which some `epoll_wait`
returns it; the kernel hands out ready connections in turn, and there are a
hundred threads that call it. Clients are not fair. `KVSvr`: weak fairness of the
main thread and of each worker; neither failures nor clients are forced to
happen, so a client may stay silent for ever. `TaskProcessPool`: weak fairness of
the program, of its call of `Enqueue`, of each child and of a signal that was
sent; adding tasks, killing the children and leaving the pool are not fair.

## Proofs

Each theorem holds for every value of the constants that the assumptions of its
module admit, where the runs have small ones.

| Module | Theorem | States |
| --- | --- | --- |
| `SemQueueProofs` | `TypeCorrect`, `MutexesExclude`, `RingIsConsistent`, `SlotsNeverRace` | `Spec => []` of `TypeOK`, `MutualExclusion`, `RingConsistent`, `NoSlotRace` |
| | `Refinement` | `Spec => ImplementsFifo` |
| `ShareQueueProofs` | `RingIsGuarded` | at most one process is between lock and unlock |
| | `TypeCorrect`, `OnlyKillsLose`, `ShutdownWakes` | `Spec => []` of `TypeOK`, `LostOnlyByKill`, `SleepersMissedBroadcast` |
| | `Refinement` | `Spec => ImplementsFifo` |
| `PipelineProofs` | `TypeCorrect`, `ConnectionsHeldOnce`, `CommandsInOnePlace`, `OrderOfAnswers`, `PatientIsAnswered` | `Spec => []` of `TypeOK`, `OneHolder`, `TasksConserved`, `OnlyDirectOvertakes`, `ClosedInOrder` |
| | `DeletedForGood` | `Spec => StaysDeleted`, an action property |
| `NewKVIndexProofs` | `TypeCorrect`, `CacheAgrees`, `FileRecovers`, `EntriesOfSetKeys` | `Spec => []` of `TypeOK`, `CacheCoherent`, `Recoverable`, `OnlySlot0Revived` |
| | `Refinement` | `Spec => ImplementsMap` |
| `SimpleKVStoreProofs` | `TypeCorrect`, `IndexKnowsWhatIsSet`, `HalfManifestOnly`, `FreshEntriesWin` | `Spec => []` of `TypeOK`, `Presence`, `WritableUnlessHalfManifest`, `FreshestWins` |
| | `PromptStoreIsMap` | `ImplementsMap`, under the conditions below |
| `SequentialProofs` | `CacheCorrect` | `Lru!Spec => []CacheIsLru` |
| | `FreeListCorrect`, `ValuesCorrect` | `Spec => []` of `FreeListExact`, `ValuesIntact` |
| `KVSvrProofs` | `DescriptorsHeldOnce`, `AnswersReachTheirClients` | `Spec => []` of `OneHolderPerFd`, `OwnAnswerOnce` |
| `TaskProcessPoolProofs` | `KeyIsFreed`, `PoolShutdownWakes` | `SpecPool => []` of `KeyFreed`, `SleepersMissedBroadcast` |

The invariants of the runs are seldom inductive; what had to be added, and why,
follows module by module.

**SemQueueProofs**, for every `queueSize` above 0, finite sets of threads and any
set of objects (`SemQueueAssumption`). The invariants follow from `IInv`:
`TypeOK`, `MutualExclusion`, `SlotsConserved` and `HeadFollowsTail`, of which the
last two are `RingConsistent`. None but `TypeOK` with `MutualExclusion` is
inductive alone: that a mutex semaphore stays in {0, 1} needs to know that a
thread that posts it is inside; that `head` keeps its distance from `tail` needs
that a single thread moves each of them and that the objects between them never
exceed the slots, which is `SlotsConserved`. `NoSlotRace` is then arithmetic: a
producer at its write and a consumer at its read each own a slot, so their
distance is at least one and less than `size`. The counting rests on two lemmas,
`AtStep` and `AtOther`, about how one thread's step changes the number of threads
at a set of steps, and the modular arithmetic on `Remainder`, `AdvanceHead` and
`AdvanceTail`. For the refinement the slots between `tail` and `head` must hold
objects (`Filled`); then `AdvanceAppends` and `ReadTakesOldest` are the two steps
that `BoundedFifo` sees, and all others change nothing there: a producer that
writes, because its slot is outside of the contents, a consumer that moves `tail`,
because its object was counted as taken when it was read.

**ShareQueueProofs**, for any producers, finitely many other consumers, any ring,
any messages with any numbers of nodes, and any number of kills and spurious
wakeups (`ShareQueueAssumption`; `Free` is no process, `NoMessage` no message).
`SleepersMissedBroadcast` speaks of the end of `Shutdown` only. Its induction needs
the state between the two broadcasts (`ConsumersWarned` holds from the first on,
`ProducersWarned` from the second) and that the flag was set before (`Flagged`),
so that nobody goes to sleep any more who was not on the way. `RingIsGuarded`
needs that the mutex names its holder (`MutexHeld`), which a kill does not change.
Every action is seen as a move of one process (`Moves`), for which one lemma,
`MoveKeepsIInv`, does the induction.
The rest follows from the state of the ring, `RingInv`: each node in use belongs
to a message (`Filled`), and a message lies in consecutive nodes in use, with its
number of nodes in the first one (`Whole`). `Dequeue` believes the first node at
the front, and this is why it may. Both are stated in distances from the front;
five lemmas (`AheadIs`, `DistanceIs`, `Circle`, `BehindRear`, `PastFront`) do
the arithmetic of the circle once. The messages as a sequence are ordered by
rank, the number of messages that start before (`Ranks`); a message behind all
others appends one element (`LastMessage`), the one at the front leaves the tail
(`FirstMessage`). `Conserved` counts what is accepted, in the ring, in hands, and
lost.

**PipelineProofs**, for any finite set of connections and any number of epoll
threads, commands and places in the queues (`PipelineAssumption`; `NoTask` is no
task). `NetworkInv`: a connection that waits for `inputThread`, or is with it, is
in one place, its registration is disarmed, and while it waits there is something
to read. `TaskInv` sees the places of tasks as eight lanes in the order of the
way to the client (`Lanes`). Every step of a thread moves the first task of one
lane to the end of the next, or past the store, makes one behind all others, or
answers the first of the last lane; there is one lemma for each of these four
kinds. That no task is twice in the lanes (`OnceInLanes`) and answered once
(`OnceAnswered`) would not be inductive without saying that none is missing
(`NoneLost`): a new task must differ from all that exist. The order of the
answers needs the order in the lanes (`LanesInOrder`): two tasks of a client are
out of order there only when the one behind waits for the store and the other
does not. `ClosedForReason` and `Patient` say why a connection is closed and what
a client that waits has received by then.

**NewKVIndexProofs**, for any clients, keys, values, cache slots, sets, crashes
and failures of `Resize` (`KVIndexAssumption`: there is a client, and `End`,
`Dangling` and `NoKey` are not keys, `Absent` is no value). What a key holds is in
its record, its entry and its cached copy. `Linked` is the heart: a cache slot
that an entry names has the iterator of that entry, so that using the slot again
takes it from its owner first; without it `CacheCoherent` is lost at the next
`EraseCache`. `CachedIsCurrent`, `EntryNamesRecord` and `ValidIsCurrent` relate
the three places through the history `latest`, which a start does not set to what it
finds: that it finds the same follows from `StoredLeft`. A key in `lost` is the one
whose record was in slot 0 (`LostAtZero`), so there is one at most. `Revived` describes the entries
that a `Get` after a delete brought back, and `KnowsItsKeys` why a client with
keys of its own never makes one. The refinement of `KVMap` goes through what one
client sees, `Client`, step by step.

**SimpleKVStoreProofs**, for any keys, values, files, writes, failed appends and
crashes, and any interleaving of `diskIO` with the rebuild threads
(`StoreAssumption`). `Presence` is about the index alone, but what a restart puts
there is what the manifest, the files and the records say. `FilesInOrder` follows
these through `check`, with the state between the two writes to `manFile`
(`HalfManifest`) apart; `AppendsToActive` and `ActiveApart` say that nobody but
`diskIO` writes to the active file, `RebuildsBehind` that compactions work on files
before it, `NewApart` that the new file of a compaction is nobody else's, and
`NodesCounted` that the number of `DataNode`s in use is bounded by what was
created, so that a new one is fresh. `FreshestWins` needs the contents of the active
file too. Only records that `diskIO` appended are in it, because no other `DataNode`
and no other name leads to its inode (`InodeApart`); the node's `totalOffset` is the
length of the file but for the record being appended (`Log`, `Appending`); and the
index says of each key what its last record there says (`LogIndexed`, with the last
record apart between `appendRecord` and `saveVal`). A compaction may move entries
into its new node only, never one that names the active file, since what it compares
is the position in the old node (`EntryFor`). `FreshestWins` speaks of a store that
had no failed append, no restart and no clash: after a failed append the offsets of the
file are wrong, a restart skips the records of deletes, so that a key whose last
record is a delete comes back, and a thread that goes on with a deleted `DataNode`
may compare with that of the active file, which has its address. Until two threads
rebuild one `DataNode` nobody uses a deleted one (`Undeleted`); this is what
`WritableUnlessHalfManifest` and `FreshestWins` rest on. `Presence` holds in a clash
as well.

The store is not a key-value map in general: the runs with a violation show it
losing values. `PromptStoreIsMap` says that it is one, with any number of files,
keys, writes, crashes and compactions side by side, when nothing of the following
happens, each of which breaks it in the code:

| Condition | Without it |
| --- | --- |
| `Overwrites` is not `"any"`: a key is set again or deleted only while its entry is in the file number `MAXFILE`, which no rebuild reads | a superseded record is copied, and its length is taken off `totalOffset` (`store_stale`) |
| `Prompt`: a `rebuildFile` thread starts before the next rotation | two threads compact the same file (`store_late_rebuild`) |
| gets only while no file is compacted | the get and the compaction move the position of one descriptor, and the compaction ends early or skips a record (`store_get_race`) |
| `./tmpDir` can be written | the index still names the `DataNode` that is deleted |
| no append fails, and none is cut off by a crash | `totalOffset` or the scan of `initlization` is behind the file, whose end is appended to |

The run `store_map` covers more than the theorem: a failed append and a crash within
one, as long as nothing is written behind the torn record. A restart is in the theorem
at every other step.

The argument has three parts. Each file has `DataNode`s and inodes that no other
file has (`FilesApart`), so a step of one thread leaves the other files alone
(`UntouchedFacts`, `StepOnFile`). A compaction knows how many records it has copied
(`Copying`), and a record is for a reader where the compaction has put it last
(`Place`); the index names the place of the one record of each key that is set
(`SetOnce`, `Current`, `EntriesLead`). A step of a `rebuildFile` thread therefore moves
entries only along with their records (`KnownFollow`), and `MapFollows` and
`DurableFollows` conclude that neither a reader nor a restart finds another value:
it is a stutter of the map. What is left are the steps of `diskIO`: the record becomes
durable in `AppendFinish` (`Persist`), and the map changes in `UpdateIndex`
(`Apply`). A restart finds the records that the index named before it, because the
record of a key in a file that is compacted is its only one.

**SequentialProofs**, for any size of the LRU cache above 0 (`LruAssumption`: `NULL` is
no node and no task), and any keys, values, ring, initial and greatest size of the old
index (`AllocAssumption`: a value is a non-empty string without a zero byte, `End`
and `Dangling` are no keys). `CacheIsLru` says of the pointers what a list of the
tasks in the order of their last use says. Its invariant, `LruInv`, has the nodes as a
chain from `head` to `tail` that is linked in both directions (`Linked`), with the task
of each node and the index to it (`Holds`); `unlink` and `addtoHead` are then removal
from and insertion into that chain, whatever its length. `FreeListExact` and
`ValuesIntact` are proved byte by byte. `AllocInv` says what each byte of the store is:
a byte of one value, its terminator, or a zero that nothing covers (`ValuesStored`,
`ValuesApart`, `RestIsZero`), and that the free list is in order and covers exactly the
bytes that nothing else does (`ListOfFree`). With it `strlen` finds the length of each
value (`StringIsValue`), and a zero is free exactly when the byte before it is zero
(`FreeIsFreeByte`), which is what `Start` goes by when it scans the file. The run checks
the two structures, which share nothing, under one specification;
`EitherIsEach` says that each of its behaviours is one of both.

**KVSvrProofs**, for any clients, workers, descriptors and failures
(`KVSvrAssumption`). `OneHolderPerFd` counts the holders of one descriptor.
Inductive is that the holders differ pairwise (`Disjoint`), that each knows whose
connection it has (`Connected`), and that every connected descriptor has a holder
(`NoneForgotten`): a number that is free is then in nobody's hands. `OwnAnswerOnce`
needs in addition that a client is connected once (`ConnectedOnce`) and has no
answer until its only request is written (`NotYetAnswered`).

**TaskProcessPoolProofs**, for any number of children, programs, failed calls and
any queue (`TaskProcessPoolAssumption`: the program is the only producer).
`KeyFreed` looks at the beginning and the end of a program; `SegmentKnown` adds
what holds in between: a program with a queue owns the segment until `Release` and
none was left before it, a program without one cannot change whether there is
one. That a program that ended left no child (`NobodyLeft`) needs that a child
that ended does nothing any more. The queue is used through one lemma: each step
of the pool constructs the queue or is a step of `ShareQueue` or none of it
(`PoolStepOfQueue`), so that its invariant holds in every program.

Some places of the models were changed for the proofs. What they said was not
determined by TLA+, or could not be reasoned about: `ReadResults` and
`RecoveredNode` of `SimpleKVStore` were a CASE with overlapping alternatives and
are now IF/ELSE in the order of the code; and the sequence of messages in the ring
of `ShareQueue` is now taken by rank instead of by a filter over a sequence of
positions. The inodes of `SimpleKVStore`
come from `1 .. 4 * MAXFILE + 1`, of which there is always a free one, and its
`Positions` have no bound on the length of files; the blocks that `KVIndexAlloc` finds
in its data file are taken by rank (`ZeroRuns`, `FoundBlocks`); and `Unlink` of
`LruCache` returns its two links as a record.

Only model-checked is liveness under fairness (`EveryObjectTaken`,
`EnqueueProgress`, `RebuildsFinish`, `EveryLineAnswered`, `EveryCommandAnswered`,
`OldestIsTaken`, `SomeProducerGoesOn`, `ShutdownEnds`, `TeardownEnds`), which like
ENABLED is out of the prover's reach. Every invariant, every refinement and every
other action property that a passing run checks has a theorem.

## Not modelled

* Start and join of the threads of v2 (`test.cpp`) and the helpers that only
  print; the start of v2, where the `diskIO` thread runs before its index exists,
  and `stats`, which reads the index and `fileList` without a lock.
* Failing `recv` and `send` of v2, connections that are reset, full socket
  buffers, and the descriptors of ended connections, which v2 never closes.
* v1: the result of `Start`, which `main` ignores; requests that arrive in parts,
  of which `recv` takes the first as the whole (they act like requests that lack
  a word); a crash of the old index without `Quit`, which leaves its key file as
  it was at the last one.
* v3: what a `kill` of pid -1 does to processes of others; messages with more
  nodes than the ring.
* The parsing of commands, the format of answers and the test drivers.

## What is left

1. The start of v2 as a step of `SimpleKVStore`, and reset connections in
   `Pipeline`.
