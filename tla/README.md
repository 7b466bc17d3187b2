# DiTrafficDatabase in TLA+: data node, probe, and the first version

The repository holds the second version of a traffic database (`src/src`), whose data
node is written and whose probe is half ported, and its first version (`src/src-old`),
from which the second takes its algorithms. This directory models the data node, the
packet path of the probe and, of the first version, the memory index with the node
around it and the heartbeats, all in TLA+, checks the models with TLC and proves what
can be proved with TLAPS. The first part below is the inventory of the system, the
second the plan, the rest says what the modules say.

Paths are relative to the repository; `D/` stands for `src/src/dataNode/`.

## 1. Inventory

### Data node (`D/`)

| Component | State | Operations | Talks to |
|---|---|---|---|
| `PipeRing` (`src/src/lib/pipeRing.hpp`) | `writePos`, `readPos`, the slots | `put` (spins while full), `get` (null when empty) | every pair of threads below |
| `RegionServer` | `regionEngineMap`, `requestID`, the input fifo | read a line, parse a batch, put a signal per request | clients; engine by `serverEnginePipe` |
| `MitoEngine` | none of its own | take a signal, dispatch it by region id | workers, by a pipe each |
| `RegionWorker` | `regions`, `closedRegions`, `dropingRegions` | CREATE, OPEN, CLOSE, DROP, WRITE; `sendFlushSignal` | flusher, by one pipe for all workers |
| `Memtable`, `Region` | rows, sizes, time range; SST and memtable of a region | `write`, `addRowSize`, `freeze` | owned by a worker, then by the flusher |
| `Flusher` | none of its own | take a flush signal, append the memtable to the SST | disk |
| `SST`, `SSTBlockMeta`, `SSTBlock` | block metas of a region, the file | `appendMemtable`, `flushBlock`, `serializeMemtable`, `loadBlock` | disk |
| `DataNode`, `DataNodeComponent` | components, threads, a `running` flag per component | `init`, `run`, `stop`, `clean` | every thread |

Every component but the objects in memory is a thread that polls. What is hard: the
threads share memory through lock-free rings whose correctness is a matter of the
order of a few accesses; a memtable changes hands while its region goes on; a
handler may wait in the middle for room in a ring; stopping races with starting and
with waiting. What makes each correct:

* a ring hands over every pointer once and in order, writes over nothing unread, and
  lets nobody wait for ever;
* the requests of a region are handled in the order in which they were parsed, by
  one worker;
* the rows of a region on disk, on their way there and in memory are together what
  was accepted, in order; its SST knows all its blocks; a block's time range is that
  of its rows; the memtable stays within its threshold;
* a block can be read back from what is in its meta;
* after a stop no thread runs, nothing was deleted under a running thread, nothing
  taken from a pipe was forgotten, and the program ends.

### Probe (`src/src/probe/`)

| Component | State | Operations | Talks to |
|---|---|---|---|
| `DPDKCapture` | current cell and offset in it | `getOffset`, `writePacketToPacketBuffer`, `writeBefore` | data block buffer, aggregator |
| `PacketAggregator` | per flow, the offset of its last packet | `addPacket` | owned by a capture thread |
| `DataBlockBuffer` | per memory block the disk block it stands for; where each writer is and each disk thread looks | `getCell`, `writeBlock`, `checkBlock`, `directGetBlockID`, `recycleBlock` | capture and disk threads, no locks |
| `DiskManager` | agents, `stop` | `addBlock`, `runData` and its draining | buffer, agents |
| `DiskAgent` | writes under way | `asyncWrite`, `processCompletions` | io_uring |

`Probe` is to run them as `DataNode` runs its components. Hard: the block test compares
positions that writers publish while they run on, around a circular disk; a packet may
lie across the end of a cell, whose successor another thread's cells lie before;
completions arrive late. Correct when a block is written to disk complete, once, and
while nobody may write into it; when every packet finds its place; when every byte of a
packet can be found from its offset, and every packet of a flow from the one before.

### First version (`src/src-old/`)

| Component | State | Operations | Talks to |
|---|---|---|---|
| `HeartbeatServer`, `HeartbeatClient` | table of nodes, last heartbeat, alive | register, heartbeat, health check, stop | HTTP |
| `UDPIndexReceiver`, `IndexGenerator` | a ring between them, a stop flag each | receive, put; get, insert, drain | UDP; memory index |
| `MemoryIndex` over `SkipList`, `PrefixBloomFilter`, `BitMap` | a list per type of key, a row of bits per prefix | `insertIndex`, `searchIndex` | generator inserts, querier searches, no locks |
| `IndexQuerier` | none of its own | parse, search, answer | console |
| `FlowSender`, `ShardHandler`, `LibpcapReader`, `tcpServer`, `MetaServer` | | | not modelled, see section 6 |

Correct when a search finds every entry that was inserted, and nothing else; when an
entry that came is indexed once, and in any case unless the node stops; when a node
that beats is shown as alive, and one that does not as dead, in time.

### Neither

`httplib.hpp` and the `demo.*` files are vendored or generated; the controller, the
interface and the front end are skeletons or empty.

`PROJECT.json` lists the components one by one with their files, and under `hazards`
what in this code is hard to test, each at its line.

## 2. Plan

1. `PipeRing` and its abstract queue, with proofs (done).
2. `RegionWorker` with workers and flusher, and the abstract `RegionStore` (done); types,
   sizes and ranges proved for any number of workers, where the rows are for one worker.
3. `DataNode`: server and engine in front of it (done; all of its safety proved, and that
   it implements `RegionWorker`).
4. `Lifecycle`: start, stop, clean (done, all of its safety proved).
5. `SSTBlock`: the layout of a block (done, both of its properties proved).
6. `DataBlockBuffer` with `DiskManager` and `DiskAgent` (done, all of its safety proved).
7. `CaptureCells`: the cells of `DPDKCapture`, with `PacketAggregator` (done, both of its
   properties proved).
8. `IndexNode`: receiver, ring, generator and querier over filters and lists (done, all
   of its safety proved); `Heartbeat` (done, both of its properties proved).
9. `SkipList` against `IndexList`, `PrefixFilter` (done, the levels and the refinement
   proved).

All of it is done, and the safety of every component is proved, that of a region's rows for
one worker only. What stays with TLC is liveness, and what the end of section 5 lists.

## 3. Modules

`PipeRing` and `BoundedQueue`, `RegionWorker` and `RegionStore`, `SkipList` and
`IndexList` are pairs of a model and what it promises; `DataNode` extends
`RegionWorker`, and `IndexNode` extends `PrefixFilter`; the `MC` modules hold the
sets a configuration needs; the modules that end in `Proofs` hold the proofs
(section 5). A definition with "Faulty variant" in its comment
is a definition with a plausible bug in it, put in place of the right one to see
whether the properties notice (`mutants` in `PROJECT.json`).

**`PipeRing`** has an action per access to shared memory: `PutLoad` (read `writePos`),
`PutWait` (the spinning test), `PutStore`, `PutAdvance`, and the same for `get`. The
slot permutation `real_pos` is `Slot`; masks with powers of two are remainders. The
positions are 64 bits wide and count signals; they are naturals here. A capacity below 8
makes the code divide by zero; `Rows` is at least one.

**`RegionWorker`** has the state of all workers and of the flusher. A request in a
worker's pipe is handled by one action (`HandleWrite`, `HandleWriteFull`, `Create`,
`OpenRegion`, `CloseEmpty`, `CloseFull`, `Drop`, `Ignore`), except that a handler that
flushes stops in `put`: `SendFlushSignal` freezes, replaces and reads `writePos`,
`PutStore` waits and stores, `PutReturn` advances and completes the handler. A worker's
own pipe is a bounded queue, which is what `PipeRing` was proved to be for one writer;
the pipe to the flusher has all workers as writers and is modelled as a ring. Rows are
an id and a timestamp; sizes are small numbers; `Base` is what the column names count
for. A frozen memtable is referred to by its flush signal alone and is its content. A
slot is not cleared by `get`, so with several writers a stale slot may be read again; in
the program that is a use of freed memory.

**`DataNode`** puts the server and the engine in front. `ReceiveBatch` reads a line of
so many entries, `parseRequests` goes through all of them, and only then does
`SendRegionRequest` send the signals one by one. What an entry says is chosen when its
turn comes: `ParseRequest` makes a signal of it and may enter its region into the map,
`RejectRequest` passes over one that is incomplete or for an unknown region.
`TakeSignal` and `HandleSignal` are the engine. `Behind` is `RegionWorker` as the node
uses it: what arrives at a worker there is what the engine hands over here
(`handedOver`).

**`Lifecycle`** forgets what signals say and counts them. It has the main thread with
each step of `run`, `stop`, `clean`, and each thread with its flag (`Test`, `Leave`), its
`get` (`Take`, `GetNothing`), which comes a step after the flag, and its waiting `put`. The
pipes of the engine and of the workers have one writer, so a put into them takes effect in
one step, as `PipeRing` was proved to; a put into the flusher's pipe is the steps of
`put`: its position is read in `WorkerFlushes`, `WaitForRoom` is the equality test, `Store`
the rest. When two of these overlap (`overlapped`), the slots may hold anything, which is
the subject of `RegionWorker`: here the flusher may get a signal (`FlusherFlushes`), or a
null pointer or a deleted signal (`FlusherMisses`), with which the process may die. Two
puts may then also pass the test together and leave more in the pipe than it holds. `main`
notices `q` in `Quit`.

**`SSTBlock`** lays out a block as the code does (7 words of fixed meta, types, sizes,
name offsets and names, rows, variable data), writes it as fields with place and size,
appends it to the file and reads it back the way the read constructors and functions
would. `written` remembers the memtable.

**`DataBlockBuffer`** is the buffer between capture threads and disk threads. A position
is a cell; what a thread writes into one cell passes the same tests and is one write.
`Start` is the beginning of `run`, which forgets an earlier stop. `PacketFits` and
`PacketSplit` claim cells and leave the writes of the packet in `todo`;
`WriteBegin` (the tests of `writeBlock`), `WriteEnd` (the copy, and then the
position published) and `WriteFails` (only the position) do them one at a time, so that
a disk thread may look in between. A packet that is not IP is dropped after `getOffset` has
set its bytes aside (`PacketDropped`; `out` when they reach past the end of the cell). The
thread's next packet is then a stray one (`PacketStray`): it starts in a cell further on,
which belongs to another thread or to nobody, its rest goes to a cell newly taken, and the
cell in between never gets its pointer. The length of the rest may underflow, and
`memcpy` with it kills the process (`Dies`). How far a stray packet starts is bounded by
`MaxStray`; one packet is shorter than a cell, so a single dropped one carries the thread
into the next cell, and `MaxStray` = 1 is what the theorems assume (with blocks of more than
a cell). `dirty` and `done` are histories of what threads wrote to their own cells; stray
bytes are not in them.

On the other side `CheckNext` asks one writer per step whether it is past the block (the two
intervals of `Past`, modulo the disk), `TakeBlock` takes it, `AddBlock` and
`AddBlockFails` submit it, and `Complete` is the completion: the repository has
`processCompletions` and `recycleBlock` for it but no thread that calls them, so `Complete`
may happen and need not. After a stop the disk thread may come around to a block whose
write is not completed and submit it again; `MaxWrites` bounds how often. All
counters go around the disk, so the model needs no bound on time. `StopCapture`, `Quit`,
`StopDisk`, `DrainBlock` and `Drained` are the stop. Its order, capture threads first, is
assumed: the repository has no caller. The disk threads run from the beginning, so that
`DiskManager::run`, which like the capture threads' clears an earlier stop, loses none here.

**`CaptureCells`** is where a packet lands: `Receive` is `getOffset` and `addPacket`,
`StoreFits` and `StoreSplit` are `writePacketToPacketBuffer` with the pointer to the next
cell, and `writeBefore` with the link between packets of a flow. Each byte of the disk
knows what was written to it, so a property can read a packet back. `ReceiveNonIP` is the
packet that is dropped after its place was taken. As in `DataBlockBuffer`, the packet after
one that left the cell so is a stray one (`p.stray`), and where the length of one of its parts
comes out below zero the process dies (`StoreDies`). The disk goes around: a cell that is
taken again loses its packets, and a link may then be written over what has come to lie
there. Nothing stops the program from either, so the model goes on as well, and remembers
the damage: `spoilt` are the bytes that a stray packet or such a late link was written to,
`strayed` the flows that had a stray packet. The properties say that nothing else is
damaged.

**`SkipList`** has a step per access to a pointer: an insertion sets the pointers of its
node and then those before it, level by level (`Insert`, `Link`, `Publish`, `Raise`), and
a search reads each pointer twice (`Test`, `Compare`, `Move`) and then collects (`Scan`).
Stores are taken to appear in program order, as x86-64 shows them when the compiler keeps
them so; C++ does not promise it for plain pointers. Of ranges the list promises a
snapshot per key: a search for several keys may see an entry and miss an older one of
another key. Nothing calls `findByRange`. What an answer of the abstract list may be is
a predicate on it (`Lists`), so that the refinement can be proved as well as checked.

**`PrefixFilter`** computes, without state, the rows an address or a port sets in the
filter and those a prefix asks for, with the hash functions as a parameter.
**`IndexNode`** puts `IndexEntry`s through the whole node: `Receive` and `PutIndex`, the
ring (a bounded queue, which is what `PipeRing` was proved to be), `GetIndex`, then for
each of four fields `InsertFilter` before `InsertList`; a query is `ReadQuery`,
`CheckFilter`, `Find`. `Receive(d)` may take any datagram at any time, which covers
those that are lost, doubled, late or out of order, and malformed ones: the receiver goes
on by the length each entry gives of itself, takes what it finds there for an entry, of
IPv6 unless the length is that of IPv4, and with a length of 0 puts the same entry for ever
(`endless`; `MaxReceived` bounds it). `StartReceiver` and `StartGenerator` clear the stop
flags, so a stop that came before them is lost, as in the code. The threads are put together as in the
commented-out text of `IndexNode/main.cpp`. Positions are cut to `Narrow` values as the
list cuts 64 bits to 32. `SetRows` stands for both the constants `IPV4_BLOOM_LEN` and
`IPV6_BLOOM_LEN`, which are equal; `checkIPv6` uses the first where `insertIPv6` uses the
second.

**`Heartbeat`** has a clock that goes on only when nothing is overdue. A post reaches the
server within `SendTime` or is given up; its answer comes within `ReadTime`; a node
sleeps for `Interval`; the health thread makes a round every `CheckPeriod`. A post that
was given up may be handled late (`HandleLate`); the server stops and starts again.
`missed` and `since` are histories of the network, not state of the program.

## 4. Runs

| Run | Instance | Shows |
|---|---|---|
| `PipeRingSPSC` | 1 producer, 16 slots, 34 puts | the ring is a queue |
| `RegionLog` | 1 worker, 1 region, sizes 1 and 2, times 1 and 2, an empty memtable of 2, threshold 3, ring of 2 slots, 7 requests | the region is a log |
| `RegionFailures` | 2 regions, created again at will, one failing flush | the order on disk |
| `RegionTwoWorkers` | 2 workers with a region each | finding |
| `DataNodePipeline` | 2 workers, 2 regions, pipes of one signal, lines of up to 2, 4 requests | ordering, ownership |
| `LifecycleStop` | 2 workers, pipes of one signal, a line of up to 2 requests, q at any time | safety of stop, and its end when all is calm |
| `SSTLayout` | 2 blocks, 2 columns, 2 rows | layout |
| `ProbeDisk` | 2 capture threads, 1 disk thread, 2 memory blocks, 10 disk blocks, 2 cells per block, a delay of 1, links back to the cell a packet starts in, failing submissions, dropped packets that cross the end of a cell, a block submitted up to twice | blocks on their way to disk, and what may stall a capture thread |
| `ProbeCells` | 2 capture threads with two flows each, 3 cells of 9 bytes, headers of 3, data of 1 or 2, 5 packets, IP or not | packets and chains in the cells |
| `SkipListSearch` | 3 keys, 2 levels, 2 insertions, one search at a time | the list under concurrent search |
| `IndexNodeSearch` | 4 kinds of datagram (empty, two entries of four bytes, one of five, one that is endless), 2 of them, 4 entries received, ring of 1 | the node from network to answer |
| `HeartbeatTable` | 2 nodes, every time 1, threshold 3, clock to 7 | membership |

*Bounds.* Sixteen slots are two runs of eight, the smallest ring whose permutation is
not the identity; 34 puts go around it twice. In `RegionLog` an empty memtable counts 2 of a
threshold of 3, so that a row of size 1 fits into an empty memtable and one of size 2 does
not, and is written anyway: every boundary of `handleWrite`'s two tests is met. Four
requests after the opening fill a memtable, flush it, fill the next and
close it while the ring, which holds one signal, is full. Two regions and two
workers in `DataNodePipeline` suffice for two requests of a region to take different
ways if there were any. One signal per pipe makes every put of `LifecycleStop` wait.
Two blocks and two columns are enough for every offset to be a sum of more than one
term. `ProbeDisk` has no bound on time: the disk, more than four times the memory as the code
wants it, is gone around for ever, with a packet across the ends of cells and blocks, and a
link that goes back over them. The four invariants also held with links back to the cell
before, with three memory blocks, a delay of 2 and two disk threads, with three cells per
block and dropped packets that carry a thread over two cells, and with one cell per block.
In `ProbeCells` a cell has
room for two short packets and the start of a third, so data and headers are split at
every place; five packets in three cells come around, over packets that
links still lead to. `SkipListSearch` was also run
with two keys and four nodes. In `IndexNodeSearch` a
ring of one makes the receiver wait; the flows share an address, and two positions
differ in the bits that are cut; three datagrams held as well. Seven ticks of
`HeartbeatTable` are two thresholds; the theorems take any times.

The model of a bounded history ends, hence `CHECK_DEADLOCK FALSE` in all runs
but `PipeRingSPSC`: clients, packets and datagrams need not come,
and a stopped program, or one that has died, stands still.

*What the passing runs show.* `PipeRingSPSC`: with one producer the ring implements
`BoundedQueue` with a capacity of one less than its slots, never writes over what was
not read, and completes every put. `RegionLog`: workers and flusher implement
`RegionStore` (`ImplementsStore`): flushing is invisible. The SST of a region reaches
all of its rows (`IndexReachesRows`), the time range of a block is exact
(`BlocksCoverRows`), a memtable outgrows its threshold only with a single row and by no more
than what an empty one counts (`WithinThreshold`), and a frozen row reaches the disk.
`RegionFailures`: a failed flush loses its rows, as the code means it to (there is no
log yet), but never disturbs the order (`DiskInOrder`). `DataNodePipeline`: per region
what was parsed is handled in order, without gap or repetition, and completely; one
worker owns a region; the node holds nothing for a region that was never created; and it
implements `RegionWorker` (`FeedsWorkers`): behind server and engine, workers and
flusher take no step that they do not take in the module about them.
`LifecycleStop`: however the stop falls, `clean` finds no thread alive
(`CleanedWhenQuiet`), no request is forgotten, and no memtable but by puts that overlapped
in the flusher's pipe (`NothingVanishes`); when the threads
have started and all that is under way fits any pipe, main gets past the joins, unless
such puts made the process crash (`CalmQuitExits`). `SSTLayout`: the three computations of sizes agree, and numbers
are read back.

`ProbeDisk`: from the moment a disk thread takes a block no capture thread copies into
it (`SealedBlocks`), each of its cells was written to its pointer, or a dropped packet
carried the thread out of it (`CompleteBlocks`), it is
taken once (`TakenOnce`), after the draining no block that threads wrote their cells in is
left (`NothingLeft`), and a capture thread gets every packet written unless a started write
is never heard of again (`OnlyDiskStalls`). The code as it is never hears of any, so it
stalls as soon as the memory is full; the property says that whoever adds the poller need
add nothing else. `ProbeCells`: each
packet can be read from its offset, over the end of a cell by the pointer there
(`PacketsReadable`), and from each packet of a flow the next (`FlowChained`), but for
the bytes and flows damaged by stray packets and late links.
`SkipListSearch`: at every moment the pointers of each level lead in order through the
nodes it was linked with, and a search stands at one of them before what it looks for
(`LevelsSorted`); a search lists for every key what was there at some moment between its
beginning and end (`ImplementsList`), and ends (`SearchEnds`). `IndexNodeSearch`:
the filter hides nothing (`FilterCoversLists`), an answer holds at least what was there
when the question was asked and at most what is there (`AnswersHold`), every entry put
is in the ring, on its way, listed under its four keys, or was dropped at the stop
(`Accounted`), and a generator stopped while it runs ends and leaves the ring empty
(`StoppedDrains`).
`HeartbeatTable`: the table is behind by one round at most (`ShownInTime`), and a node
all of whose posts arrive is never shown dead (`HealthyIsAlive`).

*Fairness.* Weak fairness per thread: each polls or spins until it is stopped and the
operating system runs all of them. Clients, the failure of a flush, and the entry of
`q` are never assumed to happen. `Lifecycle` assumes that clients close the fifo in
the end, because the server's loop ends no other way. In `DataBlockBuffer` nothing is
assumed of completions. Every capture thread goes on to a new cell again and again
(strong fairness of `Full`, which is `PacketSplit` or `PacketStray`, for it is not enabled
during the writes of a packet):
this is an assumption on the traffic, and it is needed, because
`checkBlock` wants every writer past the block: one capture thread without packets
holds up all the others as soon as the memory is full. In `SkipList` only the search is
fair, so that it ends though an insertion stops half way. In `IndexNode` receiver,
generator, querier and main run; datagrams, queries and the stop need not come.
`Heartbeat` has safety properties only; time goes on within its bounds.

*A finding as a run.* `RegionTwoWorkers`: `workerFlusherPipe` is a ring for one writer and
is shared by all workers (two in `main.cpp`); two puts at once use one slot, and a
memtable is lost.

*Findings to reproduce by hand.* Each of these was seen as a counterexample of TLC; change
the configuration as said and run it:

* `RegionLog` with `Recreate = TRUE`, `IndexReachesRows`: the test for an existing
  region has `&&` for `||`, so CREATE replaces the context of a region, and its SST with it.
* `LifecycleStop` with `PROPERTY QuitExits`: a writer waits in `put` for a reader that
  has left, or `q` is undone by a thread that starts late.
* `ProbeDisk` with `BlockNum = 4`, `DiskBlockNum = 20`, `CellsPerBlock = 1`, `Delay = 2`,
  `MaxStray = 0`, `SealedBlocks`: with a delay below `BlockNum - 1` a capture thread that has told its new
  block goes back with a link to a block that a disk thread has just taken.
* `SSTLayout` with `INVARIANT StringsReadBack`: the offset of a string is never its place.
* `SSTLayout` with `Times <- ZeroOne` and `INVARIANT TimesStored`: the timestamps of rows
  are not stored.

*Met while modelling the data node:* a stop before the threads have started is undone by
`start()` (this is what `Calm` excludes); the server's loop does not look at its
flag; a region counts as known from the parsing of its CREATE on, though
`D/readme.md` wants it established; malformed payloads end the process with exceptions
that nobody catches (a missing column, a column type that does not fit the JSON value,
a region id that is no number).

*The probe:* the block test is right only if `delayed_block_num` is the number of memory
blocks less one, and at least the number of disk threads (`DelayFits`); nothing checks
this. With more, no block is ever taken. With less, a link may be written into a block that
is on its way to disk (above); packets themselves go to the block the thread tells or
a later one, and `CompleteBlocks`, `TakenOnce` and `NothingLeft` still held with a delay of 2
of 4. A block whose write could not be submitted is recycled, and its
packets are lost; a write that fails later is never marked as seen. After a stop of the
capture, a thread that waits for a block may wait for a writer that has already gone.
`DiskManager::run` and `DPDKCapture::run` clear a stop that came before them. The bound of `asyncWrite` is off
by one block, which no caller reaches. When a packet is split, the second part of its
data is copied from the beginning of the data (`dpdkCapture.cpp:176`); the model does
the same, and `PacketsReadable` asks of data only that its place is its own. A packet
that is not IP is dropped after its place was taken (845-849). It leaves a gap; and when it
would have been the last of its cell, the cell gets no pointer, the thread's next packet is
written over a cell further on, with a pointer at that cell's end, and the length of what
remains of it (154, 176) may underflow, which ends the process. A link
to a header near the end of a cell overwrites the pointer there (`RoomForLinks` excepts
such cells), and the link of a flow
that was silent for a round of the disk is written into another packet. `FlowChained`
and `PacketsReadable` say what is left whole.

*The index node:* a query's address is taken in network byte order and stored in host
order (`indexQuerier.cpp:21-22`), so only an address that is the same both ways is
found; `AnswersHold` compares what was asked as it was understood. Positions lose their
upper 32 bits in the list. A receiver that waits in `recvfrom` sees the stop when a
datagram comes. A datagram with an entry of length 0 keeps it busy for ever. A generator that
is told to stop before its thread has begun never ends, and main waits for it. The entry the generator took just before it noticed the stop is thrown
away.

*The heartbeats:* a post of the code gives up after 2 s without a connection, 2 s of
writing, and 2 s of waiting for the answer; a node sleeps for 5 s between posts unless it is
given another interval, the controller makes its round every 5 s and has a threshold of
15 s (`Controller/main.cpp`). So a node may miss a post and stay alive, but one slow post
that is lost may
suffice to be shown dead. After `asynchronousStop` the server goes on listening
without checking anybody. Jumps of the wall clock, which the code uses, are not modelled.

## 5. Proofs

`PipeRingProofs` proves about `PipeRing`, for every number of rows and puts and any one
producer: the slot permutation is a bijection of its range (`SlotInRing`,
`SlotInjective`, by division with remainder), and then `TypeOK`, `DeliveredInOrder`,
`WriteNotCovered` and `ImplementsQueue`. The argument is one inductive invariant,
`Inv(w)`: `received` is exactly the first puts; every position from `readPos` to
`writePos` has its item in its slot; there are fewer than `Capacity` of them; and what
each thread has read into its locals still is what it was when it read it. `TypeOK`
alone is not inductive: that `get` reads a pointer and not null needs the slots, and
that a `put` hits a free slot needs the bound and the injectivity. The proof that a
step keeps `Inv(w)` has a lemma for the put and one for the get, and a case per
action. `InvMappedNext` shows that `PutAdvance` is a `Put` of the queue, `GetAdvance` a
`Get`, and all else a stutter.
With two producers the invariant is false, as `RegionTwoWorkers` shows for the ring of
the flusher; the theorems say so by their assumption `Producers = {w}`.

`DataNodeProofs` is about `DataNode` and about the `RegionWorker` inside it. About the node it
proves `HandledInOrder`, `OneOwner` and `KnownRegions` for any number
of workers and regions, any lengths of pipes and lines and any requests that
`RequestsWith` forms. The three
follow from one invariant, `NodeInv`, about the way of a signal: the batch, the pipe
to the engine, the engine's hand, the pipe of a worker. Everything on the way is for a
known region and, in a worker's pipe, for a region of that worker (`Placed`); ids rise
within each stage and from a stage to the one behind it (`Ordered`); what is on the way
was sent and is not handled (`AllPending`), and whatever was sent and is not handled is
on the way (`UnderWay`, in `Sequenced`). The last two are needed together: when a
worker takes the head of its pipe, `UnderWay` says that the oldest request of the region
not handled yet is somewhere on the way, `Ordered` that nothing of the region there is
older than the head, and `AllPending` that the head is none of those handled before; so
the head is that request. `Owned` is the part about contexts: a worker has some only
for known regions of its own. There is a lemma per step of the node, and the lemmas on
moving a signal from one stage to the next are shared by three of them. Assumed is
that no request is `None`, the mark of an empty hand.

`NodeTypes` adds the types and the bounds of pipes and line (`Typed`, with `RegionInv`
below). `FeedsWorkersAlways` is the refinement `NodeSpec => Behind!Spec`. Its invariant
adds `Awaited`: the request in the engine's hand, those in the pipe before it and those of
the batch are numbered on, without a gap, from the ones handed over, so the step with which
the engine puts one into a worker's pipe is a step in which `RegionWorker` lets the next
request arrive.

About `RegionWorker` alone the first part of the module proves `TypeOK`, `WithinThreshold` and
`BlocksCoverRows`, for any number of workers and regions and any ring, so also where workers overwrite each
other in the pipe to the flusher: what is lost there is a whole memtable, never the
agreement of one with its rows. The invariant is `RegionInv`. A memtable is `Sound`:
either new, or it has the time range and the size of its rows. What was
frozen has that range in every place it passes: the put, the slot, the flusher, the
file (`Held`, `Flushed`, `Stored`). The part that makes it inductive is `Waiting`: while a
worker is in a put, the region of its request is open with a new memtable; for after
the put the code writes its row into that region without another look at it, and the
row is within the bound only because the memtable is new. `WithinThreshold` and
`BlocksCoverRows` assume nothing of the sizes. A row that does not fit even an empty memtable is
written all the same, so the bound on a memtable is the threshold, or with at most one
row in it the threshold and what the columns count for; and the empty memtable before it is
frozen, so a block may have no rows. Assumed is that `None` is no context and no memtable.

Where the rows are is proved for one worker only, for which the pipe to the flusher is a
queue (`RingInv`: the slots from reader to writer hold signals, and a put that has stored
has stored where the writer is). The program as it stands starts two (`main.cpp:9`); with
two the pipe is no queue, `RegionTwoWorkers` shows rows lost, and the four claims below are
false. They say what the handlers, the freeze and the flusher do when the pipe does
what it was written for, and nothing about two workers, and are therefore not among the
main results in `PROJECT.json`:

* `StoreRefined`: `Spec => ImplementsStore`. The log of a region is the rows of the
  blocks on disk, of the signals on their way, and of the memtable, one behind the other
  (`Log`). The lemmas on `RowsOf` and `SignalsFor` say how this changes when a block, a
  signal or a row is added; then the write of a row is the store's write, a freeze, a
  put and a flush are stutters, and the statuses of regions follow those of their
  contexts. No failing flush is assumed, because one loses rows, and `MaxFailures = 0` says
  so.
* `IndexKeptComplete`: `[]IndexReachesRows`. `IndexInv` relates three counts: the metas
  of an SST, the blocks still on their way to it, and the rows accepted since the region
  was created; nothing is on its way to an SST still to be made. It needs `CreateInv`: a
  CREATE that waits in a pipe is for a region that does not exist, which is what the
  assumption `~Recreate` is for.
* `DiskKeptInOrder`: `[]DiskInOrder`, with failing flushes and regions created again.
  `OrderInv` says that the log of a region has its ids in order, and that every id still
  to come, in the pipe or in the hand of a worker that waits in a put, is above them. A
    failed flush takes a stretch out of the log, and a sequence in order stays so.
* `NodeIsStore`: `StoreRefined` one level up, the whole node implements `RegionStore`.

What these proofs need of the natural numbers stands at the beginning of the module:
that a set of them has a least one, induction, that a function defined by recursion
exists, and that its values have the type that its first value has and its step keeps. The
theorems of the library take an operator, which the provers do not instantiate; here a
property is the set of numbers that have it and a step is a function, and so `RowsOf`,
`SignalsFor` and `Total`, recursive functions all, can be reasoned about. These lemmas are
repeated in `LifecycleProofs`, `IndexNodeProofs` and `SSTBlockProofs`, which share no module
with this one.

`LifecycleProofs` proves `CleanedWhenQuiet`, `NothingVanishes` and `TypeOK` for any
number of workers, any capacity and input. `Joined` says that main's position in the join
loop separates the threads that have ended from those still waited for. It needs that a
thread that has ended stays so, and that by the time of the join every thread was created.
`NothingVanishes` is claimed as far as the code keeps it, with the puts in their steps and all
workers writing into the flusher's pipe: no request is missing ever, and a memtable is missing
only after two puts into that pipe overlapped. A pipe stays within its capacity, but for
the flusher's after such an overlap (`Typed`). For the counts the invariant is `CountInv`: with
`Joined`, `Typed` and `NothingVanishes` it has `Putting` (who waits in a put, and
for which pipe, and that, without an overlap so far, at most one worker is in a put) and
`Counted`. The sums over the components change with a step by what it changes of one
or two of them (`SumChange`, by induction over the components). `NothingVanishes` is not
inductive: it needs `Putting` for what a put moves to where, and the bound of what is
frozen by what was handled, which `TypeOK` needs, needs `Counted`.

`IndexNodeProofs` proves the three invariants of `IndexNode` for any hash functions,
lengths of filters and addresses, datagrams and queries. `OnTheWay` says that everything
between network and index is an entry, and is used by all of them.

* `FilterNeverHides`: whatever a list holds passes the filter before it, whole and by
  every prefix, at every moment. `SetIsFound` says this of a filter without the node, by
  the regions of the three kinds of key. `Filtered` is the inductive strengthening: the
  rows of every listed key are set, and when the generator is about to list a key its rows
  are set too. Without that last part nothing follows for the step that lists a key.
* `AnswersAlways`: `Querying` says, for a search under way, that what the key had when the
  search was asked is the end of what it has now, and for one that is over that its answer
  lies between the two. A list grows at its end, so what it has for a key grows at
  its beginning (`PositionsAppend`), and cutting positions to 32 bits keeps this. The
  step where the filter says no needs `Filtered`: then the list has nothing for the key
  (`PositionsNone`), so an empty answer is complete.
* `AccountedAlways`: `Accounting` says that the ring holds the entries received last, and
  the generator's hand the one before them (`InPlace`); what may have been thrown away,
  and when (`Dropping`); and that each list has the positions of the entries that have
  entered it, in the order of coming (`Complete`).
  An entry enters four lists in four steps; `FieldsApart`, that its four keys have four
  types, is why a step that lists one key adds one entry to one list and none twice.

Assumed is that the bloom lengths are at least one and IPv6 addresses longer than IPv4
ones, which the code's constants are; that `None` is no entry; and that a query is for
one of the four fields `parseQuery` knows.

`DataBlockBufferProofs` proves `SealedBlocks`, `CompleteBlocks`, `TakenOnce` and
`NothingLeft` for any number of blocks, cells, capture and disk threads, any disk, any reach
of the links, with and without failing writes, under `DelayFits`. `BufferTypes` needs no
such assumption. All counters of the code go around the disk, so an order between
them is the first thing to be had. The invariant `RInv` is about numbers that do not go around, of which the code's are the remainders (`Ghosts`): the disk block `B` of the
oldest memory block, the number `N` of cells taken, for each capture thread its cells, the
cell `g` its packet starts in (its own, or for a stray packet the one behind it) and
the block `d` it has told, for each disk thread the block it looks at. `Ordered` says that there are such numbers. It
is an existential statement over unbounded numbers that TLC cannot evaluate, so it was never
checked on an instance; what TLC checked before are the properties. The argument:

* `CellsNear`: cells taken reach over three buffers at most. A cell beyond the window
  from `B` is the cell, or the one before it, of some thread, and there are two of
  those per thread; so there are no more of them than pigeonholes. As the disk is more
  than four times the memory, remainders in this range tell blocks apart (`ModApart`), and
  `Past`, the test with the two intervals, is true only of a thread that is past (`PastIs`).
* `WriterOK` describes a thread by how many writes of its packet are left: which cells they
  go to, and that it tells no block beyond the next of them (`Ahead`). That it may go on
  past the end of a block only because `writeBlock` saw the next one stand there too is
  what keeps it in the window.
* `CellsOK`: a cell that was taken is some thread's own, or done: written up to its pointer, or
  its thread was carried out of it by a packet that was dropped (`done`). So when all
  threads have told that they are past a block, its cells are done (`CompleteBlocks`).
* `NotAllFurther`: the slowest thread tells no more than the block after the window, for the
  first cell there is its own or not yet taken. So a disk thread that finds all of
  them past its block looks at the oldest one, and nothing else is taken (`TakenOK`):
  hence `TakenOnce`. `SealedBlocks` follows, because a thread that copies has told a block
  of the window, and a block is taken when none has.

The delay is used in the last two: it makes "past the block" mean "past the window". Once a
disk thread was told to stop, the capture threads have ended and copy nothing (`Stopped`);
`CompleteBlocks` and `TakenOnce` speak of the time before. `NothingLeft` speaks of the time
after, when blocks are taken in any order, and twice:

* `DirtyOK`, before the stop: for a block of the window with something in it there is a
  thread that has told a block at least as far and will tell none before it (`Reached`).
  What `directCheckRSS` asks of the block is then true of every block of the window up to
  it, whichever threads stopped further back (`DirectIs`).
* `DrainOK`, after it: a block with something in it is taken, or some disk thread that has
  not ended comes to it. A disk thread goes on by `CheckNum` blocks, around memory, until
  it finds a block that no capture thread has come to, so it comes to a block when
  there is none such on its way (`Path`). A block that is recycled becomes one such, which is
  why no block on the way may be taken either (`Clear`).
* At the stop the disk threads look at as many different blocks in a row, so each residue
  has its thread (`AllTurns`, `AllCome`). Afterwards, when a thread takes a block that was on
  the way of another, what the other came to behind it the taker comes to from there
  (`DrainGets`). A thread that ends finds a block that is not `Due`, so its way was empty.

`DelayFits` also bounds how far a stray packet goes: by one cell, in blocks of more than
one. A packet that lands in the cell behind its thread's own is then no more than a block
ahead of what the thread tells. The code has no such bound (`ProbeCells` shows where the packet
goes).

TLC checked `DrainOK` first, with three blocks and two disk threads: on the reachable
states, and that one step keeps it from any stopped state. For delays that do not fit all
four properties stay with TLC.

`SSTBlockProofs` proves `LayoutSound` and `NumbersReadBack` for any columns, lengths of names
and strings, rows and blocks. The sizes the code adds up in loops are `Sums`, a recursive
function whose equations follow from the lemmas above (`SumsAre`); the row size times
the number of rows and the like are products of unknowns, for which two facts suffice.
`Part(P, lo, hi)` says that the fields of `P` lie between two places and do not run into each
other. A part behind a part is one (`TwoParts`), and so are parts placed by a sequence of
places that grows (`ManyParts`): columns in a row, rows, strings in a row of strings. Each part
of a block ends where the next begins, though the code computes the two in different
functions, and the last ends within `DiskSize` (`BlockPart`). `BlockInv` is the file: a meta
holds the start of its block, and blocks follow one another. `ReadsBack` combines them: two
fields at one place with one size that is not zero are the same, so a read gives what was
written; and then the reader, who adds up the column sizes it has read, adds up those that
the writer added. Assumed is only what the types say, that lengths are natural numbers.

`CaptureCellsProofs` proves `PacketsReadable` and `FlowChained` for any number of capture
threads, any flows, lengths of packets, sizes and number of cells, and any threshold.
Assumed is that a link is no longer than a pointer (4 and 8 bytes in the code), that the
longest packet fits a cell with the pointer, and that there are fewer threads than
cells. The invariant, `CInv`, is the layout of the disk, in terms of cells and places in
them; most of its proof is that a write of the code changes these bytes and no others
(`StoreFits`, with the link, in one cell; `StoreSplit` in two or three).

* `Claiming` ties the offset a thread will go on at, which `getOffset` has counted forward
  already, to the place and length of the packet in hand: `Claimed` for one in the
  thread's cell, `Astray` for one that starts behind it because a dropped packet had
  carried the offset past the end of the cell; `OwnCells` says that no cell is
  that of two threads. `Apart` says that packets of a cell follow one another and end
  before its thread goes on. Only the last packet of a cell is split, so what is written at
  the end of a cell meets none.
* `Intact` is what can be read of a packet, in its cell and over the pointer. That the
  rest of a split packet survives is not inductive by itself: the cell it is in
  must be taken later than the packet's own, with nothing else so near its beginning
  (`GoesOn`). Then, when cells are taken again in turn, the packet is forgotten before its
  rest is overwritten. The age of a cell, how many were taken after it, is what orders
  them (`InOrder`); a step that takes one adds one to each age and makes the oldest the
  youngest.
* `Tables` says that the flow table leads to the flow's latest packet while that is
  still there, and `Linking` that the first bytes of a packet hold the difference to the
  next one of the flow. A link is written into a packet's first bytes, a packet is
  followed by one only, and the cell taken holds no packet that a link of a later
  one must survive in.

All of this is said of what the code keeps. A stray packet is copied into cells of other
threads, and a link is written where its packet may be no more; the bytes hit are in `spoilt`
and the flows in `strayed`, and `Intact`, `Tables` and `Linking` except these bytes and flows
and no others. TLC checked `CInv` on `ProbeCells` before it was proved. It was a first
attempt at the proof that showed a mistake in the model: a link from a packet to one in
the very cell that the packet goes on in was taken for a link to a packet still present,
although that one is just being overwritten. `Present` now asks for the packets that are kept.

`SkipListProofs` proves `LevelsSorted` and the refinement `ImplementsList` for any keys,
any number of levels and any bound of the nodes, with an insertion and a search stopped
anywhere between two accesses to a pointer. The only assumptions are that keys are numbers,
that there is a level, and that `None` is none of the values it stands beside. The
invariant has four parts, and TLC checked it (with three nodes) before it was proved:

* `LevelsInv`: on each level the pointer of every node linked there leads to the next in
  the order of `Precedes`, or nowhere if it is the last. "Linked" speaks of where the
  insertion has got to, so that a node is on its lower levels before it is on the others.
* `InsInv`: for each level it still has to link, the insertion knows the last node before
  its place (`LastAt`); between `Link` and `Publish` its own pointer already leads where
  that node's pointer leads. That `Update` finds these nodes (`UpdateIs`) is about a
  recursive function over the nodes, by the last counterexample in the order of the level
  (`LastBeforeIs`); it rests on the node found at one level being linked at the one below.
  `Spliced` then says what one changed pointer does to a level in order.
* `SearchInv`, through the levels (`Stands`): a search stands at a node of its level, with
  a smaller key than the one it looks for. It reads a pointer in `Test`, and reads it anew
  in `Compare` and in `Move`: meanwhile the pointer may change, but only to a node
  between the two, so it never becomes `None`, and what was smaller stays smaller.
* `SearchInv`, in the scan (`Scans`): there is a choice of a moment for each key wanted,
  rising with the keys and none before the search began, such that what is listed is what
  was there for each key at its moment, as far as the scan has come (`Moments`). A step
  of the scan chooses the present (`Seen`) for the keys that the next pointer leaves behind
  and leaves the others. This choice is the witness of the step `End` of `IndexList`
  (`ReturnRefines`). An insertion appears in the abstract list with the `Publish` of the
  lowest level (`PublishRefines`), and every other step is a stutter.

At the end of `IndexNodeProofs` both properties of `Heartbeat` are proved, for any nodes,
any times and any bound of the clock, from the one assumption that `SendTime + ReadTime +
Interval` is within the threshold. `HInv` adds to the types that nothing is overdue by more than its
time (`InTime`), that after a round of the health thread the table agrees with the clock
of that round (`Checked`), and, per state of a client that missed no post, how old its
last heartbeat can be (`Recent`); the sum of these ages is the sum of the assumption.

Only model-checked:

* Liveness (`EveryPutReceived`, `FrozenReachesDisk`, `EveryRequestHandled`,
    `CalmQuitExits`, `OnlyDiskStalls`, `SearchEnds`, `StoppedDrains`), which TLAPS does
  not handle.
* `DelayFits` is an assumption of the theorems on `DataBlockBuffer`; other delays stay
  with TLC, and so do two producers for a pipe, where rows are lost.

## 6. Not modelled

* Vendored and generated code: `httplib.hpp`, `demo.pb.*` and `demo.grpc.pb.*` are about
  two thirds of all lines of implementation. The map's share of all lines stays low for
  this reason; much of what remains is commented out, dispatch over types, or logging.
* In the probe, index entries and `DiskManager::runIndex`: `IndexBlockBuffer` and the
  class entries are posted to are not in the repository. The read side of `DiskAgent`,
  which no thread uses. Statistics of blocks. `Probe` itself, whose initialisation is
  commented out.
* In the first version, the sending side, because it does not compose: `FlowSender`'s
  constructor never sets its map, the values of the map are no addresses that its UDP
  sender takes, and `DataNode/main.cpp` does not match the constructor it calls;
  `libpcapReader` calls `writeBefore` with its arguments swapped; `tcpServer` is
  included nowhere; `MetaServer` is a generated service that logs.
* Output of a list to a file (`outputToChar`), which nothing calls. Answers of the
  querier beyond their positions.
* In the data node, logging; memory management, among it a leak of every signal handled
  for an open region and the two owners of a block from `loadBlock`, which nothing
  calls; the contents of rows beyond what the layout needs; the partitions of a region,
  which the data node stores and does not use.
* The controller, the interface and the front end, which are skeletons or empty.
