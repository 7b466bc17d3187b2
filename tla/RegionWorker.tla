---------------------------- MODULE RegionWorker ----------------------------
(***************************************************************************)
(* The region workers and the flusher of a data node                       *)
(* (src/src/dataNode/regionWorker.cpp, flusher.cpp; memtable, region and   *)
(* SST in dataNodeLib).  A worker owns the contexts of its regions, keeps  *)
(* the rows of an open region in a memtable and, when the memtable is full *)
(* or the region closes, hands it to the flusher, which appends it as one  *)
(* block to the file of the region.                                        *)
(*                                                                         *)
(* A worker's own pipe has one writer and one reader and is a queue (the   *)
(* theorem Refinement of PipeRingProofs).  The pipe to the flusher is      *)
(* shared by all workers and is modelled as the ring it is, with the steps *)
(* of put interleaved; its slot permutation, which is injective, is left   *)
(* out.  A frozen memtable is reachable only through the flush signal that *)
(* carries it, so the signal carries the rows themselves.                  *)
(***************************************************************************)
EXTENDS Naturals, Sequences, FiniteSets

CONSTANTS WorkerCount,  \* region workers
          Regions,      \* region ids
          Sizes,        \* sizes of rows (calRowSize, fixed and variable part)
          Times,        \* timestamps of rows
          MaxTime,      \* the largest u_int64_t, above every timestamp
          Base,         \* what an empty memtable counts for its columns
          Threshold,    \* the attribute memTableUsageThreshold
          PipeBound,    \* how many signals fit in a worker's pipe
          RingSize,     \* slots of the pipe to the flusher
          Recreate,     \* whether clients create regions that exist
          MaxRequests,  \* bound: requests
          MaxFailures,  \* bound: flushes that fail
          None          \* no context, no signal

ASSUME WorkerAssumption ==
  /\ WorkerCount \in Nat \ {0} /\ Regions \subseteq Nat
  /\ Sizes \subseteq Nat \ {0} /\ Times \subseteq Nat
  /\ MaxTime \in Nat /\ \A t \in Times : t < MaxTime
  /\ Base \in Nat /\ Threshold \in Nat /\ PipeBound \in Nat \ {0}
  /\ RingSize \in Nat /\ RingSize > 1
  /\ Recreate \in BOOLEAN /\ MaxRequests \in Nat /\ MaxFailures \in Nat

Workers == 0 .. WorkerCount - 1

VARIABLES
  requests,     \* how many requests have been generated
  enginePipe,   \* per worker: the pipe from the engine
  regions, closedRegions, dropingRegions, \* per worker: context of each region
  put,          \* per worker: the put into flusherPipe it is in, or None
  slots, writePos, readPos,               \* flusherPipe
  flushing,     \* the signal the flusher is handling, or None
  files,        \* per region: the blocks of its file on disk
  metas,        \* per region: the metas of every SST ever made for it
  failures,     \* flushes that failed
  accepted,     \* history, per region: the rows its worker wrote to memtables
  born          \* history, per region: how many of them precede its creation

flusherPipe == <<slots, writePos, readPos>>
contexts    == <<regions, closedRegions, dropingRegions>>
disk        == <<files, metas, failures>>
history     == <<accepted, born>>
vars == <<requests, enginePipe, contexts, put, flusherPipe, flushing, disk, history>>
-----------------------------------------------------------------------------
(* Data. *)

Row(id, t) == <<id, t>>

Write(id, r, t, size) == [kind |-> "WRITE", id |-> id, region |-> r, ts |-> t, size |-> size]

(* An ADMIN or QUERY request; ok says whether its attributes parse.        *)
Admin(id, op, r, ok) == [kind |-> op, id |-> id, region |-> r, ok |-> ok]

(* Memtable(column_names) *)
NewMemtable == [rows |-> << >>, used |-> Base, min |-> MaxTime, max |-> 0]

(* Faulty variant: the latest time is left alone by a row that moves the   *)
(* earliest.                                                               *)
WrittenElse(mem, q) == [rows |-> Append(mem.rows, Row(q.id, q.ts)),
                        used |-> mem.used + q.size,
                        min  |-> IF q.ts < mem.min THEN q.ts ELSE mem.min,
                        max  |-> IF q.ts >= mem.min /\ q.ts > mem.max THEN q.ts ELSE mem.max]

(* Memtable::write and addRowSize *)
Written(mem, q) == [rows |-> Append(mem.rows, Row(q.id, q.ts)),
                    used |-> mem.used + q.size,
                    min  |-> IF q.ts < mem.min THEN q.ts ELSE mem.min,
                    max  |-> IF q.ts > mem.max THEN q.ts ELSE mem.max]

(* FlushSignal: the memtable, its time range, and the SST of its region.   *)
Signal(r, ctx) == [region |-> r, sst |-> ctx.sst, rows |-> ctx.mem.rows,
                   start |-> ctx.mem.min, end |-> ctx.mem.max]

Open(w, r)   == regions[w][r] # None
Closed(w, r) == closedRegions[w][r] # None

Init == /\ requests = 0
        /\ enginePipe = [w \in Workers |-> << >>]
        /\ regions = [w \in Workers |-> [r \in Regions |-> None]]
        /\ closedRegions = [w \in Workers |-> [r \in Regions |-> None]]
        /\ dropingRegions = [w \in Workers |-> [r \in Regions |-> None]]
        /\ put = [w \in Workers |-> None]
        /\ slots = [i \in 0 .. RingSize - 1 |-> None]
        /\ writePos = 0 /\ readPos = 0
        /\ flushing = None
        /\ files = [r \in Regions |-> << >>]
        /\ metas = [r \in Regions |-> << >>]
        /\ failures = 0
        /\ accepted = [r \in Regions |-> << >>]
        /\ born = [r \in Regions |-> 0]
-----------------------------------------------------------------------------
(* MitoEngine *)

(* Faulty variant: requests go to the workers in turn. *)
RoundRobin(r) == requests % WorkerCount

(* regionIDToWorkerID *)
WorkerOf(r) == r % WorkerCount

(* Faulty variant: the put does not wait for room. *)
DispatchAnyway(q) == LET w == WorkerOf(q.region) IN
  enginePipe' = [enginePipe EXCEPT ![w] = Append(@, q)]

(* handleSignal: the put into the pipe of the worker of the region.        *)
Dispatch(q) == LET w == WorkerOf(q.region) IN
  /\ Len(enginePipe[w]) < PipeBound
  /\ enginePipe' = [enginePipe EXCEPT ![w] = Append(@, q)]

Exists(r) == \E w \in Workers : Open(w, r) \/ Closed(w, r)

(* The requests the server may form, and those it may hand over next.      *)
RequestsWith(id) ==
  {Write(id, r, t, s) : r \in Regions, t \in Times, s \in Sizes} \cup
  {Admin(id, op, r, TRUE) : op \in {"CREATE", "OPEN", "CLOSE", "DROP"}, r \in Regions} \cup
  {Admin(id, "CREATE", r, FALSE) : r \in Regions}

NextRequests == RequestsWith(requests + 1)
-----------------------------------------------------------------------------
(* RegionWorker *)

(* getSignal: a worker that is in no handler takes the next signal of its  *)
(* pipe; the actions below handle it, q being that signal.                 *)
Take(w) == /\ put[w] = None
           /\ enginePipe' = [enginePipe EXCEPT ![w] = Tail(@)]
           /\ UNCHANGED requests

(* Faulty variant: the frozen memtable stays the memtable of the region.   *)
SendAndKeep(w, q) == LET r == q.region IN
  /\ put' = [put EXCEPT ![w] = [request |-> q, signal |-> Signal(r, regions[w][r]),
                                pos |-> writePos, stored |-> FALSE]]
  /\ UNCHANGED <<regions, closedRegions, dropingRegions>>

(* sendFlushSignal up to the position read by put: the memtable is frozen  *)
(* and replaced, the signal made.  The rest of the handler follows the put.*)
SendFlushSignal(w, q) == LET r == q.region IN
  /\ regions' = [regions EXCEPT ![w][r].mem = NewMemtable]
  /\ put' = [put EXCEPT ![w] = [request |-> q, signal |-> Signal(r, regions[w][r]),
                                pos |-> writePos, stored |-> FALSE]]
  /\ UNCHANGED <<closedRegions, dropingRegions>>

(* Memtable::write and addRowSize on the memtable of the region.           *)
WriteRow(w, q) == LET r == q.region IN
  /\ regions' = [regions EXCEPT ![w][r].mem = Written(@, q)]
  /\ accepted' = [accepted EXCEPT ![r] = Append(@, Row(q.id, q.ts))]

(* Faulty variant: the row is not counted before it is written.            *)
FitsBefore(w, q) == regions[w][q.region].mem.used <= Threshold

(* handleWrite's second check, on checkRegionMemUsage. *)
Fits(w, q) == regions[w][q.region].mem.used + q.size <= Threshold

(* handleWrite, with room in the memtable. *)
HandleWrite(w, q) == LET r == q.region IN
  /\ Take(w)
  /\ q.kind = "WRITE" /\ Open(w, r) /\ q.size <= Threshold
  /\ Fits(w, q)
  /\ WriteRow(w, q)
  /\ UNCHANGED <<closedRegions, dropingRegions, put, flusherPipe, flushing, disk, born>>

(* handleWrite, when the row would take the memtable over the threshold.   *)
HandleWriteFull(w, q) ==
  /\ Take(w)
  /\ q.kind = "WRITE" /\ Open(w, q.region) /\ q.size <= Threshold
  /\ ~Fits(w, q)
  /\ SendFlushSignal(w, q)
  /\ UNCHANGED <<flusherPipe, flushing, disk, history>>

(* handleStatus, CREATE. *)
CanCreate(w, q) == q.kind = "CREATE" /\ ~(Open(w, q.region) /\ Closed(w, q.region)) /\ q.ok

Create(w, q) == LET r == q.region IN
  /\ Take(w)
  /\ CanCreate(w, q)
  /\ metas' = [metas EXCEPT ![r] = Append(@, << >>)]
  /\ closedRegions' = [closedRegions EXCEPT ![w][r] =
                         [sst |-> Len(metas[r]) + 1, mem |-> None]]
  /\ born' = [born EXCEPT ![r] = IF Exists(r) THEN @ ELSE Len(accepted[r])]
  /\ UNCHANGED <<regions, dropingRegions, put, flusherPipe, flushing, files, failures, accepted>>

(* handleStatus, OPEN. *)
CanOpen(w, q) == q.kind = "OPEN" /\ ~Open(w, q.region) /\ Closed(w, q.region)

OpenRegion(w, q) == LET r == q.region IN
  /\ Take(w)
  /\ CanOpen(w, q)
  /\ regions' = [regions EXCEPT ![w][r] =
                   [closedRegions[w][r] EXCEPT !.mem = NewMemtable]]
  /\ closedRegions' = [closedRegions EXCEPT ![w][r] = None]
  /\ UNCHANGED <<dropingRegions, put, flusherPipe, flushing, disk, history>>

(* Faulty variant: the memtable of a closed region is kept. *)
MoveWithMemtable(w, r) ==
  /\ closedRegions' = [closedRegions EXCEPT ![w][r] = regions[w][r]]
  /\ regions' = [regions EXCEPT ![w][r] = None]

(* handleStatus, CLOSE: the context moves to the closed regions without a  *)
(* memtable.                                                               *)
MoveToClosed(w, r) ==
  /\ closedRegions' = [closedRegions EXCEPT ![w][r] = [regions[w][r] EXCEPT !.mem = None]]
  /\ regions' = [regions EXCEPT ![w][r] = None]

(* Faulty variant: off by one, a single row is no reason to flush. *)
HasManyRows(w, r) == Len(regions[w][r].mem.rows) > 1

HasRows(w, r) == regions[w][r].mem.rows # << >>

CanClose(w, q) == q.kind = "CLOSE" /\ Open(w, q.region)

CloseEmpty(w, q) ==
  /\ Take(w)
  /\ CanClose(w, q) /\ ~HasRows(w, q.region)
  /\ MoveToClosed(w, q.region)
  /\ UNCHANGED <<dropingRegions, put, flusherPipe, flushing, disk, history>>

CloseFull(w, q) ==
  /\ Take(w)
  /\ CanClose(w, q) /\ HasRows(w, q.region)
  /\ SendFlushSignal(w, q)
  /\ UNCHANGED <<flusherPipe, flushing, disk, history>>

(* handleStatus, DROP. *)
CanDrop(w, q) == q.kind = "DROP" /\ ~Open(w, q.region) /\ Closed(w, q.region)

Drop(w, q) == LET r == q.region IN
  /\ Take(w)
  /\ CanDrop(w, q)
  /\ dropingRegions' = [dropingRegions EXCEPT ![w][r] = closedRegions[w][r]]
  /\ closedRegions' = [closedRegions EXCEPT ![w][r] = None]
  /\ UNCHANGED <<regions, put, flusherPipe, flushing, disk, history>>

(* Every other signal is answered in the log alone: a row above the        *)
(* threshold, a query, an operation the state of the region does not       *)
(* allow, a region the worker does not have, attributes that do not parse. *)
Ignore(w, q) ==
  /\ Take(w)
  /\ q.kind = "WRITE" => ~Open(w, q.region) \/ q.size > Threshold
  /\ ~(CanCreate(w, q) \/ CanOpen(w, q) \/ CanClose(w, q) \/ CanDrop(w, q))
  /\ UNCHANGED <<contexts, put, flusherPipe, flushing, disk, history>>

(* Faulty variant: what the flusher has read is not given back. *)
RingUsedUp == writePos >= RingSize - 1

(* The condition on which put waits. *)
RingFull == writePos = RingSize - 1 + readPos

(* PipeRing::put, the wait for room and the store. *)
PutStore(w) ==
  /\ put[w] # None /\ ~put[w].stored
  /\ ~RingFull
  /\ slots' = [slots EXCEPT ![put[w].pos % RingSize] = put[w].signal]
  /\ put' = [put EXCEPT ![w].stored = TRUE]
  /\ UNCHANGED <<requests, enginePipe, contexts, writePos, readPos, flushing, disk, history>>

(* PipeRing::put returns and the handler that flushed goes on: handleWrite *)
(* writes its row, CLOSE moves the context.                                *)
PutReturn(w) ==
  /\ put[w] # None /\ put[w].stored
  /\ writePos' = writePos + 1
  /\ put' = [put EXCEPT ![w] = None]
  /\ \/ /\ put[w].request.kind = "WRITE"
        /\ WriteRow(w, put[w].request)
        /\ UNCHANGED closedRegions
     \/ /\ put[w].request.kind = "CLOSE"
        /\ MoveToClosed(w, put[w].request.region)
        /\ UNCHANGED accepted
  /\ UNCHANGED <<requests, enginePipe, dropingRegions, slots, readPos, flushing, disk, born>>
-----------------------------------------------------------------------------
(* Flusher *)

(* getSignal; a null pointer in the slot is no signal. *)
GetFlush ==
  /\ flushing = None
  /\ writePos # readPos
  /\ flushing' = slots[readPos % RingSize]
  /\ readPos' = readPos + 1
  /\ UNCHANGED <<requests, enginePipe, contexts, put, slots, writePos, disk, history>>

Block(s) == [rows |-> s.rows, start |-> s.start, end |-> s.end]

(* handleFlush, SST::appendMemtable, SSTBlockMeta::flushBlock. *)
HandleFlush ==
  /\ flushing # None
  /\ files' = [files EXCEPT ![flushing.region] = Append(@, Block(flushing))]
  /\ metas' = [metas EXCEPT ![flushing.region][flushing.sst] = Append(@, Block(flushing))]
  /\ flushing' = None
  /\ UNCHANGED <<requests, enginePipe, contexts, put, flusherPipe, failures, history>>

(* Faulty variant: the signal is put back to be tried again. *)
FlushRetries ==
  /\ flushing # None
  /\ failures < MaxFailures
  /\ failures' = failures + 1
  /\ flushing' = None
  /\ slots' = [slots EXCEPT ![writePos % RingSize] = flushing]
  /\ writePos' = writePos + 1
  /\ UNCHANGED <<requests, enginePipe, contexts, put, readPos, files, metas, history>>

(* The file does not open: the exception is logged, the signal deleted and *)
(* its memtable with it.                                                   *)
FlushFails ==
  /\ flushing # None
  /\ failures < MaxFailures
  /\ failures' = failures + 1
  /\ flushing' = None
  /\ UNCHANGED <<requests, enginePipe, contexts, put, flusherPipe, files, metas, history>>
-----------------------------------------------------------------------------
Handle(w) == /\ enginePipe[w] # << >>
             /\ LET q == Head(enginePipe[w]) IN
                  \/ HandleWrite(w, q) \/ HandleWriteFull(w, q) \/ Create(w, q)
                  \/ OpenRegion(w, q) \/ CloseEmpty(w, q) \/ CloseFull(w, q)
                  \/ Drop(w, q) \/ Ignore(w, q)
Worker(w) == Handle(w) \/ PutStore(w) \/ PutReturn(w)
Flusher   == GetFlush \/ HandleFlush \/ FlushFails

(* The engine hands over another request.  Unless Recreate, a client does  *)
(* not create a region that exists or is being created.                    *)
Existing(r) == \/ Exists(r)
               \/ \E w \in Workers : \E i \in DOMAIN enginePipe[w] :
                    enginePipe[w][i].kind = "CREATE" /\ enginePipe[w][i].region = r

Engine == \E q \in NextRequests :
  /\ requests < MaxRequests
  /\ q.kind = "CREATE" => Recreate \/ ~Existing(q.region)
  /\ Dispatch(q)
  /\ requests' = requests + 1
  /\ UNCHANGED <<contexts, put, flusherPipe, flushing, disk, history>>

Next == Engine \/ Flusher \/ \E w \in Workers : Worker(w)

Spec == Init /\ [][Next]_vars

(* Worker and flusher threads poll their pipes for ever and the scheduler  *)
(* runs each of them.                                                      *)
Fairness == /\ WF_vars(GetFlush \/ HandleFlush)
            /\ \A w \in Workers : WF_vars(Worker(w))

FairSpec == Spec /\ Fairness
-----------------------------------------------------------------------------
(* Types. *)

Ids == 1 .. MaxRequests
RowSet == {Row(id, t) : id \in Ids, t \in Times}
Memtables == [rows : Seq(RowSet), used : Nat, min : Nat, max : Nat]
Contexts == [sst : Nat \ {0}, mem : Memtables \cup {None}]
Signals == [region : Regions, sst : Nat \ {0}, rows : Seq(RowSet), start : Nat, end : Nat]
Blocks == [rows : Seq(RowSet), start : Nat, end : Nat]
Requested == UNION {RequestsWith(id) : id \in Ids}
Puts == [request : Requested, signal : Signals, pos : Nat, stored : BOOLEAN]

ASSUME NoContextAssumption ==
  None \notin Memtables \cup Contexts \cup Signals \cup Puts
-----------------------------------------------------------------------------
(* The rows accepted for a region: on disk, being flushed, in the pipe to  *)
(* the flusher, in a put, in the memtable.                                 *)

(* The rows of those blocks, or signals, that are in S, in their order.    *)
RowsIn(blocks, S) ==
  LET f[i \in 0 .. Len(blocks)] ==
        IF i = 0 THEN << >>
        ELSE f[i - 1] \o (IF blocks[i] \in S THEN blocks[i].rows ELSE << >>)
  IN  f[Len(blocks)]

RowsOf(blocks) == RowsIn(blocks, Blocks)

SignalsOf(r)       == {s \in Signals : s.region = r}
SignalsFor(r, sst) == {s \in SignalsOf(r) : s.sst = sst}

Optional(x) == IF x = None THEN << >> ELSE <<x>>

(* The signals on their way to the disk, oldest first, when one worker is  *)
(* the only writer of the pipe.                                            *)
InFlight(w) == Optional(flushing)
               \o [i \in 1 .. writePos - readPos |-> slots[(readPos + i - 1) % RingSize]]
               \o (IF put[w] = None THEN << >> ELSE <<put[w].signal>>)

MemRows(w, r) == IF Open(w, r) THEN regions[w][r].mem.rows ELSE << >>

Frozen(w, r) == RowsIn(InFlight(w), SignalsOf(r))

Log(w, r) == RowsOf(files[r]) \o Frozen(w, r) \o MemRows(w, r)
-----------------------------------------------------------------------------
(* Properties. *)

(* Every variable keeps its type; an open region has a memtable, no other  *)
(* has one; the signals in the pipe are signals.                           *)
TypeOK ==
  /\ requests \in 0 .. MaxRequests
  /\ \A w \in Workers : Len(enginePipe[w]) <= PipeBound
  /\ \A w \in Workers, r \in Regions :
       /\ regions[w][r] \in Contexts \cup {None}
       /\ Open(w, r) => regions[w][r].mem # None
       /\ closedRegions[w][r] \in Contexts \cup {None}
       /\ Closed(w, r) => closedRegions[w][r].mem = None
       /\ dropingRegions[w][r] \in Contexts \cup {None}
  /\ \A w \in Workers : put[w] \in Puts \cup {None}
  /\ slots \in [0 .. RingSize - 1 -> Signals \cup {None}]
  /\ writePos \in Nat /\ readPos \in Nat /\ readPos <= writePos
  /\ flushing \in Signals \cup {None}
  /\ files \in [Regions -> Seq(Blocks)]
  /\ metas \in [Regions -> Seq(Seq(Blocks))]
  /\ accepted \in [Regions -> Seq(RowSet)]

(* A data node is a region store: whatever flushes, closings and openings  *)
(* move about, the rows on disk, on their way there and in the memtable    *)
(* are together the log of the region, in order, none lost or repeated.    *)
Status(r) == LET w == WorkerOf(r) IN
  CASE Open(w, r) -> "open"
    [] ~Open(w, r) /\ Closed(w, r) -> "closed"
    [] ~Open(w, r) /\ ~Closed(w, r) /\ dropingRegions[w][r] # None -> "dropped"
    [] OTHER -> "absent"

Store == INSTANCE RegionStore
           WITH Rows <- RowSet, status <- [r \in Regions |-> Status(r)],
                log <- [r \in Regions |-> Log(WorkerOf(r), r)]

ImplementsStore == Store!Spec

(* "stay in memory util drop region": the SST of a region that is open or  *)
(* closed leads to every row accepted since the region was created, the    *)
(* rows still to be flushed included.                                      *)
Context(w, r) == IF Open(w, r) THEN regions[w][r] ELSE closedRegions[w][r]

IndexReachesRows ==
  \A r \in Regions : LET w == WorkerOf(r) IN
    Exists(r) =>
      LET sst == Context(w, r).sst
      IN  RowsOf(metas[r][sst])
            \o RowsIn(InFlight(w), SignalsFor(r, sst))
            \o MemRows(w, r)
          = SubSeq(accepted[r], born[r] + 1, Len(accepted[r]))

(* The time range of a block, by which it will be looked up, is that of    *)
(* its rows.  A block may have none: the row that does not fit an empty    *)
(* memtable has it flushed as well (handleWrite); its range holds no time. *)
Covers(b) == LET ts == {b.rows[i][2] : i \in DOMAIN b.rows} IN
  IF b.rows = << >> THEN b.start = MaxTime /\ b.end = 0
  ELSE /\ b.start \in ts /\ b.end \in ts
       /\ \A t \in ts : b.start <= t /\ t <= b.end

BlocksCoverRows == /\ \A r \in Regions : \A i \in DOMAIN files[r] : Covers(files[r][i])
                   /\ flushing # None => Covers(flushing)

(* The memtable of an open region outgrows the threshold only by what its *)
(* columns count, and only while it holds no second row: a row within the  *)
(* threshold is written into an empty memtable whether or not the columns  *)
(* leave room for it (handleWrite's two checks, the accounting of          *)
(* addRowSize).                                                            *)
WithinThreshold == \A w \in Workers, r \in Regions :
  Open(w, r) => LET mem == regions[w][r].mem IN
    \/ mem.used <= Threshold
    \/ Len(mem.rows) <= 1 /\ mem.used <= Threshold + Base

(* What is on disk keeps the order in which rows were accepted and holds   *)
(* no row twice, also when flushes fail and regions are created again.     *)
DiskInOrder == \A r \in Regions : LET rows == RowsOf(files[r]) IN
  \A i, j \in DOMAIN rows : i < j => rows[i][1] < rows[j][1]

(* Once nothing is on its way to the disk any more, the disk and the       *)
(* memtable of a region hold all its rows.                                 *)
Quiet == /\ flushing = None /\ readPos = writePos /\ \A w \in Workers : put[w] = None

NothingLost == Quiet => \A r \in Regions :
  LET rows == RowsOf(files[r]) \o MemRows(WorkerOf(r), r)
  IN  \A i \in DOMAIN accepted[r] : \E j \in DOMAIN rows : rows[j] = accepted[r][i]

(* A row whose memtable was handed over for flushing reaches the disk: the *)
(* put that may have to wait for the flusher returns and the flusher, which*)
(* polls, gets to the signal (sendFlushSignal, PipeRing::put, Flusher::run,*)
(* handleFlush).                                                           *)
HasId(rows, id) == \E i \in DOMAIN rows : rows[i][1] = id

FrozenReachesDisk == \A r \in Regions, id \in Ids :
  HasId(Frozen(WorkerOf(r), r), id) ~> HasId(RowsOf(files[r]), id)
=============================================================================
