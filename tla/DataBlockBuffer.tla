--------------------------- MODULE DataBlockBuffer ---------------------------
(***************************************************************************)
(* The packet buffer of a probe, between its capture threads and the disk  *)
(* (src/src/probe: probeLib/dataBlockBuffer.hpp, diskManager.cpp,          *)
(* probeLib/diskAgent.hpp, the writes of dpdkCapture.cpp).                 *)
(*                                                                         *)
(* The disk is a circle of blocks, a block a row of cells.  A capture      *)
(* thread takes cells from one shared counter and fills them with packets; *)
(* the last bytes of a full cell point to the thread's next one.  Memory   *)
(* holds BlockNum blocks, each standing for one disk block at a time.      *)
(* There are no locks: a capture thread writes when the memory block       *)
(* stands for the disk block it wants, and tells where it writes; a disk   *)
(* thread takes the next block when all capture threads have told that     *)
(* they are Delay blocks past it.                                          *)
(*                                                                         *)
(* Positions are those of cells: what a thread writes inside one cell,     *)
(* header and data, passes the same tests and is one write here.  All      *)
(* counters go around the disk, so no bound is needed for them.  The       *)
(* statistics of a block (its times and packet count) are left out.        *)
(*                                                                         *)
(* A packet that is not IP is dropped after its bytes were set aside.  When*)
(* they reach past the end of the cell, the thread's next packet goes      *)
(* astray: its first part and a pointer are written to a cell further on,  *)
(* another thread's or nobody's, and only the rest to the cell now taken.  *)
(*                                                                         *)
(* The repository has no caller of processCompletions and recycleBlock     *)
(* after a write that was started; Complete is the poller they are for,    *)
(* which may run or not.                                                   *)
(***************************************************************************)
EXTENDS Naturals, Sequences, FiniteSets

CONSTANTS BlockNum,      \* total_block_num
          DiskBlockNum,  \* disk_block_num
          CellsPerBlock, \* block_size / cell_size
          RSSNum,        \* rss_num: capture threads
          CheckNum,      \* disk threads
          Delay,         \* delayed_block_num
          Reach,         \* offsetThreshold of the flow tables, in cells
          MaxWrites,     \* bound: writes of one block started and not completed
          MaxStray,      \* bound: cells that dropped packets carry a thread on
          Failures,      \* whether a write may fail to start
          None           \* no cell, no block

ASSUME BufferAssumption ==
  /\ BlockNum \in Nat \ {0}
  /\ DiskBlockNum \in Nat /\ DiskBlockNum % BlockNum = 0
  /\ 4 * BlockNum < DiskBlockNum \* DISK_BLOCK_TIMES
  /\ CellsPerBlock \in Nat \ {0}
  /\ MaxWrites \in Nat \ {0} /\ MaxStray \in Nat
  /\ RSSNum \in 1 .. BlockNum    \* addWriteThread
  /\ CheckNum \in 1 .. BlockNum  \* addCheckThread
  /\ Delay \in Nat /\ Reach \in Nat /\ Failures \in BOOLEAN
  /\ None \notin Nat

(* The delay for which the invariants are proved (the code leaves it to    *)
(* whoever sets up the buffer).  With a smaller one a disk thread may take *)
(* a block to which a capture thread that has told that it is Delay blocks *)
(* past it goes back with a link; with a larger one it never takes any.    *)
(* Dropped packets carry a thread into the next cell at most, which then   *)
(* lies in the same block or the next.                                     *)
DelayFits == /\ Delay = BlockNum - 1 /\ CheckNum <= Delay
             /\ MaxStray = 0 \/ (MaxStray = 1 /\ CellsPerBlock > 1)

Blocks   == 0 .. BlockNum - 1
DiskIds  == 0 .. DiskBlockNum - 1
CellNum  == DiskBlockNum * CellsPerBlock
Cells    == 0 .. CellNum - 1
Writers  == 0 .. RSSNum - 1
Checkers == 0 .. CheckNum - 1

VARIABLES
  diskWriteCell, \* the next cell to be taken
  diskWriteIds,  \* per capture thread: the disk block it tells that it writes
  blockDiskId,   \* per block: the disk block it stands for
  blockCheckIds, \* per disk thread: the block it looks at next
  writeCell,     \* per capture thread: its cell, None before run()
  out,           \* the capture threads whose offset is past their cell's end
  todo,          \* per capture thread: the writes of its packet still to do
  copying,       \* per capture thread: it has found its block and copies
  passed,        \* per disk thread: capture threads found past the block
  held,          \* per disk thread: the block it has taken, or None
  flight,        \* per block: the disk blocks its started writes go to
  phase,         \* per disk thread: "run", "drain" after a stop, "end"
  quit,          \* the capture threads that have ended
  stopping,      \* the capture threads that have been told to stop
  alive,         \* whether the probe runs
  dirty,         \* history: the blocks in which a thread has written to its cell
  done           \* history: the cells whose thread is done with them; both
                 \* until the block is recycled

place   == <<diskWriteCell, writeCell, out>>
capture == <<place, todo, copying, quit>>
checks  == <<blockCheckIds, passed, held, phase>>
probe   == <<stopping, alive>>
history == <<dirty, done>>
vars == <<diskWriteIds, blockDiskId, capture, checks, flight, probe, history>>

BlockOf(d)   == d % BlockNum
DiskIdOf(c)  == c \div CellsPerBlock
Next1(d)     == (d + 1) % DiskBlockNum
AddMod(a, n) == (a + n) % DiskBlockNum

Init == /\ diskWriteCell = 0
        /\ diskWriteIds = [w \in Writers |-> w]
        /\ blockDiskId = [b \in Blocks |-> b]
        /\ blockCheckIds = [t \in Checkers |-> t]
        /\ writeCell = [w \in Writers |-> None]
        /\ out = {}
        /\ todo = [w \in Writers |-> << >>]
        /\ copying = [w \in Writers |-> FALSE]
        /\ passed = [t \in Checkers |-> 0]
        /\ held = [t \in Checkers |-> None]
        /\ flight = [b \in Blocks |-> << >>]
        /\ phase = [t \in Checkers |-> "run"]
        /\ quit = {}
        /\ stopping = {} /\ alive = TRUE
        /\ dirty = {} /\ done = {}
-----------------------------------------------------------------------------
(* A capture thread *)

(* The next cell of the shared counter becomes the thread's. *)
TakeCell(w) == /\ writeCell' = [writeCell EXCEPT ![w] = diskWriteCell]
               /\ diskWriteCell' = (diskWriteCell + 1) % CellNum

(* run(): an earlier stop is forgotten, the first cell is taken. *)
Start(w) == /\ writeCell[w] = None
            /\ TakeCell(w)
            /\ stopping' = stopping \ {w}
            /\ UNCHANGED <<diskWriteIds, blockDiskId, out, todo, copying,
                           quit, checks, flight, alive, history>>

Part(part, c) == [cell |-> c, part |-> part]
Data(c)       == Part("data", c)
Pointer(c)    == Part("pointer", c)

(* The link that a packet starting in cell c leaves at its predecessor in  *)
(* the flow, if there is one that the flow table finds near enough.        *)
Links(c) == {<< >>} \cup
  {<<Part("link", last)>> : last \in {l \in Cells : (c + CellNum - l) % CellNum <= Reach}}

(* Between packets *)
Idle(w) == todo[w] = << >> /\ writeCell[w] # None /\ w \notin quit

Packet(w, c, writes) ==
  /\ Idle(w)
  /\ \E link \in Links(c) : todo' = [todo EXCEPT ![w] = writes \o link]
  /\ UNCHANGED <<diskWriteIds, blockDiskId, copying, quit, checks, flight, probe, dirty>>

(* A packet that starts in the thread's cell and fits. *)
PacketFits(w) == /\ w \notin out
                 /\ Packet(w, writeCell[w], <<Data(writeCell[w])>>)
                 /\ UNCHANGED <<place, done>>

(* A packet that does not fit: a new cell is taken; the part that fits and *)
(* the pointer go to the old cell, the rest to the new one.                *)
PacketSplit(w) == LET old == writeCell[w] new == diskWriteCell IN
  /\ w \notin out
  /\ Packet(w, old, <<Data(old), Pointer(old), Data(new)>>)
  /\ TakeCell(w)
  /\ UNCHANGED <<out, done>>

(* A packet that is not IP and would not have fitted: getOffset has moved  *)
(* on past the end of the cell.  One that would have leaves no trace here. *)
PacketDropped(w) == /\ Idle(w) /\ out' = out \cup {w}
                    /\ UNCHANGED <<diskWriteIds, blockDiskId, diskWriteCell, writeCell, todo,
                                   copying, quit, checks, flight, probe, history>>

(* The next packet starts in a cell further on.  A new cell is taken; the  *)
(* part up to that cell's end and a pointer go there, the rest to the new  *)
(* cell.  The old cell never gets its pointer.                             *)
PacketStray(w) == LET old == writeCell[w] new == diskWriteCell IN
  /\ w \in out /\ out' = out \ {w}
  /\ \E n \in 1 .. MaxStray : LET at == (old + n) % CellNum IN
       Packet(w, at, <<Part("stray", at), Part("end", at), Part("rest", new)>>)
  /\ TakeCell(w)
  /\ done' = done \cup {old}

(* writeBlock. Only a pointer in the last cell reaches the block's end.     *)
EndsBlock(x) == x.part \in {"pointer", "end"} /\ x.cell % CellsPerBlock = CellsPerBlock - 1

Stands(d) == blockDiskId[BlockOf(d)] = d

(* The disk block to be told: the one written to, or the one after it when *)
(* its end is reached.                                                     *)
Told(x) == LET d == DiskIdOf(x.cell) IN
  IF Stands(d) /\ EndsBlock(x) THEN Next1(d) ELSE d

CanWrite(x) == Stands(DiskIdOf(x.cell)) /\ Stands(Told(x))

Tell(w, x) == IF x.part = "link" THEN UNCHANGED diskWriteIds
              ELSE diskWriteIds' = [diskWriteIds EXCEPT ![w] = Told(x)]

WriteBegin(w) ==
  /\ todo[w] # << >> /\ ~copying[w]
  /\ CanWrite(Head(todo[w]))
  /\ copying' = [copying EXCEPT ![w] = TRUE]
  /\ UNCHANGED <<diskWriteIds, blockDiskId, place, todo, quit, checks, flight, probe, history>>

(* Faulty variant: only a write that succeeds tells where the thread is.   *)
WriteFailsSilently(w) ==
  /\ todo[w] # << >> /\ ~copying[w]
  /\ ~CanWrite(Head(todo[w]))
  /\ todo' = [todo EXCEPT ![w] = IF Head(@).part = "link" THEN Tail(@) ELSE @]
  /\ UNCHANGED <<diskWriteIds, blockDiskId, place, copying, quit, checks, flight, probe, history>>

(* A write that fails is tried again; a link is not. *)
WriteFails(w) ==
  /\ todo[w] # << >> /\ ~copying[w]
  /\ ~CanWrite(Head(todo[w]))
  /\ Tell(w, Head(todo[w]))
  /\ todo' = [todo EXCEPT ![w] = IF Head(@).part = "link" THEN Tail(@) ELSE @]
  /\ UNCHANGED <<blockDiskId, place, copying, quit, checks, flight, probe, history>>

(* A write to the thread's own cell *)
Own(x) == x.part \in {"data", "pointer", "rest"}

(* memcpy, and then the thread tells where it is. *)
WriteEnd(w) == LET x == Head(todo[w]) b == BlockOf(DiskIdOf(x.cell)) IN
  /\ copying[w]
  /\ copying' = [copying EXCEPT ![w] = FALSE]
  /\ Tell(w, x)
  /\ todo' = [todo EXCEPT ![w] = Tail(@)]
  /\ dirty' = IF Own(x) THEN dirty \cup {b} ELSE dirty
  /\ done' = IF x.part = "pointer" THEN done \cup {x.cell} ELSE done
  /\ UNCHANGED <<blockDiskId, place, quit, checks, flight, probe>>

(* The rest of a stray packet that does not reach the end of the cell it   *)
(* went to: the length of the rest is less than nothing, and memcpy takes  *)
(* the probe down.                                                         *)
Dies(w) == /\ todo[w] # << >> /\ ~copying[w]
           /\ Head(todo[w]).part = "rest" /\ CanWrite(Head(todo[w]))
           /\ alive' = FALSE
           /\ UNCHANGED <<diskWriteIds, blockDiskId, capture, checks, flight, stopping, history>>

(* The flag is looked at between packets. *)
Quit(w) == /\ w \in stopping /\ Idle(w)
           /\ quit' = quit \cup {w}
           /\ UNCHANGED <<diskWriteIds, blockDiskId, place, todo, copying, checks, flight,
                          probe, history>>

(* asynchronousStop; before run() it has no effect. *)
StopCapture(w) == /\ stopping' = stopping \cup {w}
                  /\ UNCHANGED <<diskWriteIds, blockDiskId, capture, checks, flight, alive,
                                 history>>

Write(w)  == Start(w) \/ WriteBegin(w) \/ WriteFails(w) \/ WriteEnd(w)
Full(w)   == PacketSplit(w) \/ PacketStray(w)
Writer(w) == \/ Write(w) \/ PacketFits(w) \/ Full(w) \/ PacketDropped(w)
             \/ Dies(w) \/ Quit(w) \/ StopCapture(w)
-----------------------------------------------------------------------------
(* A disk thread *)

(* The part of the circle outside of which a capture thread is past the    *)
(* block: from twice the buffer behind right up to right.                  *)
Past(id, right) == LET left == AddMod(right, DiskBlockNum - 2 * BlockNum) IN
  \/ left < right /\ (id > right \/ id < left)
  \/ left > right /\ id > right /\ id < left

(* Faulty variants: without the delay; and at the barrier, not past it.    *)
CheckRSSNow(b, w) == Past(diskWriteIds[w], blockDiskId[b])

CheckRSSAt(b, w) == LET right == AddMod(blockDiskId[b], Delay) IN
  diskWriteIds[w] = right \/ Past(diskWriteIds[w], right)

(* checkRSS *)
CheckRSS(b, w) == Past(diskWriteIds[w], AddMod(blockDiskId[b], Delay))

(* Faulty variant: past the block only. *)
DirectCheckPast(b, w) == Past(diskWriteIds[w], blockDiskId[b])

(* directCheckRSS, after a stop: at the block or past it. *)
DirectCheckRSS(b, w) ==
  diskWriteIds[w] = blockDiskId[b] \/ Past(diskWriteIds[w], blockDiskId[b])

(* checkBlock looks at the capture threads one after the other and gives   *)
(* up at the first that is not past the block.                             *)
CheckNext(t) ==
  /\ phase[t] = "run" /\ held[t] = None /\ passed[t] < RSSNum
  /\ passed' = [passed EXCEPT ![t] = IF CheckRSS(blockCheckIds[t], @) THEN @ + 1 ELSE 0]
  /\ UNCHANGED <<diskWriteIds, blockDiskId, capture, blockCheckIds, held, phase, flight,
                 probe, history>>

(* Faulty variant: the next check is for the same block. *)
GetBlockAgain(t) ==
  /\ held' = [held EXCEPT ![t] = blockCheckIds[t]]
  /\ passed' = [passed EXCEPT ![t] = 0]
  /\ UNCHANGED <<diskWriteIds, blockDiskId, capture, blockCheckIds, phase, flight, probe, history>>

(* getBlock *)
GetBlock(t) ==
  /\ held' = [held EXCEPT ![t] = blockCheckIds[t]]
  /\ blockCheckIds' = [blockCheckIds EXCEPT ![t] = (@ + CheckNum) % BlockNum]
  /\ passed' = [passed EXCEPT ![t] = 0]
  /\ UNCHANGED <<diskWriteIds, blockDiskId, capture, phase, flight, probe, history>>

TakeBlock(t) == /\ phase[t] = "run" /\ held[t] = None /\ passed[t] = RSSNum
                /\ GetBlock(t)

(* The loop after a stop: any capture thread will do. *)
DrainBlock(t) == /\ phase[t] = "drain" /\ held[t] = None
                 /\ \E w \in Writers : DirectCheckRSS(blockCheckIds[t], w)
                 /\ GetBlock(t)

Drained(t) == /\ phase[t] = "drain" /\ held[t] = None
              /\ \A w \in Writers : ~DirectCheckRSS(blockCheckIds[t], w)
              /\ phase' = [phase EXCEPT ![t] = "end"]
              /\ UNCHANGED <<diskWriteIds, blockDiskId, capture, blockCheckIds, passed, held,
                             flight, probe, history>>

(* recycleBlock *)
Recycled(b) == /\ blockDiskId' = [blockDiskId EXCEPT ![b] = AddMod(@, BlockNum)]
               /\ dirty' = dirty \ {b}
               /\ done' = {c \in done : DiskIdOf(c) # blockDiskId[b]}

(* addBlock: asyncWrite submits the write of the block. After a stop one   *)
(* that is not completed is submitted again.                               *)
AddBlock(t) == LET b == held[t] IN
  /\ b # None
  /\ Len(flight[b]) < MaxWrites
  /\ flight' = [flight EXCEPT ![b] = Append(@, blockDiskId[b])]
  /\ held' = [held EXCEPT ![t] = None]
  /\ UNCHANGED <<diskWriteIds, blockDiskId, capture, blockCheckIds, passed, phase,
                 probe, history>>

(* There is no submission entry, or the submission fails: the block is     *)
(* recycled unwritten.                                                     *)
AddBlockFails(t) ==
  /\ held[t] # None
  /\ Failures
  /\ Recycled(held[t])
  /\ held' = [held EXCEPT ![t] = None]
  /\ UNCHANGED <<diskWriteIds, capture, blockCheckIds, passed, phase, flight, probe>>

(* processCompletions and recycleBlock *)
Complete(b) == /\ flight[b] # << >>
               /\ flight' = [flight EXCEPT ![b] = Tail(@)]
               /\ Recycled(b)
               /\ UNCHANGED <<diskWriteIds, capture, checks, probe>>

Checker(t) == \/ CheckNext(t) \/ TakeBlock(t) \/ DrainBlock(t) \/ Drained(t)
              \/ AddBlock(t) \/ AddBlockFails(t)
-----------------------------------------------------------------------------
(* The owner of the threads stops the capture threads, waits for them and  *)
(* then stops a disk thread, which finds the flag before its next check.   *)
StopDisk(t) == /\ quit = Writers /\ phase[t] = "run" /\ held[t] = None
               /\ phase' = [phase EXCEPT ![t] = "drain"]
               /\ passed' = [passed EXCEPT ![t] = 0]
               /\ UNCHANGED <<diskWriteIds, blockDiskId, capture, blockCheckIds, held, flight,
                              probe, history>>

Next == /\ alive
        /\ \/ \E w \in Writers : Writer(w)
           \/ \E t \in Checkers : Checker(t) \/ StopDisk(t)
           \/ \E b \in Blocks : Complete(b)

Spec == Init /\ [][Next]_vars

(* Every thread runs; nothing is known of a poller.  Packets keep coming   *)
(* to every capture thread, and a cell is full after finitely many of them.*)
Fairness == /\ \A w \in Writers : /\ WF_vars(alive /\ Write(w))
                                  /\ SF_vars(alive /\ Full(w))
            /\ \A t \in Checkers : WF_vars(alive /\ Checker(t))

FairSpec == Spec /\ Fairness
-----------------------------------------------------------------------------
Running == \A t \in Checkers : phase[t] = "run"

Takes(b) == Len(flight[b]) + Cardinality({t \in Checkers : held[t] = b})

(* No capture thread copies into a block that a disk thread has taken, nor *)
(* into one that has come to stand for another disk block since the thread *)
(* looked (writeBlock's check, checkRSS and recycleBlock share no lock).   *)
SealedBlocks ==
  \A w \in Writers : copying[w] =>
    LET d == DiskIdOf(Head(todo[w]).cell) IN Stands(d) /\ Takes(BlockOf(d)) = 0

(* A block is taken only when every capture thread that had a cell in it   *)
(* has done with it: the cell has been written to its pointer, or a dropped*)
(* packet has carried the thread out of it (checkBlock).                   *)
CompleteBlocks ==
  Running => \A b \in Blocks : Takes(b) > 0 =>
    \A i \in 0 .. CellsPerBlock - 1 : blockDiskId[b] * CellsPerBlock + i \in done

(* A block is not taken again before it is recycled (checkBlock, getBlock).*)
TakenOnce == Running => \A b \in Blocks : Takes(b) <= 1

(* When the disk threads have ended after a stop, nothing that a capture   *)
(* thread wrote to its cells is left in memory alone (directGetBlockID,    *)
(* runData).                                                               *)
NothingLeft ==
  (\A t \in Checkers : phase[t] = "end") =>
    \A b \in dirty : flight[b] # << >>

(* As long as nobody is stopped and the probe lives, only the disk keeps a *)
(* packet from getting written, a started write of which nothing is heard, *)
(* however full the buffer is (the loops around writeBlock).               *)
OnlyDiskStalls ==
  \A w \in Writers :
    \/ []<>(todo[w] = << >>)
    \/ <>(~alive \/ stopping # {})
    \/ \E b \in Blocks : <>[](flight[b] # << >>)
=============================================================================
