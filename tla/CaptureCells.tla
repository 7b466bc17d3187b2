----------------------------- MODULE CaptureCells -----------------------------
(***************************************************************************)
(* Where a capture thread of a probe puts its packets                      *)
(* (src/src/probe/dpdkCapture.cpp: getOffset, writePacketToPacketBuffer,   *)
(* writeBefore, run; probeLib/packetAggregator.hpp).  A cell holds headers *)
(* and data of packets one after the other and ends with the number of the *)
(* thread's next cell; the packets of a flow are chained by differences    *)
(* written into their headers, and the first of a chain goes to the index. *)
(*                                                                         *)
(* The disk is an array of bytes of which each knows what was written to   *)
(* it.  A packet is handled in two steps, up to the claim of a cell from   *)
(* the shared counter and from there on; what lies between the writes of   *)
(* one packet is the subject of DataBlockBuffer, which also makes a thread *)
(* wait for a cell that is not free yet.                                   *)
(*                                                                         *)
(* A packet that is not IP is dropped after it was given its place.  Where *)
(* that was the last of a cell the thread does not change cells, and its   *)
(* next packet goes astray, into a cell that is not its own (p.stray).     *)
(***************************************************************************)
EXTENDS Integers, Sequences, FiniteSets

CONSTANTS Writers,    \* capture threads
          Flows,      \* flows; RSS gives each thread its own
          Lens,       \* lengths of packets without their ethernet header
          HeadLen,    \* sizeof(pcap_header)
          PtrLen,     \* sizeof(u_int64_t)
          LinkLen,    \* sizeof(diff)
          CellSize, CellNum, \* cell_size, cell_num
          Threshold,  \* offsetThreshold
          MaxPackets, \* bound: packets received
          None        \* nothing

ASSUME CellAssumption ==
  /\ HeadLen \in Nat \ {0} /\ PtrLen \in Nat \ {0}
  /\ LinkLen \in 1 .. HeadLen /\ LinkLen <= PtrLen \* 4 and 8 bytes
  /\ Lens \subseteq Nat \ {0} /\ CellNum \in Nat \ {0}
  /\ CellSize \in Nat \ {0} /\ PtrLen <= CellSize
  /\ \A len \in Lens : HeadLen + len + PtrLen <= CellSize
  /\ Threshold \in Nat /\ MaxPackets \in Nat
  /\ IsFiniteSet(Writers) /\ Cardinality(Writers) < CellNum

(* Nothing is neither an offset nor a packet nor a byte. *)
ASSUME NoneAssumption ==
  /\ None \notin Nat
  /\ None \notin [id : Nat, flow : Flows, len : Lens, pos : Nat, last : Nat \cup {None},
                  stray : BOOLEAN]
  /\ None \notin [kind : {"packet", "cell", "link"}, id : Nat, i : Nat]

VARIABLES
  diskWriteCell, \* the next cell to be taken
  writeCell, writeOffset, \* per thread
  aggMap,        \* per thread and flow: lastOffset, or None
  pending,       \* per thread: the packet it is about to store, or None
  disk,          \* what each byte of the disk holds
  count,         \* packets received
  alive,         \* whether the probe runs
  packets,       \* history: the packets stored, each in its thread's cell,
                 \* whose cells are not taken again
  spoilt,        \* history: the bytes that a stray packet was written to, or
                 \* a link to a packet that is no more there
  strayed        \* history: the flows of each thread with a stray packet

history == <<packets, spoilt, strayed>>
vars == <<diskWriteCell, writeCell, writeOffset, aggMap, pending, disk, count, alive, history>>

DiskSize == CellSize * CellNum
CellOf(pos) == pos \div CellSize

Init == /\ diskWriteCell = Cardinality(Writers)
        /\ \E first \in [Writers -> 0 .. Cardinality(Writers) - 1] :
             /\ \A v, w \in Writers : first[v] = first[w] => v = w
             /\ writeCell = first
        /\ writeOffset = [w \in Writers |-> 0]
        /\ aggMap = [w \in Writers |-> [f \in Flows |-> None]]
        /\ pending = [w \in Writers |-> None]
        /\ disk = [pos \in 0 .. DiskSize - 1 |-> None]
        /\ count = 0
        /\ alive = TRUE
        /\ packets = {} /\ spoilt = {} /\ strayed = {}
-----------------------------------------------------------------------------
(* writeCell %= cell_num, for which the counter may as well go around.     *)
Following(c) == (c + 1) % CellNum

(* getOffset: the place of the packet, and the place after it; an offset   *)
(* that would leave no room for a pointer counts the pointer in.           *)
Offset(w) == (writeOffset[w] + writeCell[w] * CellSize) % DiskSize

(* Faulty variant: the room for the pointer is not kept. *)
AdvancedClose(w, len) == LET to == writeOffset[w] + HeadLen + len IN
  IF to > CellSize THEN to + PtrLen ELSE to

Advanced(w, len) == LET to == writeOffset[w] + HeadLen + len IN
  IF to + PtrLen > CellSize THEN to + PtrLen ELSE to

(* addPacket: the offset of the flow's last packet, None if it is too far  *)
(* back or there is none.  The threshold on times is the largest number.   *)
Ordered(pos, last) == IF pos <= last THEN pos + DiskSize ELSE pos

(* Faulty variant: the table keeps the first offset of a chain. *)
TableKept(w, f, pos) == IF aggMap[w][f] = None
                        THEN [aggMap EXCEPT ![w][f] = pos] ELSE aggMap

Table(w, f, pos) == [aggMap EXCEPT ![w][f] = pos]

LastOffset(w, f, pos) == LET last == aggMap[w][f] IN
  IF last = None \/ Ordered(pos, last) - last > Threshold THEN None ELSE last

Ready(w) == alive /\ pending[w] = None /\ count < MaxPackets

(* A packet is read, given its place and looked up in the flow table.      *)
Receive(w, f, len) == LET pos == Offset(w) IN
  /\ Ready(w)
  /\ count' = count + 1
  /\ writeOffset' = [writeOffset EXCEPT ![w] = Advanced(w, len)]
  /\ pending' = [pending EXCEPT ![w] = [id |-> count', flow |-> f, len |-> len,
                                        pos |-> pos, last |-> LastOffset(w, f, pos),
                                        stray |-> writeOffset[w] > CellSize]]
  /\ aggMap' = Table(w, f, pos)
  /\ UNCHANGED <<diskWriteCell, writeCell, disk, alive, history>>

(* A packet that is not IP is dropped after it was given its place.        *)
ReceiveNonIP(w, len) ==
  /\ Ready(w)
  /\ count' = count + 1
  /\ writeOffset' = [writeOffset EXCEPT ![w] = Advanced(w, len)]
  /\ UNCHANGED <<diskWriteCell, writeCell, aggMap, pending, disk, alive, history>>
-----------------------------------------------------------------------------
(* What is written: byte i of packet id, of a cell number, of a link.      *)
Byte(kind, id, i) == [kind |-> kind, id |-> id, i |-> i]

Header(p)  == [i \in 1 .. HeadLen |-> Byte("packet", p.id, i)]
Body(p, n) == [i \in 1 .. n |-> Byte("packet", p.id, HeadLen + i)]
Number(c)  == [i \in 1 .. PtrLen |-> Byte("cell", c, i)]
Diff(d)    == [i \in 1 .. LinkLen |-> Byte("link", d, i)]

(* How far byte x is behind pos, around the end of the disk. *)
Behind(x, pos) == (x + DiskSize - pos) % DiskSize

WriteAt(bytes, pos, data) ==
  [x \in 0 .. DiskSize - 1 |->
     LET i == Behind(x, pos) + 1 IN IF i <= Len(data) THEN data[i] ELSE bytes[x]]

(* The n bytes from pos on. *)
Covered(pos, n) == {x \in 0 .. DiskSize - 1 : Behind(x, pos) < n}

Room(p)  == CellSize - (p.pos % CellSize) - PtrLen
Front(p) == IF Room(p) < HeadLen THEN Room(p) ELSE HeadLen

(* The parts of a split packet before the pointer and in the new cell.     *)
(* What remains of the data is taken from the beginning of the data.       *)
FirstPart(p)  == SubSeq(Header(p), 1, Front(p)) \o Body(p, Room(p) - Front(p))
SecondPart(p) == SubSeq(Header(p), Front(p) + 1, HeadLen) \o Body(p, p.len + Front(p) - Room(p))

(* A packet that does not fit: what fits, the pointer, what remains.       *)
Split(p, new) ==
  WriteAt(WriteAt(WriteAt(disk, p.pos, FirstPart(p)), p.pos + Room(p), Number(new)),
          new * CellSize, SecondPart(p))

(* calDiff *)
CalDiff(pos, last) == (pos + DiskSize - last) % DiskSize

(* writeBefore: the link goes to where the flow's last packet was put.     *)
Linked(bytes, p) == IF p.last = None THEN bytes
                    ELSE WriteAt(bytes, p.last, Diff(CalDiff(p.pos, p.last)))

(* The flow's packet is still at the offset that the table gave: its cell  *)
(* was not taken since, nor is it the one that p goes on in.               *)
Present(w, p, kept) == \E q \in kept : q.pos = p.last /\ q.writer = w /\ q.flow = p.flow

Spoiling(w, p, kept) ==
  (IF p.stray THEN Covered(p.pos, Room(p) + PtrLen) ELSE {})
    \cup (IF p.last = None \/ Present(w, p, kept) THEN {} ELSE Covered(p.last, LinkLen))

(* p has been stored, and of the other packets those in kept are left.     *)
Stored(w, p, kept, damaged) ==
  /\ packets' = IF p.stray THEN kept
                ELSE kept \cup {[writer |-> w, id |-> p.id, flow |-> p.flow, len |-> p.len,
                                 pos |-> p.pos, indexed |-> p.last = None]}
  /\ spoilt' = damaged \cup Spoiling(w, p, kept)
  /\ strayed' = IF p.stray THEN strayed \cup {<<w, p.flow>>} ELSE strayed
  /\ pending' = [pending EXCEPT ![w] = None]
  /\ UNCHANGED <<aggMap, count, alive>>

StoreFits(w) == LET p == pending[w] IN
  /\ alive /\ p # None /\ writeOffset[w] <= CellSize
  /\ disk' = Linked(WriteAt(disk, p.pos, Header(p) \o Body(p, p.len)), p)
  /\ Stored(w, p, packets, spoilt)
  /\ UNCHANGED <<diskWriteCell, writeCell, writeOffset>>

(* The lengths of the parts are unsigned: with a stray packet, the room in *)
(* the cell or what remains may come out as almost 2^64.                   *)
Underflows(p) == Room(p) < 0 \/ HeadLen + p.len < Room(p)

StoreSplit(w) == LET p == pending[w] new == diskWriteCell IN
  /\ alive /\ p # None /\ writeOffset[w] > CellSize /\ ~Underflows(p)
  /\ \A v \in Writers : writeCell[v] # new \* the buffer makes the thread wait
  /\ diskWriteCell' = Following(diskWriteCell)
  /\ writeCell' = [writeCell EXCEPT ![w] = new]
  /\ writeOffset' = [writeOffset EXCEPT ![w] = @ % CellSize]
  /\ disk' = Linked(Split(p, new), p)
  /\ Stored(w, p, {q \in packets : CellOf(q.pos) # new}, {x \in spoilt : CellOf(x) # new})

(* Such a length is copied: the probe dies. *)
StoreDies(w) == LET p == pending[w] IN
  /\ alive /\ p # None /\ writeOffset[w] > CellSize /\ Underflows(p)
  /\ alive' = FALSE
  /\ UNCHANGED <<diskWriteCell, writeCell, writeOffset, aggMap, pending, disk, count, history>>

Next == \E w \in Writers :
          \/ \E len \in Lens : ReceiveNonIP(w, len) \/ \E f \in Flows : Receive(w, f, len)
          \/ StoreFits(w) \/ StoreSplit(w) \/ StoreDies(w)

Spec == Init /\ [][Next]_vars
-----------------------------------------------------------------------------
(* No thread's packet starts so near the end of cell c that a link to it   *)
(* falls on the pointer.                                                   *)
RoomForLinks(c) == \A p \in packets : CellOf(p.pos) = c =>
                     (p.pos % CellSize) + LinkLen + PtrLen <= CellSize

(* The reader's view: byte i of a packet at pos, over the pointer of its   *)
(* cell when it does not fit.                                              *)
PointerAt(c) == c * CellSize + CellSize - PtrLen
NumberAt(c)  == disk[PointerAt(c)]
BeyondAt(p, i) == NumberAt(CellOf(p.pos)).id * CellSize + i - Room(p) - 1

At(p, i) ==
  IF i <= Room(p) THEN disk[p.pos + i - 1]
  ELSE IF NumberAt(CellOf(p.pos)).kind # "cell" THEN None
  ELSE disk[BeyondAt(p, i)]

(* What the reader reads byte i from was written over by a stray packet or *)
(* by a link that came too late.                                           *)
SpoiltAt(p, i) ==
  IF i <= Room(p) THEN p.pos + i - 1 \in spoilt
  ELSE PointerAt(CellOf(p.pos)) \in spoilt \/ BeyondAt(p, i) \in spoilt

(* The header of every packet can be read, over the end of its cell too,   *)
(* and the place of its data belongs to it alone: but for stray packets    *)
(* and late links, each of which spoils the bytes it is written to and no  *)
(* others, no thread writes over another's packet or its own, and a full   *)
(* cell leads to the thread's next one (getOffset,                         *)
(* writePacketToPacketBuffer).                                             *)
PacketsReadable ==
  alive => \A p \in packets : RoomForLinks(CellOf(p.pos)) =>
    \A i \in LinkLen + 1 .. HeadLen + p.len : ~SpoiltAt(p, i) =>
      /\ At(p, i) # None /\ At(p, i).kind = "packet" /\ At(p, i).id = p.id
      /\ i <= HeadLen => At(p, i).i = i

(* Every packet of a flow is found: it is in the index, or the flow's      *)
(* packet before it carries the difference that leads to it, unless the    *)
(* flow has had a stray packet or the link itself was written over         *)
(* (addPacket, calDiff, writeBefore).                                      *)
Before(q, p) == q.writer = p.writer /\ q.flow = p.flow /\ q.id < p.id

FlowChained ==
  alive => \A p, q \in packets :
    /\ ~p.indexed /\ Before(q, p) /\ <<p.writer, p.flow>> \notin strayed
    /\ \A r \in packets : Before(r, p) => r.id <= q.id
    /\ RoomForLinks(CellOf(q.pos)) /\ q.pos \notin spoilt
    => (q.pos + At(q, 1).id) % DiskSize = p.pos /\ At(q, 1).kind = "link"
=============================================================================
