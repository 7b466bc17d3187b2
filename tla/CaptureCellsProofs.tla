--------------------------- MODULE CaptureCellsProofs -------------------------
(***************************************************************************)
(* Proofs about CaptureCells, for any capture threads, flows and sizes.    *)
(*                                                                         *)
(* The invariant is the layout of the disk: packets of a cell one after    *)
(* the other up to where its thread goes on, what remains of a split one   *)
(* at the beginning of a cell taken later, and nobody writes but at the    *)
(* end of its own cell, into the oldest one, a link into the first bytes   *)
(* of a packet, or to the bytes that count as spoilt.                      *)
(***************************************************************************)
EXTENDS CaptureCells, FiniteSetTheorems, TLAPS

(* Where in its cell a packet starts, how long it is, whether it ends      *)
(* there, and how much of it is in the next cell when it does not.         *)
Off(q)   == q.pos % CellSize
Size(q)  == HeadLen + q.len
Whole(q) == Off(q) + Size(q) + PtrLen <= CellSize
Rest(q)  == Off(q) + Size(q) + PtrLen - CellSize

(* How many cells were taken after c when next is the one to be taken, and *)
(* byte x of c.                                                            *)
AgeBy(next, c) == IF c < next THEN next - 1 - c ELSE next + CellNum - 1 - c
Age(c)         == AgeBy(diskWriteCell, c)
Spot(b, c, x)  == b[c * CellSize + x]
Held(c, x)     == Spot(disk, c, x)

(* The byte of its cell that a thread's next packet begins at. *)
Fore(w) == IF pending[w] = None \/ pending[w].stray THEN writeOffset[w]
           ELSE Off(pending[w])

(* Byte x of cell c is spoilt. *)
Bad(c, x) == c * CellSize + x \in spoilt

Cells     == 0 .. CellNum - 1
InCell    == 0 .. CellSize - 1
Positions == 0 .. DiskSize - 1
Bytes     == [kind : {"packet", "cell", "link"}, id : Nat, i : Nat]
Disks     == [Positions -> Bytes \cup {None}]
Claims    == [id : Nat, flow : Flows, len : Lens, pos : Positions, last : Positions \cup {None},
              stray : BOOLEAN]
Records   == [writer : Writers, id : Nat, flow : Flows, len : Lens, pos : Positions,
              indexed : BOOLEAN]

CellsTypeOK ==
  /\ diskWriteCell \in Cells
  /\ writeCell \in [Writers -> Cells]
  /\ writeOffset \in [Writers -> Nat]
  /\ aggMap \in [Writers -> [Flows -> Positions \cup {None}]]
  /\ pending \in [Writers -> Claims \cup {None}]
  /\ disk \in Disks
  /\ count \in Nat
  /\ alive \in BOOLEAN
  /\ packets \subseteq Records
  /\ spoilt \subseteq Positions
  /\ strayed \subseteq Writers \X Flows

(* No cell is that of two threads. *)
OwnCells == \A v, w \in Writers : writeCell[v] = writeCell[w] => v = w

(* What a thread has claimed lies where its cell was still free, and the   *)
(* offset after it is that of getOffset.                                   *)
Claimed(w, p) ==
  /\ CellOf(p.pos) = writeCell[w] /\ Off(p) + PtrLen <= CellSize
  /\ writeOffset[w] = IF Whole(p) THEN Off(p) + Size(p) ELSE Off(p) + Size(p) + PtrLen
  /\ p.id <= count /\ aggMap[w][p.flow] = p.pos
  /\ \A q \in packets : q.writer = w => q.id < p.id

(* What is astray lies where counting on from the thread's cell led to.    *)
Astray(w, p) == \E k \in Nat \ {0} :
  writeOffset[w] = CellSize * k + (Off(p) + Size(p) + PtrLen)

ClaimOf(w, p) == IF p.stray THEN Astray(w, p) ELSE Claimed(w, p)

Claiming == \A w \in Writers :
  IF pending[w] = None THEN writeOffset[w] + PtrLen <= CellSize \/ writeOffset[w] > CellSize
  ELSE ClaimOf(w, pending[w])

(* Packets begin before the pointer of their cell, no two of a thread have *)
(* the same number, and the older is in a cell that was taken no later.    *)
InOrder ==
  /\ \A q \in packets : /\ Off(q) + PtrLen <= CellSize /\ q.id <= count
                        /\ Age(writeCell[q.writer]) <= Age(CellOf(q.pos))
  /\ \A q, r \in packets : q.writer = r.writer =>
       /\ q.id = r.id => q = r
       /\ q.id < r.id => Age(CellOf(r.pos)) <= Age(CellOf(q.pos))

(* Packets of one cell follow one another, and all that is in a thread's   *)
(* cell ends before the thread goes on.                                    *)
Apart ==
  /\ \A q, r \in packets : CellOf(q.pos) = CellOf(r.pos) =>
       \/ q = r
       \/ Whole(q) /\ Off(q) + Size(q) <= Off(r)
       \/ Whole(r) /\ Off(r) + Size(r) <= Off(q)
  /\ \A w \in Writers, q \in packets : CellOf(q.pos) = writeCell[w] =>
       Whole(q) /\ Off(q) + Size(q) <= Fore(w)

(* The cell that a split packet goes on in: it was taken later, and has    *)
(* room at its beginning.                                                  *)
GoesOn(r, c) ==
  /\ Age(c) < Age(CellOf(r.pos))
  /\ \A q \in packets : CellOf(q.pos) = c => Rest(r) <= Off(q)
  /\ \A w \in Writers : writeCell[w] = c => Rest(r) <= Fore(w)

IsOf(b, r, i) == b \in Bytes /\ b.kind = "packet" /\ b.id = r.id /\ (i <= HeadLen => b.i = i)

Intact ==
  \A r \in packets : RoomForLinks(CellOf(r.pos)) =>
    /\ \A i \in LinkLen + 1 .. Size(r) :
         i <= Room(r) /\ ~Bad(CellOf(r.pos), Off(r) + i - 1) =>
           IsOf(Held(CellOf(r.pos), Off(r) + i - 1), r, i)
    /\ Whole(r) \/ \E c \in Cells :
         /\ GoesOn(r, c)
         /\ ~Bad(CellOf(r.pos), CellSize - PtrLen) =>
              Held(CellOf(r.pos), CellSize - PtrLen) = Byte("cell", c, 1)
         /\ \A i \in LinkLen + 1 .. Size(r) :
              i > Room(r) /\ ~Bad(c, i - Room(r) - 1) => IsOf(Held(c, i - Room(r) - 1), r, i)

(* The table leads to the flow's last packet, if that is still there.      *)
Latest(w, f, pos) ==
  \A r \in packets : r.writer = w /\ r.flow = f =>
    \E m \in packets : m.writer = w /\ m.flow = f /\ m.pos = pos /\ r.id <= m.id

Tables == \A w \in Writers, f \in Flows : <<w, f>> \notin strayed =>
  IF pending[w] # None /\ pending[w].flow = f
  THEN pending[w].last = None \/ Latest(w, f, pending[w].last)
  ELSE Latest(w, f, aggMap[w][f])

(* A link leads from a packet to the next one of its flow. *)
Linking ==
  \A p, q \in packets :
    /\ ~p.indexed /\ Before(q, p) /\ <<p.writer, p.flow>> \notin strayed
    /\ \A r \in packets : Before(r, p) => r.id <= q.id
    /\ RoomForLinks(CellOf(q.pos)) /\ ~Bad(CellOf(q.pos), Off(q))
    => Held(CellOf(q.pos), Off(q)) = Byte("link", CalDiff(p.pos, q.pos), 1)

CInv == /\ CellsTypeOK /\ OwnCells /\ Claiming
        /\ InOrder /\ Apart
        /\ Intact /\ Tables /\ Linking
-----------------------------------------------------------------------------
(* Places *)

LEMMA DivMod ==
  ASSUME NEW x \in Nat, NEW m \in Nat \ {0}
  PROVE  /\ x \div m \in Nat
         /\ x % m \in 0 .. m - 1
         /\ x = m * (x \div m) + (x % m)
  OBVIOUS

(* Quotient and remainder are the only ones. *)
LEMMA DivModIs ==
  ASSUME NEW m \in Nat \ {0}, NEW q \in Nat, NEW r \in 0 .. m - 1
  PROVE  (m * q + r) \div m = q /\ (m * q + r) % m = r
<1> DEFINE x == m * q + r
           qx == x \div m
           rx == x % m
<1>0. x \in Nat
  OBVIOUS
<1> HIDE DEF x
<1>1. /\ qx \in Nat /\ rx \in 0 .. m - 1 /\ x = m * qx + rx
  BY <1>0, DivMod
<1>2. m * q + r = m * qx + rx
  BY <1>1 DEF x
<1> HIDE DEF qx, rx
<1>3. qx = q
  <2>1. CASE qx > q
    <3>1. m * qx >= m * (q + 1)
      BY <1>1, <2>1
    <3> QED
      BY <1>1, <1>2, <3>1
  <2>2. CASE qx < q
    <3>1. m * q >= m * (qx + 1)
      BY <1>1, <2>2
    <3> QED
      BY <1>1, <1>2, <3>1
  <2> QED
    BY <1>1, <2>1, <2>2
<1> QED
  BY <1>2, <1>3, <1>1 DEF qx, rx, x


LEMMA ModOnce ==
  ASSUME NEW m \in Nat \ {0}, NEW r \in 0 .. m - 1
  PROVE  r % m = r /\ (r + m) % m = r
<1>1. ASSUME NEW q \in Nat PROVE (m * q + r) % m = r
  BY DivModIs
<1>2. ASSUME NEW q \in Nat, q = 0 PROVE r % m = r
  <2>1. m * q + r = r
    BY <1>2
  <2> QED
    BY <1>1, <2>1
<1>3. ASSUME NEW q \in Nat, q = 1 PROVE (r + m) % m = r
  <2>1. m * q + r = r + m
    BY <1>3
  <2> QED
    BY <1>1, <2>1
<1> QED
  BY <1>2, <1>3

LEMMA CellTimes ==
  ASSUME NEW c \in Nat, NEW d \in Nat, c < d
  PROVE  /\ c * CellSize \in Nat /\ d * CellSize \in Nat
         /\ c * CellSize + CellSize <= d * CellSize
<1>1. CellSize \in Nat
  BY CellAssumption
<1>2. d - c - 1 \in Nat
  OBVIOUS
<1>3. \A k \in Nat, s \in Nat : k * s \in Nat
  OBVIOUS
<1>4. (d - c - 1) * CellSize \in Nat /\ c * CellSize \in Nat /\ d * CellSize \in Nat
  BY <1>1, <1>2, <1>3
<1>5. (d - c - 1) * CellSize = d * CellSize - c * CellSize - CellSize
  BY <1>1
<1> QED
  BY <1>1, <1>4, <1>5

(* An offset is a cell and a place in it, and the other way around. *)
LEMMA PlaceOf ==
  ASSUME NEW pos \in Positions
  PROVE  /\ CellOf(pos) \in Cells /\ pos % CellSize \in InCell
         /\ pos = CellOf(pos) * CellSize + (pos % CellSize)
<1> DEFINE c == CellOf(pos)
<1>1. CellSize \in Nat \ {0} /\ CellNum \in Nat \ {0} /\ DiskSize \in Nat
  BY CellAssumption DEF DiskSize
<1>2. pos \in Nat /\ pos < CellNum * CellSize
  BY <1>1 DEF Positions, DiskSize
<1>3. c \in Nat /\ pos % CellSize \in InCell /\ pos = CellSize * c + (pos % CellSize)
  BY <1>1, <1>2, DivMod DEF CellOf, InCell
<1> HIDE DEF c
<1>4. pos = c * CellSize + (pos % CellSize)
  BY <1>1, <1>3 DEF InCell
<1>5. c < CellNum
  <2> SUFFICES ASSUME CellNum <= c PROVE FALSE
    BY <1>1, <1>3
  <2>1. CellNum * CellSize <= c * CellSize
    <3>1. CASE CellNum = c
      BY <3>1, <1>1, <1>3
    <3>2. CASE CellNum < c
      BY <3>2, <1>1, <1>3, CellTimes
    <3> QED
      BY <3>1, <3>2, <1>1, <1>3
  <2>2. c * CellSize \in Nat
    BY <1>1, <1>3
  <2> QED
    BY <1>1, <1>2, <1>3, <1>4, <2>1, <2>2 DEF InCell
<1> QED
  BY <1>1, <1>3, <1>4, <1>5 DEF Cells, c

LEMMA PlaceIs ==
  ASSUME NEW c \in Cells, NEW x \in InCell
  PROVE  /\ c * CellSize + x \in Positions
         /\ CellOf(c * CellSize + x) = c /\ (c * CellSize + x) % CellSize = x
<1>1. CellSize \in Nat \ {0} /\ CellNum \in Nat \ {0} /\ c \in Nat /\ c < CellNum
  BY CellAssumption DEF Cells
<1>2. x \in 0 .. CellSize - 1 /\ x \in Nat
  BY <1>1 DEF InCell
<1>3. c * CellSize \in Nat /\ c * CellSize + CellSize <= CellNum * CellSize
  BY <1>1, CellTimes
<1>4. c * CellSize = CellSize * c
  BY <1>1
<1>5. (CellSize * c + x) \div CellSize = c /\ (CellSize * c + x) % CellSize = x
  BY <1>1, <1>2, DivModIs
<1>6. CellNum * CellSize \in Nat /\ DiskSize = CellNum * CellSize
  BY <1>1 DEF DiskSize
<1>7. c * CellSize + x \in Positions
  BY <1>1, <1>2, <1>3, <1>6 DEF Positions
<1> QED
  BY <1>4, <1>5, <1>7 DEF CellOf

(* Different places are different offsets. *)
LEMMA OnePlace ==
  ASSUME NEW c \in Cells, NEW d \in Cells, NEW x \in InCell, NEW y \in InCell,
         c * CellSize + x = d * CellSize + y
  PROVE  c = d /\ x = y
  BY PlaceIs
-----------------------------------------------------------------------------
(* Writing *)

LEMMA WriteType ==
  ASSUME NEW b \in Disks, NEW pos \in Positions, NEW data \in Seq(Bytes)
  PROVE  /\ WriteAt(b, pos, data) \in Disks
         /\ \A y \in Positions :
              /\ pos <= y /\ y < pos + Len(data) => WriteAt(b, pos, data)[y] = data[y - pos + 1]
              /\ pos + Len(data) <= DiskSize /\ ~(pos <= y /\ y < pos + Len(data)) =>
                   WriteAt(b, pos, data)[y] = b[y]
<1>1. DiskSize \in Nat \ {0} /\ pos \in Nat /\ pos < DiskSize
  BY CellAssumption DEF DiskSize, Positions
<1>2. Len(data) \in Nat /\ \A i \in 1 .. Len(data) : data[i] \in Bytes
  OBVIOUS
<1> DEFINE Index(y) == Behind(y, pos) + 1
<1>3. ASSUME NEW y \in Positions
      PROVE  /\ Index(y) \in Nat \ {0}
             /\ (pos <= y => Index(y) = y - pos + 1)
             /\ (y < pos => Index(y) = y + DiskSize - pos + 1)
  <2>1. y \in Nat /\ y < DiskSize
    BY <1>1 DEF Positions
  <2>2. CASE pos <= y
    <3>1. y - pos \in 0 .. DiskSize - 1
      BY <1>1, <2>1, <2>2
    <3>2. ((y - pos) + DiskSize) % DiskSize = y - pos
      BY <1>1, <3>1, ModOnce
    <3>3. (y - pos) + DiskSize = y + DiskSize - pos
      BY <1>1, <2>1
    <3> QED
      BY <2>1, <2>2, <3>1, <3>2, <3>3 DEF Behind
  <2>3. CASE y < pos
    <3>1. y + DiskSize - pos \in 0 .. DiskSize - 1
      BY <1>1, <2>1, <2>3
    <3>2. (y + DiskSize - pos) % DiskSize = y + DiskSize - pos
      BY <1>1, <3>1, ModOnce
    <3> QED
      BY <2>1, <2>3, <3>1, <3>2 DEF Behind
  <2> QED
    BY <2>1, <2>2, <2>3
<1>4. WriteAt(b, pos, data) =
        [y \in Positions |-> IF Index(y) <= Len(data) THEN data[Index(y)] ELSE b[y]]
  BY DEF WriteAt, Positions
<1> HIDE DEF Index
<1>5. ASSUME NEW y \in Positions
      PROVE  (IF Index(y) <= Len(data) THEN data[Index(y)] ELSE b[y]) \in Bytes \cup {None}
  <2>1. b[y] \in Bytes \cup {None}
    BY DEF Disks
  <2>2. Index(y) \in Nat \ {0}
    BY <1>3
  <2> QED
    BY <1>2, <2>1, <2>2
<1>6. WriteAt(b, pos, data) \in Disks
  BY <1>4, <1>5 DEF Disks
<1>7. ASSUME NEW y \in Positions
      PROVE  /\ pos <= y /\ y < pos + Len(data) => WriteAt(b, pos, data)[y] = data[y - pos + 1]
             /\ pos + Len(data) <= DiskSize /\ ~(pos <= y /\ y < pos + Len(data)) =>
                  WriteAt(b, pos, data)[y] = b[y]
  <2>1. y \in Nat /\ y < DiskSize
    BY <1>1 DEF Positions
  <2>2. WriteAt(b, pos, data)[y] = IF Index(y) <= Len(data) THEN data[Index(y)] ELSE b[y]
    BY <1>4
  <2>3. CASE pos <= y
    BY <1>1, <1>2, <1>3, <2>1, <2>2, <2>3
  <2>4. CASE y < pos
    BY <1>1, <1>2, <1>3, <2>1, <2>2, <2>4
  <2> QED
    BY <1>1, <2>1, <2>3, <2>4
<1> QED
  BY <1>6, <1>7

(* What is written within a cell is nowhere else. *)
LEMMA WriteInCell ==
  ASSUME NEW b \in Disks, NEW c \in Cells, NEW x \in InCell, NEW data \in Seq(Bytes),
         x + Len(data) <= CellSize
  PROVE  /\ WriteAt(b, c * CellSize + x, data) \in Disks
         /\ \A d \in Cells, y \in InCell :
              Spot(WriteAt(b, c * CellSize + x, data), d, y) =
                IF d = c /\ x <= y /\ y < x + Len(data)
                THEN data[y - x + 1] ELSE Spot(b, d, y)
<1> DEFINE pos == c * CellSize + x
<1>1. CellSize \in Nat \ {0} /\ CellNum \in Nat \ {0} /\ Len(data) \in Nat
  BY CellAssumption
<1>2. /\ c \in Nat /\ c < CellNum /\ x \in Nat /\ x < CellSize
  BY <1>1 DEF Cells, InCell
<1>3. c * CellSize \in Nat /\ c * CellSize + CellSize <= CellNum * CellSize
  BY <1>1, <1>2, CellTimes
<1>4. DiskSize = CellNum * CellSize /\ DiskSize \in Nat
  BY <1>1 DEF DiskSize
<1>5. pos \in Nat /\ pos < DiskSize /\ pos + Len(data) <= DiskSize
  BY <1>1, <1>2, <1>3, <1>4
<1>6. ASSUME NEW d \in Cells, NEW y \in InCell,
             NEW z, z = d * CellSize + y
      PROVE  /\ z \in Positions
             /\ (pos <= z /\ z < pos + Len(data)) <=> (d = c /\ x <= y /\ y < x + Len(data))
             /\ d = c => z - pos = y - x
  <2>1. d \in Nat /\ y \in Nat /\ y < CellSize
    BY <1>1 DEF Cells, InCell
  <2>2. z \in Positions
    BY <1>6, PlaceIs
  <2>3. PICK u \in Nat, v \in Nat : u = c * CellSize /\ v = d * CellSize
    BY <1>1, <1>3, <2>1
  <2>4. pos = u + x /\ z = v + y
    BY <1>6, <2>3
  <2>5. /\ c < d => u + CellSize <= v
        /\ d < c => v + CellSize <= u
        /\ d = c => u = v
    BY <1>2, <2>1, <2>3, CellTimes
  <2> HIDE DEF pos
  <2>6. (pos <= z /\ z < pos + Len(data)) <=> (d = c /\ x <= y /\ y < x + Len(data))
    BY <1>1, <1>2, <2>1, <2>4, <2>5
  <2>7. d = c => z - pos = y - x
    BY <1>1, <1>2, <2>1, <2>4, <2>5
  <2> QED
    BY <2>2, <2>6, <2>7
<1> HIDE DEF pos
<1>7. /\ WriteAt(b, pos, data) \in Disks
      /\ \A y \in Positions :
           WriteAt(b, pos, data)[y] = IF pos <= y /\ y < pos + Len(data)
                                      THEN data[y - pos + 1] ELSE b[y]
  <2>1. pos \in Positions
    BY PlaceIs DEF pos
  <2> QED
    BY <1>5, <2>1, WriteType
<1>8. ASSUME NEW d \in Cells, NEW y \in InCell
      PROVE  WriteAt(b, pos, data)[d * CellSize + y] =
               IF d = c /\ x <= y /\ y < x + Len(data)
               THEN data[y - x + 1] ELSE b[d * CellSize + y]
  <2> DEFINE z == d * CellSize + y
  <2>1. z = d * CellSize + y
    OBVIOUS
  <2> HIDE DEF z
  <2>2. /\ z \in Positions
        /\ (pos <= z /\ z < pos + Len(data)) <=> (d = c /\ x <= y /\ y < x + Len(data))
        /\ d = c => z - pos = y - x
    BY <1>6, <2>1
  <2>3. WriteAt(b, pos, data)[z] = IF d = c /\ x <= y /\ y < x + Len(data)
                                   THEN data[y - x + 1] ELSE b[z]
    BY <1>7, <2>2
  <2> QED
    BY <2>3 DEF z
<1> QED
  BY <1>7, <1>8 DEF pos, Spot

(* What is written from an offset on is what that covers. *)
LEMMA WriteCovers ==
  ASSUME NEW b \in Disks, NEW pos \in Positions, NEW data \in Seq(Bytes),
         NEW x \in Positions, x \notin Covered(pos, Len(data))
  PROVE  WriteAt(b, pos, data)[x] = b[x]
<1>1. x \in 0 .. DiskSize - 1 /\ WriteAt(b, pos, data)[x] =
        LET i == Behind(x, pos) + 1 IN IF i <= Len(data) THEN data[i] ELSE b[x]
  BY DEF WriteAt, Positions
<1>2. Behind(x, pos) \in Int /\ Len(data) \in Nat
  <2>1. DiskSize \in Nat \ {0}
    BY CellAssumption DEF DiskSize
  <2>2. x + DiskSize - pos \in Nat
    BY <2>1 DEF Positions
  <2>3. \A u \in Nat : u % DiskSize \in Int
    BY <2>1, DivMod
  <2> QED
    BY <2>2, <2>3 DEF Behind
<1>3. ~(Behind(x, pos) < Len(data))
  BY <1>1 DEF Covered
<1> QED
  BY <1>1, <1>2, <1>3

(* An offset covers what follows it in its cell. *)
LEMMA CoversAfter ==
  ASSUME NEW c \in Cells, NEW x \in InCell, NEW y \in InCell, NEW n \in Int,
         x <= y, y < x + n
  PROVE  c * CellSize + y \in Covered(c * CellSize + x, n)
<1>1. /\ CellSize \in Nat \ {0} /\ CellNum \in Nat \ {0} /\ DiskSize \in Nat \ {0}
      /\ x \in Nat /\ y \in Nat
  BY CellAssumption DEF DiskSize, InCell
<1>2. c * CellSize + x \in Positions /\ c * CellSize + y \in Positions
  BY PlaceIs
<1>3. PICK u \in Nat : u = c * CellSize
  BY <1>1 DEF Cells
<1>4. Behind(u + y, u + x) = y - x
  <2>1. y - x \in 0 .. DiskSize - 1
    BY <1>1, <1>2, <1>3 DEF Positions
  <2>2. ((y - x) + DiskSize) % DiskSize = y - x
    BY <1>1, <2>1, ModOnce
  <2>3. (y - x) + DiskSize = (u + y) + DiskSize - (u + x)
    BY <1>1
  <2> QED
    BY <2>2, <2>3 DEF Behind
<1>5. y - x < n
  BY <1>1
<1> QED
  BY <1>2, <1>3, <1>4, <1>5 DEF Covered, Positions

LEMMA Lengths ==
  /\ HeadLen \in Nat \ {0} /\ PtrLen \in Nat \ {0}
  /\ LinkLen \in Nat \ {0} /\ LinkLen <= HeadLen /\ LinkLen <= PtrLen
  /\ CellNum \in Nat \ {0} /\ CellSize \in Nat \ {0} /\ PtrLen <= CellSize
  /\ DiskSize \in Nat \ {0}
<1>1. /\ HeadLen \in Nat \ {0} /\ PtrLen \in Nat \ {0}
      /\ LinkLen \in Nat \ {0} /\ LinkLen <= HeadLen /\ LinkLen <= PtrLen
      /\ CellNum \in Nat \ {0} /\ CellSize \in Nat \ {0} /\ PtrLen <= CellSize
  BY CellAssumption
<1>2. \A s, n \in Nat \ {0} : s * n \in Nat \ {0}
  OBVIOUS
<1> QED
  BY <1>1, <1>2 DEF DiskSize

LEMMA Concat ==
  ASSUME NEW s \in Seq(Bytes), NEW t \in Seq(Bytes)
  PROVE  /\ s \o t \in Seq(Bytes) /\ Len(s \o t) = Len(s) + Len(t)
         /\ \A i \in 1 .. Len(s) : (s \o t)[i] = s[i]
         /\ \A i \in Len(s) + 1 .. Len(s) + Len(t) : (s \o t)[i] = t[i - Len(s)]
  OBVIOUS

LEMMA TailOf ==
  ASSUME NEW s \in Seq(Bytes), NEW m \in Nat, m <= Len(s)
  PROVE  LET t == SubSeq(s, m + 1, Len(s)) IN
         /\ t \in Seq(Bytes) /\ Len(t) = Len(s) - m
         /\ \A i \in 1 .. Len(s) - m : t[i] = s[m + i]
<1>1. CASE m = Len(s)
  <2>1. SubSeq(s, m + 1, Len(s)) = << >>
    BY <1>1
  <2> QED
    BY <1>1, <2>1
<1>2. CASE m < Len(s)
  <2>1. m + 1 \in 1 .. Len(s)
    BY <1>2
  <2>2. \A i \in 1 .. Len(s) - m : m + 1 + i - 1 = m + i
    OBVIOUS
  <2> QED
    BY <1>2, <2>1, <2>2
<1> QED
  BY <1>1, <1>2

LEMMA ByteIs ==
  ASSUME NEW kind \in {"packet", "cell", "link"}, NEW id \in Nat, NEW i \in Nat
  PROVE  /\ Byte(kind, id, i) \in Bytes /\ Byte(kind, id, i) # None
         /\ Byte(kind, id, i).kind = kind /\ Byte(kind, id, i).id = id
         /\ Byte(kind, id, i).i = i
  BY NoneAssumption DEF Byte, Bytes

LEMMA HeaderIs ==
  ASSUME NEW p \in Claims
  PROVE  /\ Header(p) \in Seq(Bytes) /\ Len(Header(p)) = HeadLen
         /\ \A i \in 1 .. HeadLen : Header(p)[i] = Byte("packet", p.id, i)
<1>1. p.id \in Nat
  BY DEF Claims
<1>2. \A i \in 1 .. HeadLen : Byte("packet", p.id, i) \in Bytes
  BY <1>1, ByteIs, Lengths
<1> QED
  BY <1>2, Lengths DEF Header

LEMMA BodyIs ==
  ASSUME NEW p \in Claims, NEW n \in Nat
  PROVE  /\ Body(p, n) \in Seq(Bytes) /\ Len(Body(p, n)) = n
         /\ \A i \in 1 .. n : Body(p, n)[i] = Byte("packet", p.id, HeadLen + i)
<1>1. p.id \in Nat
  BY DEF Claims
<1>2. \A i \in 1 .. n : Byte("packet", p.id, HeadLen + i) \in Bytes
  BY <1>1, ByteIs, Lengths
<1> QED
  BY <1>2, Lengths DEF Body

LEMMA NumberIs ==
  ASSUME NEW c \in Cells
  PROVE  /\ Number(c) \in Seq(Bytes) /\ Len(Number(c)) = PtrLen
         /\ Number(c)[1] = Byte("cell", c, 1)
<1>1. c \in Nat
  BY Lengths DEF Cells
<1>2. \A i \in 1 .. PtrLen : Byte("cell", c, i) \in Bytes
  BY <1>1, ByteIs, Lengths
<1> QED
  BY <1>2, Lengths DEF Number

LEMMA DiffIs ==
  ASSUME NEW d \in Nat
  PROVE  /\ Diff(d) \in Seq(Bytes) /\ Len(Diff(d)) = LinkLen
         /\ Diff(d)[1] = Byte("link", d, 1)
<1>1. \A i \in 1 .. LinkLen : Byte("link", d, i) \in Bytes
  BY ByteIs, Lengths
<1> QED
  BY <1>1, Lengths DEF Diff

(* A byte of a packet's header says which, one of its data whose it is. *)
LEMMA ByteOf ==
  ASSUME NEW p \in Claims, NEW i \in Nat, NEW j \in Nat, i <= HeadLen => i = j
  PROVE  IsOf(Byte("packet", p.id, j), p, i)
<1>1. p.id \in Nat
  BY DEF Claims
<1> QED
  BY <1>1, ByteIs DEF IsOf

LEMMA ClaimIs ==
  ASSUME NEW p \in Claims
  PROVE  /\ Off(p) \in InCell /\ Off(p) \in Nat /\ Off(p) < CellSize
         /\ Size(p) \in Nat /\ HeadLen < Size(p) /\ Size(p) + PtrLen <= CellSize
         /\ p.len \in Nat \ {0} /\ CellOf(p.pos) \in Cells
         /\ Room(p) = CellSize - Off(p) - PtrLen
         /\ p.pos = CellOf(p.pos) * CellSize + Off(p)
<1>1. p.pos \in Positions /\ p.len \in Lens
  BY DEF Claims
<1>2. p.len \in Nat \ {0} /\ HeadLen + p.len + PtrLen <= CellSize
  BY <1>1, CellAssumption
<1>3. /\ CellOf(p.pos) \in Cells /\ p.pos % CellSize \in InCell
      /\ p.pos = CellOf(p.pos) * CellSize + (p.pos % CellSize)
  BY <1>1, PlaceOf
<1> QED
  BY <1>2, <1>3, Lengths DEF Off, Size, Room, InCell

LEMMA WholeBytes ==
  ASSUME NEW p \in Claims
  PROVE  LET data == Header(p) \o Body(p, p.len) IN
         /\ data \in Seq(Bytes) /\ Len(data) = Size(p)
         /\ \A i \in 1 .. Size(p) : IsOf(data[i], p, i)
<1> DEFINE data == Header(p) \o Body(p, p.len)
<1>1. p.len \in Nat /\ HeadLen \in Nat
  BY ClaimIs, Lengths
<1>2. /\ Header(p) \in Seq(Bytes) /\ Len(Header(p)) = HeadLen
      /\ \A i \in 1 .. HeadLen : Header(p)[i] = Byte("packet", p.id, i)
  BY HeaderIs
<1>3. /\ Body(p, p.len) \in Seq(Bytes) /\ Len(Body(p, p.len)) = p.len
      /\ \A i \in 1 .. p.len : Body(p, p.len)[i] = Byte("packet", p.id, HeadLen + i)
  BY <1>1, BodyIs
<1>4. /\ data \in Seq(Bytes) /\ Len(data) = HeadLen + p.len
      /\ \A i \in 1 .. HeadLen : data[i] = Header(p)[i]
      /\ \A i \in HeadLen + 1 .. HeadLen + p.len : data[i] = Body(p, p.len)[i - HeadLen]
  <2>1. /\ data \in Seq(Bytes) /\ Len(data) = Len(Header(p)) + Len(Body(p, p.len))
        /\ \A i \in 1 .. Len(Header(p)) : data[i] = Header(p)[i]
        /\ \A i \in Len(Header(p)) + 1 .. Len(Header(p)) + Len(Body(p, p.len)) :
             data[i] = Body(p, p.len)[i - Len(Header(p))]
    BY <1>2, <1>3, Concat
  <2> HIDE DEF data
  <2> QED
    BY <1>2, <1>3, <2>1
<1> HIDE DEF data
<1>5. ASSUME NEW i \in 1 .. Size(p) PROVE IsOf(data[i], p, i)
  <2>1. i \in Nat /\ i <= HeadLen + p.len /\ 1 <= i
    BY <1>1 DEF Size
  <2>2. CASE i <= HeadLen
    <3>1. data[i] = Byte("packet", p.id, i)
      BY <1>1, <1>2, <1>4, <2>1, <2>2
    <3> QED
      BY <2>1, <3>1, ByteOf
  <2>3. CASE i > HeadLen
    <3>1. i - HeadLen \in 1 .. p.len /\ HeadLen + (i - HeadLen) = i
      BY <1>1, <2>1, <2>3
    <3>2. data[i] = Byte("packet", p.id, i)
      BY <1>1, <1>3, <1>4, <2>1, <2>3, <3>1
    <3> QED
      BY <2>1, <3>2, ByteOf
  <2> QED
    BY <1>1, <2>1, <2>2, <2>3
<1> QED
  BY <1>4, <1>5 DEF Size, data

LEMMA SplitBytes ==
  ASSUME NEW p \in Claims, Off(p) + PtrLen <= CellSize, CellSize <= Off(p) + Size(p) + PtrLen
  PROVE  /\ Rest(p) \in Nat /\ Room(p) \in Nat /\ Size(p) = Room(p) + Rest(p)
         /\ FirstPart(p) \in Seq(Bytes) /\ Len(FirstPart(p)) = Room(p)
         /\ \A i \in 1 .. Room(p) : IsOf(FirstPart(p)[i], p, i)
         /\ SecondPart(p) \in Seq(Bytes) /\ Len(SecondPart(p)) = Rest(p)
         /\ \A i \in Room(p) + 1 .. Size(p) : IsOf(SecondPart(p)[i - Room(p)], p, i)
<1> DEFINE h1 == SubSeq(Header(p), 1, Front(p))
           b1 == Body(p, Room(p) - Front(p))
           h2 == SubSeq(Header(p), Front(p) + 1, HeadLen)
           b2 == Body(p, p.len + Front(p) - Room(p))
<1>1. /\ p.len \in Nat \ {0} /\ HeadLen \in Nat \ {0} /\ PtrLen \in Nat /\ CellSize \in Nat
      /\ Off(p) \in Nat /\ Room(p) = CellSize - Off(p) - PtrLen /\ Size(p) = HeadLen + p.len
  BY ClaimIs, Lengths DEF Size
<1>2. Rest(p) \in Nat /\ Room(p) \in Nat /\ Size(p) = Room(p) + Rest(p)
  BY <1>1, Lengths DEF Rest
<1>3. Front(p) \in Nat /\ Front(p) <= HeadLen /\ Front(p) <= Room(p)
      /\ (Front(p) = Room(p) \/ Front(p) = HeadLen)
  BY <1>1, <1>2 DEF Front
<1>4. Room(p) - Front(p) \in Nat /\ p.len + Front(p) - Room(p) \in Nat
  BY <1>1, <1>2, <1>3
<1>5. /\ Header(p) \in Seq(Bytes) /\ Len(Header(p)) = HeadLen
      /\ \A i \in 1 .. HeadLen : Header(p)[i] = Byte("packet", p.id, i)
  BY HeaderIs
<1>6. /\ h1 \in Seq(Bytes) /\ Len(h1) = Front(p)
      /\ \A i \in 1 .. Front(p) : h1[i] = Header(p)[i]
  BY <1>1, <1>3, <1>5
<1>7. /\ h2 \in Seq(Bytes) /\ Len(h2) = HeadLen - Front(p)
      /\ \A i \in 1 .. HeadLen - Front(p) : h2[i] = Header(p)[Front(p) + i]
  <2>1. Front(p) <= Len(Header(p))
    BY <1>3, <1>5
  <2> QED
    BY <1>3, <1>5, <2>1, TailOf
<1>8. /\ b1 \in Seq(Bytes) /\ Len(b1) = Room(p) - Front(p)
      /\ \A i \in 1 .. Room(p) - Front(p) : b1[i] = Byte("packet", p.id, HeadLen + i)
  BY <1>4, BodyIs
<1>9. /\ b2 \in Seq(Bytes) /\ Len(b2) = p.len + Front(p) - Room(p)
      /\ \A i \in 1 .. p.len + Front(p) - Room(p) : b2[i] = Byte("packet", p.id, HeadLen + i)
  BY <1>4, BodyIs
<1>10. FirstPart(p) = h1 \o b1 /\ SecondPart(p) = h2 \o b2
  BY DEF FirstPart, SecondPart
<1> HIDE DEF h1, h2, b1, b2
<1>11. /\ FirstPart(p) \in Seq(Bytes) /\ Len(FirstPart(p)) = Room(p)
       /\ \A i \in 1 .. Front(p) : FirstPart(p)[i] = h1[i]
       /\ \A i \in Front(p) + 1 .. Room(p) : FirstPart(p)[i] = b1[i - Front(p)]
  <2>1. /\ h1 \o b1 \in Seq(Bytes) /\ Len(h1 \o b1) = Len(h1) + Len(b1)
        /\ \A i \in 1 .. Len(h1) : (h1 \o b1)[i] = h1[i]
        /\ \A i \in Len(h1) + 1 .. Len(h1) + Len(b1) : (h1 \o b1)[i] = b1[i - Len(h1)]
    BY <1>6, <1>8, Concat
  <2>2. Len(h1) = Front(p) /\ Len(h1) + Len(b1) = Room(p)
    BY <1>2, <1>3, <1>6, <1>8
  <2> QED
    BY <2>1, <2>2, <1>10
<1>12. /\ SecondPart(p) \in Seq(Bytes) /\ Len(SecondPart(p)) = Rest(p)
       /\ \A i \in 1 .. HeadLen - Front(p) : SecondPart(p)[i] = h2[i]
       /\ \A i \in HeadLen - Front(p) + 1 .. Rest(p) :
            SecondPart(p)[i] = b2[i - (HeadLen - Front(p))]
  <2>1. /\ h2 \o b2 \in Seq(Bytes) /\ Len(h2 \o b2) = Len(h2) + Len(b2)
        /\ \A i \in 1 .. Len(h2) : (h2 \o b2)[i] = h2[i]
        /\ \A i \in Len(h2) + 1 .. Len(h2) + Len(b2) : (h2 \o b2)[i] = b2[i - Len(h2)]
    BY <1>7, <1>9, Concat
  <2>2. Len(h2) = HeadLen - Front(p) /\ Len(h2) + Len(b2) = Rest(p)
    <3>1. Len(h2) = HeadLen - Front(p) /\ Len(b2) = p.len + Front(p) - Room(p)
      BY <1>7, <1>9
    <3>2. (HeadLen - Front(p)) + (p.len + Front(p) - Room(p)) = Rest(p)
      <4>1. /\ HeadLen \in Nat /\ p.len \in Nat /\ Front(p) \in Nat
            /\ Room(p) \in Nat /\ Rest(p) \in Nat /\ HeadLen + p.len = Room(p) + Rest(p)
        BY <1>1, <1>2, <1>3
      <4> QED
        BY <4>1
    <3> QED
      BY <3>1, <3>2
  <2> QED
    BY <2>1, <2>2, <1>10
<1>13. ASSUME NEW i \in 1 .. Room(p) PROVE IsOf(FirstPart(p)[i], p, i)
  <2>1. i \in Nat /\ 1 <= i /\ i <= Room(p)
    BY <1>2
  <2>2. CASE i <= Front(p)
    <3>1. FirstPart(p)[i] = Byte("packet", p.id, i)
      BY <1>3, <1>5, <1>6, <1>11, <1>1, <2>1, <2>2
    <3> QED
      BY <2>1, <3>1, ByteOf
  <2>3. CASE i > Front(p)
    <3>1. Front(p) = HeadLen /\ i - Front(p) \in 1 .. Room(p) - Front(p)
          /\ HeadLen + (i - Front(p)) = i
      BY <1>1, <1>2, <1>3, <2>1, <2>3
    <3>2. FirstPart(p)[i] = Byte("packet", p.id, i)
      <4>1. FirstPart(p)[i] = b1[i - Front(p)]
        <5>1. i \in Front(p) + 1 .. Room(p)
          BY <1>2, <1>3, <2>1, <2>3
        <5> QED
          BY <1>11, <5>1
      <4>2. b1[i - Front(p)] = Byte("packet", p.id, HeadLen + (i - Front(p)))
        BY <1>8, <3>1
      <4> QED
        BY <3>1, <4>1, <4>2
    <3> QED
      BY <2>1, <3>2, ByteOf
  <2> QED
    BY <1>3, <2>1, <2>2, <2>3
<1>14. ASSUME NEW i \in Room(p) + 1 .. Size(p)
       PROVE  IsOf(SecondPart(p)[i - Room(p)], p, i)
  <2> DEFINE j == i - Room(p)
  <2>1. i \in Nat /\ j \in 1 .. Rest(p) /\ i = Room(p) + j
    BY <1>1, <1>2
  <2> HIDE DEF j
  <2>2. CASE j <= HeadLen - Front(p)
    <3>1. Front(p) = Room(p) /\ j \in 1 .. HeadLen - Front(p) /\ Front(p) + j \in 1 .. HeadLen
      BY <1>1, <1>2, <1>3, <2>1, <2>2
    <3>2. SecondPart(p)[j] = Byte("packet", p.id, i)
      BY <1>5, <1>7, <1>12, <2>1, <3>1
    <3> QED
      BY <2>1, <3>2, ByteOf DEF j
  <2>3. CASE j > HeadLen - Front(p)
    <3> DEFINE k == j - (HeadLen - Front(p))
    <3>1. /\ j \in HeadLen - Front(p) + 1 .. Rest(p)
          /\ k \in 1 .. p.len + Front(p) - Room(p) /\ HeadLen + k \in Nat
          /\ i > HeadLen
      BY <1>1, <1>2, <1>3, <1>4, <2>1, <2>3
    <3>2. SecondPart(p)[j] = b2[k]
      BY <1>12, <3>1
    <3> HIDE DEF k
    <3>3. SecondPart(p)[j] = Byte("packet", p.id, HeadLen + k)
      BY <1>9, <3>1, <3>2
    <3>4. i <= HeadLen => i = HeadLen + k
      BY <3>1, <2>1, <1>1
    <3> QED
      BY <2>1, <3>1, <3>3, <3>4, ByteOf DEF j
  <2> QED
    BY <1>1, <1>3, <2>1, <2>2, <2>3
<1> QED
  BY <1>2, <1>11, <1>12, <1>13, <1>14

-----------------------------------------------------------------------------
(* Storing a packet *)

Kept(T) == {q \in packets : CellOf(q.pos) \notin T}

(* What both ways of storing w's packet p come to: P is what packets gains,*)
(* T the cells that are taken, b the disk before the link is written.      *)
Record(w, p) == [writer |-> w, id |-> p.id, flow |-> p.flow, len |-> p.len,
                 pos |-> p.pos, indexed |-> p.last = None]

(* Nothing else changes but what a stray packet is written over. *)
Frame(w, p, T, b) ==
  \A d \in Cells \ T, y \in InCell :
    IF p.stray THEN Spot(b, d, y) = Held(d, y) \/ Bad(d, y)'
    ELSE d # writeCell[w] \/ y < Off(p) => Spot(b, d, y) = Held(d, y)

Placed(w, p, b) ==
  \A i \in 1 .. Size(p) :
    i <= Room(p) => IsOf(Spot(b, writeCell[w], Off(p) + i - 1), p, i)

(* The thread goes on in cell c, after what remains. *)
GoingOn(w, p, c) ==
  /\ diskWriteCell' = Following(c)
  /\ writeCell' = [writeCell EXCEPT ![w] = c]
  /\ writeOffset' = [writeOffset EXCEPT ![w] = Rest(p)]
  /\ Rest(p) \in Nat /\ Rest(p) + PtrLen <= CellSize

Continued(w, p, c, b) ==
  /\ Spot(b, writeCell[w], CellSize - PtrLen) = Byte("cell", c, 1)
  /\ \A i \in 1 .. Size(p) : i > Room(p) => IsOf(Spot(b, c, i - Room(p) - 1), p, i)

Storing(w, p, P, T, b) ==
  /\ p = pending[w] /\ p \in Claims /\ p # None /\ ClaimOf(w, p)
  /\ P = Record(w, p) /\ packets' = Kept(T) \cup (IF p.stray THEN {} ELSE {P})
  /\ spoilt' = {x \in spoilt : CellOf(x) \notin T} \cup Spoiling(w, p, Kept(T))
  /\ strayed' = IF p.stray THEN strayed \cup {<<w, p.flow>>} ELSE strayed
  /\ pending' = [pending EXCEPT ![w] = None] /\ UNCHANGED <<aggMap, count, alive>>
  /\ b \in Disks /\ disk' = Linked(b, p)
  /\ T \subseteq Cells /\ \A v \in Writers : writeCell[v] \notin T
  /\ Frame(w, p, T, b)
  /\ ~p.stray => Placed(w, p, b)
  /\ \/ /\ T = {} /\ ~p.stray /\ Whole(p)
        /\ UNCHANGED <<diskWriteCell, writeCell, writeOffset>>
     \/ /\ T = {diskWriteCell} /\ GoingOn(w, p, diskWriteCell)
        /\ ~p.stray => ~Whole(p) /\ Continued(w, p, diskWriteCell, b)

LEMMA PendingIs ==
  ASSUME CellsTypeOK, Claiming, NEW w \in Writers, pending[w] # None
  PROVE  /\ pending[w] \in Claims /\ ClaimOf(w, pending[w]) /\ pending[w].stray \in BOOLEAN
         /\ writeCell[w] \in Cells /\ Off(pending[w]) \in InCell
         /\ ~pending[w].stray => /\ Claimed(w, pending[w])
                                 /\ CellOf(pending[w].pos) = writeCell[w]
                                 /\ Off(pending[w]) + PtrLen <= CellSize
<1>1. pending[w] \in Claims /\ ClaimOf(w, pending[w]) /\ writeCell[w] \in Cells
      /\ pending[w].stray \in BOOLEAN
  BY DEF CellsTypeOK, Claiming, Claims
<1> QED
  BY <1>1, ClaimIs DEF Claimed, ClaimOf

LEMMA FitsIsStoring ==
  ASSUME CellsTypeOK, Claiming, NEW w \in Writers, StoreFits(w)
  PROVE  \E p, P, b : Storing(w, p, P, {}, b)
<1> DEFINE p == pending[w]
           data == Header(p) \o Body(p, p.len)
           b == WriteAt(disk, p.pos, data)
           c == writeCell[w]
<1>1. p # None /\ writeOffset[w] <= CellSize
  BY DEF StoreFits
<1>0. p \in Claims /\ ~p.stray
  <2>1. p \in Claims /\ ClaimOf(w, p) /\ p.stray \in BOOLEAN
    BY <1>1, PendingIs
  <2>2. p.stray => writeOffset[w] > CellSize
    <3> SUFFICES ASSUME NEW k \in Nat \ {0},
                        writeOffset[w] = CellSize * k + (Off(p) + Size(p) + PtrLen)
                 PROVE  writeOffset[w] > CellSize
      BY <2>1 DEF ClaimOf, Astray
    <3>1. Off(p) \in Nat /\ Size(p) \in Nat /\ PtrLen \in Nat \ {0} /\ CellSize \in Nat
      BY <2>1, ClaimIs, Lengths
    <3> DEFINE e == Off(p) + Size(p) + PtrLen
    <3>2. e \in Nat /\ e > 0
      BY <3>1
    <3> HIDE DEF e
    <3>3. CellSize * k >= CellSize
      BY <3>1
    <3>4. CellSize * k \in Nat
      BY <3>1
    <3>5. writeOffset[w] = CellSize * k + e
      BY DEF e
    <3> QED
      BY <3>1, <3>2, <3>3, <3>4, <3>5
  <2>3. ~(writeOffset[w] > CellSize)
    <3>1. writeOffset[w] \in Nat
      BY DEF CellsTypeOK
    <3> QED
      BY <1>1, <3>1, Lengths
  <2> QED
    BY <2>1, <2>2, <2>3
<1>2. /\ p \in Claims /\ Claimed(w, p) /\ c \in Cells /\ Off(p) \in InCell
      /\ Off(p) + PtrLen <= CellSize /\ p.pos = c * CellSize + Off(p)
  BY <1>0, <1>1, PendingIs, ClaimIs
<1>3. /\ Off(p) \in Nat /\ Size(p) \in Nat /\ PtrLen \in Nat /\ CellSize \in Nat
      /\ PtrLen > 0 /\ Room(p) = CellSize - Off(p) - PtrLen
  BY <1>2, ClaimIs, Lengths
<1>4. Whole(p)
  BY <1>1, <1>2, <1>3 DEF Claimed, Whole
<1>5. /\ data \in Seq(Bytes) /\ Len(data) = Size(p)
      /\ \A i \in 1 .. Size(p) : IsOf(data[i], p, i)
  BY <1>2, WholeBytes
<1>6. disk \in Disks
  BY DEF CellsTypeOK
<1>7. /\ disk' = Linked(b, p) /\ Stored(w, p, packets, spoilt)
      /\ UNCHANGED <<diskWriteCell, writeCell, writeOffset>>
  BY DEF StoreFits
<1> HIDE DEF data
<1>8. Off(p) + Len(data) <= CellSize
  BY <1>3, <1>4, <1>5 DEF Whole
<1>9. /\ b \in Disks
      /\ \A d \in Cells, y \in InCell :
           Spot(b, d, y) = IF d = c /\ Off(p) <= y /\ y < Off(p) + Len(data)
                           THEN data[y - Off(p) + 1] ELSE Spot(disk, d, y)
  BY <1>2, <1>5, <1>6, <1>8, WriteInCell
<1>10. Kept({}) = packets
  BY DEF Kept
<1> HIDE DEF p, b, c
<1>11. Frame(w, p, {}, b)
  <2> SUFFICES ASSUME NEW d \in Cells, NEW y \in InCell, d # writeCell[w] \/ y < Off(p)
               PROVE  Spot(b, d, y) = Held(d, y)
    BY <1>0 DEF Frame
  <2>1. y \in Nat
    BY Lengths DEF InCell
  <2> QED
    BY <1>3, <1>9, <2>1 DEF Held, c
<1>12. Placed(w, p, b)
  <2> SUFFICES ASSUME NEW i \in 1 .. Size(p), i <= Room(p)
               PROVE  IsOf(Spot(b, c, Off(p) + i - 1), p, i)
    BY DEF Placed, c
  <2>1. i \in Nat /\ 1 <= i /\ i <= Size(p)
    BY <1>3
  <2> DEFINE y == Off(p) + i - 1
  <2>2. y \in InCell /\ Off(p) <= y /\ y < Off(p) + Len(data) /\ y - Off(p) + 1 = i
    BY <1>3, <1>5, <1>8, <2>1 DEF InCell
  <2> HIDE DEF y
  <2>3. Spot(b, c, y) = data[i]
    BY <1>2, <1>9, <2>2
  <2> QED
    BY <1>5, <2>3 DEF y
<1>13. spoilt = {x \in spoilt : CellOf(x) \notin {}}
  OBVIOUS
<1>14. /\ packets' = Kept({}) \cup (IF p.stray THEN {} ELSE {Record(w, p)})
       /\ spoilt' = {x \in spoilt : CellOf(x) \notin {}} \cup Spoiling(w, p, Kept({}))
       /\ strayed' = (IF p.stray THEN strayed \cup {<<w, p.flow>>} ELSE strayed)
       /\ pending' = [pending EXCEPT ![w] = None] /\ UNCHANGED <<aggMap, count, alive>>
  BY <1>0, <1>7, <1>10, <1>13 DEF Stored, Record
<1>15. Storing(w, p, Record(w, p), {}, b)
  BY <1>0, <1>1, <1>2, <1>4, <1>7, <1>9, <1>11, <1>12, <1>14 DEF Storing, ClaimOf, p
<1> QED
  BY <1>15

LEMMA SplitIsStoring ==
  ASSUME CellsTypeOK, Claiming, NEW w \in Writers, StoreSplit(w)
  PROVE  \E p, P, b : Storing(w, p, P, {diskWriteCell}, b)
<1> DEFINE p == pending[w]
           c == CellOf(p.pos)
           new == diskWriteCell
           b1 == WriteAt(disk, p.pos, FirstPart(p))
           b2 == WriteAt(b1, p.pos + Room(p), Number(new))
           b == WriteAt(b2, new * CellSize, SecondPart(p))
<1>1. /\ p # None /\ writeOffset[w] > CellSize /\ \A v \in Writers : writeCell[v] # new
      /\ 0 <= Room(p) /\ Room(p) <= HeadLen + p.len
  <2>1. /\ p # None /\ writeOffset[w] > CellSize /\ \A v \in Writers : writeCell[v] # new
        /\ ~(Room(p) < 0) /\ ~(HeadLen + p.len < Room(p))
    BY DEF StoreSplit, Underflows
  <2>2. p \in Claims
    BY <2>1, PendingIs
  <2>3. Room(p) \in Int /\ HeadLen + p.len \in Int
    BY <2>2, ClaimIs, Lengths
  <2> QED
    BY <2>1, <2>3
<1>2. /\ p \in Claims /\ ClaimOf(w, p) /\ p.stray \in BOOLEAN
      /\ c \in Cells /\ Off(p) \in InCell
      /\ p.pos = c * CellSize + Off(p) /\ writeCell[w] \in Cells
      /\ ~p.stray => Claimed(w, p) /\ c = writeCell[w]
  BY <1>1, PendingIs, ClaimIs
<1>3. /\ Off(p) \in Nat /\ Size(p) \in Nat /\ PtrLen \in Nat /\ CellSize \in Nat \ {0}
      /\ PtrLen > 0 /\ Room(p) = CellSize - Off(p) - PtrLen
      /\ Size(p) + PtrLen <= CellSize /\ PtrLen <= CellSize
      /\ Off(p) + PtrLen <= CellSize /\ CellSize <= Off(p) + Size(p) + PtrLen
  <2>1. /\ Off(p) \in Nat /\ Size(p) \in Nat /\ PtrLen \in Nat /\ CellSize \in Nat \ {0}
        /\ PtrLen > 0 /\ Room(p) = CellSize - Off(p) - PtrLen
        /\ Size(p) + PtrLen <= CellSize /\ PtrLen <= CellSize
    BY <1>2, ClaimIs, Lengths
  <2>2. Size(p) = HeadLen + p.len
    BY DEF Size
  <2> QED
    BY <1>1, <2>1, <2>2
<1>4. \E k \in Nat : writeOffset[w] = CellSize * k + Rest(p)
  <2>1. Rest(p) = Off(p) + Size(p) + PtrLen - CellSize
    BY DEF Rest
  <2>2. CASE p.stray
    <3>1. PICK k \in Nat \ {0} : writeOffset[w] = CellSize * k + (Off(p) + Size(p) + PtrLen)
      BY <1>2, <2>2 DEF ClaimOf, Astray
    <3>2. CellSize * (k + 1) = CellSize * k + CellSize /\ CellSize * k \in Nat
      BY <1>3
    <3>3. writeOffset[w] = CellSize * (k + 1) + Rest(p) /\ k + 1 \in Nat
      BY <1>3, <2>1, <3>1, <3>2
    <3> QED
      BY <3>3
  <2>3. CASE ~p.stray
    <3>1. writeOffset[w] = Off(p) + Size(p) + PtrLen
      BY <1>1, <1>2, <1>3, <2>3 DEF Claimed, Whole
    <3>2. writeOffset[w] = CellSize * 1 + Rest(p)
      BY <1>3, <2>1, <3>1
    <3> QED
      BY <3>2
  <2> QED
    BY <2>2, <2>3
<1>5. /\ Rest(p) \in Nat /\ Room(p) \in Nat /\ Size(p) = Room(p) + Rest(p)
      /\ FirstPart(p) \in Seq(Bytes) /\ Len(FirstPart(p)) = Room(p)
      /\ \A i \in 1 .. Room(p) : IsOf(FirstPart(p)[i], p, i)
      /\ SecondPart(p) \in Seq(Bytes) /\ Len(SecondPart(p)) = Rest(p)
      /\ \A i \in Room(p) + 1 .. Size(p) : IsOf(SecondPart(p)[i - Room(p)], p, i)
  BY <1>2, <1>3, SplitBytes
<1>6. disk \in Disks /\ new \in Cells /\ (~p.stray => new # c)
  BY <1>1, <1>2 DEF CellsTypeOK
<1>7. /\ disk' = Linked(b, p) /\ Stored(w, p, Kept({new}), {x \in spoilt : CellOf(x) # new})
      /\ diskWriteCell' = Following(new) /\ writeCell' = [writeCell EXCEPT ![w] = new]
      /\ writeOffset' = [writeOffset EXCEPT ![w] = @ % CellSize]
  BY DEF StoreSplit, Split, Kept
<1>8. /\ b1 \in Disks
      /\ \A d \in Cells, y \in InCell :
           Spot(b1, d, y) = IF d = c /\ Off(p) <= y /\ y < Off(p) + Len(FirstPart(p))
                            THEN FirstPart(p)[y - Off(p) + 1] ELSE Spot(disk, d, y)
  <2>1. Off(p) + Len(FirstPart(p)) <= CellSize
    BY <1>3, <1>5
  <2> QED
    BY <1>2, <1>5, <1>6, <2>1, WriteInCell
<1>9. /\ Number(new) \in Seq(Bytes) /\ Len(Number(new)) = PtrLen
      /\ Number(new)[1] = Byte("cell", new, 1)
  BY <1>6, NumberIs
<1> DEFINE z == CellSize - PtrLen
<1>10. z \in InCell /\ z \in Nat /\ z = Off(p) + Room(p) /\ z + PtrLen = CellSize
  BY <1>3 DEF InCell
<1> HIDE DEF b1
<1>11. /\ b2 \in Disks
       /\ \A d \in Cells, y \in InCell :
            Spot(b2, d, y) = IF d = c /\ z <= y /\ y < z + Len(Number(new))
                             THEN Number(new)[y - z + 1] ELSE Spot(b1, d, y)
  <2>1. p.pos + Room(p) = c * CellSize + z
    <3>1. c * CellSize \in Nat
      <4>1. c \in Nat
        BY <1>2, Lengths DEF Cells
      <4> QED
        BY <1>3, <4>1
    <3> QED
      BY <1>2, <1>3, <1>10, <3>1
  <2>2. z + Len(Number(new)) <= CellSize
    BY <1>3, <1>9, <1>10
  <2> HIDE DEF z
  <2>3. /\ WriteAt(b1, c * CellSize + z, Number(new)) \in Disks
        /\ \A d \in Cells, y \in InCell :
             Spot(WriteAt(b1, c * CellSize + z, Number(new)), d, y) =
               IF d = c /\ z <= y /\ y < z + Len(Number(new))
               THEN Number(new)[y - z + 1] ELSE Spot(b1, d, y)
    BY <1>2, <1>8, <1>9, <1>10, <2>2, WriteInCell
  <2> QED
    BY <2>1, <2>3
<1> HIDE DEF b2
<1>12. /\ b \in Disks
       /\ \A d \in Cells, y \in InCell :
            Spot(b, d, y) = IF d = new /\ 0 <= y /\ y < 0 + Len(SecondPart(p))
                            THEN SecondPart(p)[y - 0 + 1] ELSE Spot(b2, d, y)
  <2>1. 0 \in InCell /\ 0 + Len(SecondPart(p)) <= CellSize
    BY <1>3, <1>5 DEF InCell
  <2>2. new * CellSize + 0 = new * CellSize
    <3>1. new * CellSize \in Nat
      <4>1. new \in Nat
        BY <1>6, Lengths DEF Cells
      <4> QED
        BY <1>3, <4>1
    <3> QED
      BY <3>1
  <2>3. /\ WriteAt(b2, new * CellSize + 0, SecondPart(p)) \in Disks
        /\ \A d \in Cells, y \in InCell :
             Spot(WriteAt(b2, new * CellSize + 0, SecondPart(p)), d, y) =
               IF d = new /\ 0 <= y /\ y < 0 + Len(SecondPart(p))
               THEN SecondPart(p)[y - 0 + 1] ELSE Spot(b2, d, y)
    BY <1>5, <1>6, <1>11, <2>1, WriteInCell
  <2> QED
    BY <2>2, <2>3
<1> HIDE DEF p, b, c, new, z
<1>13. writeOffset[w] % CellSize = Rest(p) /\ Rest(p) + PtrLen <= CellSize
  <2>1. Rest(p) = Off(p) + Size(p) + PtrLen - CellSize
    BY DEF Rest
  <2>2. Rest(p) + PtrLen <= CellSize /\ Rest(p) \in 0 .. CellSize - 1
    <3> DEFINE o == Off(p)
               n == Size(p)
               r == Rest(p)
    <3>1. /\ o \in Nat /\ n \in Nat /\ r \in Nat /\ PtrLen \in Nat /\ CellSize \in Nat
          /\ o + PtrLen <= CellSize /\ n + PtrLen <= CellSize /\ PtrLen > 0
          /\ r = o + n + PtrLen - CellSize
      BY <1>3, <1>5, <2>1
    <3> HIDE DEF o, n, r
    <3>2. r + PtrLen <= CellSize /\ r \in 0 .. CellSize - 1
      BY <3>1
    <3> QED
      BY <3>2 DEF r
  <2>3. PICK k \in Nat : writeOffset[w] = CellSize * k + Rest(p)
    BY <1>4
  <2>4. (CellSize * k + Rest(p)) % CellSize = Rest(p)
    BY <1>3, <2>2, DivModIs
  <2> QED
    BY <2>2, <2>3, <2>4
<1>20. /\ packets' = Kept({new}) \cup (IF p.stray THEN {} ELSE {Record(w, p)})
       /\ spoilt' = {x \in spoilt : CellOf(x) \notin {new}} \cup Spoiling(w, p, Kept({new}))
       /\ strayed' = (IF p.stray THEN strayed \cup {<<w, p.flow>>} ELSE strayed)
       /\ pending' = [pending EXCEPT ![w] = None] /\ UNCHANGED <<aggMap, count, alive>>
  BY <1>7 DEF Stored, Record
<1>14. ASSUME NEW d \in Cells \ {new}, NEW y \in InCell, d # c \/ y < Off(p)
       PROVE  Spot(b, d, y) = Spot(disk, d, y)
  <2>1. y \in Nat
    BY Lengths DEF InCell
  <2>2. Spot(b, d, y) = Spot(b2, d, y)
    BY <1>12
  <2>3. Spot(b2, d, y) = Spot(b1, d, y)
    <3>1. d = c => y < z
      <4>1. Off(p) <= z /\ Off(p) \in Nat /\ z \in Nat
        BY <1>3, <1>5, <1>10
      <4> QED
        BY <1>14, <2>1, <4>1
    <3> QED
      BY <1>10, <1>11, <2>1, <3>1
  <2>4. Spot(b1, d, y) = Spot(disk, d, y)
    BY <1>3, <1>8, <1>14, <2>1
  <2> QED
    BY <2>2, <2>3, <2>4
<1>21. Frame(w, p, {new}, b)
  <2>1. CASE ~p.stray
    BY <1>2, <1>14, <2>1 DEF Frame, Held
  <2>2. CASE p.stray
    <3> SUFFICES ASSUME NEW d \in Cells \ {new}, NEW y \in InCell, d = c, ~(y < Off(p))
                 PROVE  Bad(d, y)'
      BY <1>14, <2>2 DEF Frame, Held
    <3>1. c * CellSize + y \in Covered(c * CellSize + Off(p), Room(p) + PtrLen)
      <4>1. y \in Int /\ y < CellSize
        BY Lengths DEF InCell
      <4>2. Off(p) <= y /\ y < Off(p) + (Room(p) + PtrLen) /\ Room(p) + PtrLen \in Int
        BY <1>3, <4>1
      <4> QED
        BY <1>2, <4>2, CoversAfter
    <3>2. c * CellSize + y \in Spoiling(w, p, Kept({new}))
      BY <1>2, <2>2, <3>1 DEF Spoiling
    <3> QED
      BY <1>20, <3>2 DEF Bad
  <2> QED
    BY <1>2, <2>1, <2>2
<1>15. ASSUME ~p.stray PROVE Placed(w, p, b)
  <2> SUFFICES ASSUME NEW i \in 1 .. Size(p), i <= Room(p)
               PROVE  IsOf(Spot(b, c, Off(p) + i - 1), p, i)
    BY <1>2, <1>15 DEF Placed
  <2>1. i \in Nat /\ 1 <= i /\ i <= Size(p) /\ i \in 1 .. Room(p)
    BY <1>3, <1>5
  <2> DEFINE y == Off(p) + i - 1
  <2>2. /\ y \in InCell /\ Off(p) <= y /\ y < Off(p) + Len(FirstPart(p))
        /\ y - Off(p) + 1 = i /\ y < z
    <3>1. /\ Off(p) \in Nat /\ Room(p) \in Nat /\ i \in Nat /\ 1 <= i /\ i <= Room(p)
          /\ z = Off(p) + Room(p) /\ z < CellSize /\ CellSize \in Nat
          /\ Len(FirstPart(p)) = Room(p)
      BY <1>3, <1>5, <1>10, <2>1
    <3> QED
      BY <3>1 DEF InCell
  <2> HIDE DEF y
  <2>3. y \in Nat
    BY <2>2, Lengths DEF InCell
  <2>4. Spot(b, c, y) = Spot(b2, c, y) /\ Spot(b2, c, y) = Spot(b1, c, y)
    BY <1>2, <1>6, <1>10, <1>11, <1>12, <1>15, <2>2, <2>3
  <2>5. Spot(b1, c, y) = FirstPart(p)[i]
    BY <1>2, <1>8, <2>2
  <2> QED
    BY <1>5, <2>1, <2>4, <2>5 DEF y
<1>16. ASSUME ~p.stray PROVE Spot(b, c, z) = Byte("cell", new, 1)
  <2>1. Spot(b, c, z) = Spot(b2, c, z)
    BY <1>2, <1>6, <1>10, <1>12, <1>16
  <2>2. z < z + Len(Number(new)) /\ z - z + 1 = 1
    BY <1>3, <1>9, <1>10
  <2>3. Spot(b2, c, z) = Number(new)[1]
    BY <1>2, <1>10, <1>11, <2>2
  <2> QED
    BY <1>9, <2>1, <2>3
<1>17. ASSUME NEW i \in 1 .. Size(p), i > Room(p)
       PROVE  IsOf(Spot(b, new, i - Room(p) - 1), p, i)
  <2> DEFINE y == i - Room(p) - 1
  <2>1. i \in Room(p) + 1 .. Size(p) /\ y \in InCell /\ y < 0 + Len(SecondPart(p)) /\ 0 <= y
        /\ y - 0 + 1 = i - Room(p)
    <3>1. /\ i \in Nat /\ Room(p) \in Nat /\ Size(p) \in Nat /\ Rest(p) \in Nat
          /\ i <= Size(p) /\ i > Room(p) /\ Size(p) = Room(p) + Rest(p)
          /\ Size(p) <= CellSize /\ CellSize \in Nat /\ Len(SecondPart(p)) = Rest(p)
      BY <1>3, <1>5, <1>17
    <3> QED
      BY <3>1 DEF InCell
  <2> HIDE DEF y
  <2>2. Spot(b, new, y) = SecondPart(p)[i - Room(p)]
    BY <1>6, <1>12, <2>1
  <2> QED
    BY <1>5, <2>1, <2>2 DEF y
<1>18. GoingOn(w, p, new)
  <2>1. writeOffset' = [writeOffset EXCEPT ![w] = Rest(p)]
    BY <1>7, <1>13
  <2> QED
    BY <1>5, <1>7, <1>13, <2>1 DEF GoingOn
<1>22. ASSUME ~p.stray PROVE ~Whole(p) /\ Continued(w, p, new, b)
  <2>1. ~Whole(p)
    BY <1>1, <1>2, <1>3, <1>22 DEF Claimed, Whole
  <2> QED
    BY <1>2, <1>16, <1>17, <1>22, <2>1 DEF Continued, z
<1>19. Storing(w, p, Record(w, p), {new}, b)
  <2>1. {new} \subseteq Cells /\ \A v \in Writers : writeCell[v] \notin {new}
    BY <1>1, <1>6
  <2>2. p = pending[w] /\ new = diskWriteCell /\ disk' = Linked(b, p)
    BY <1>7 DEF p, new
  <2> QED
    BY <1>1, <1>2, <1>12, <1>15, <1>18, <1>20, <1>21, <1>22, <2>1, <2>2 DEF Storing
<1> QED
  BY <1>19 DEF new

-----------------------------------------------------------------------------
(* Ages *)

LEMMA FollowingIs ==
  ASSUME NEW n \in Cells
  PROVE  /\ Following(n) \in Cells
         /\ Following(n) = IF n + 1 = CellNum THEN 0 ELSE n + 1
<1>1. n \in Nat /\ n < CellNum /\ CellNum \in Nat \ {0}
  BY Lengths DEF Cells
<1>2. CASE n + 1 = CellNum
  <2>1. (0 + CellNum) % CellNum = 0
    BY <1>1, ModOnce
  <2>2. 0 + CellNum = n + 1
    BY <1>1, <1>2
  <2> QED
    BY <1>1, <1>2, <2>1, <2>2 DEF Following, Cells
<1>3. CASE n + 1 # CellNum
  <2>1. n + 1 \in 0 .. CellNum - 1
    BY <1>1, <1>3
  <2>2. (n + 1) % CellNum = n + 1
    BY <1>1, <2>1, ModOnce
  <2> QED
    BY <1>1, <1>3, <2>1, <2>2 DEF Following, Cells
<1> QED
  BY <1>2, <1>3

(* Taking a cell makes all others older by one. *)
LEMMA AgeNext ==
  ASSUME NEW n \in Cells, NEW c \in Cells
  PROVE  /\ AgeBy(n, c) \in Cells
         /\ AgeBy(Following(n), c) =
              IF c = n THEN 0 ELSE AgeBy(n, c) + 1
         /\ c = n <=> AgeBy(n, c) = CellNum - 1
<1>1. n \in Nat /\ n < CellNum /\ CellNum \in Nat /\ c \in Nat /\ c < CellNum
  BY Lengths DEF Cells
<1>2. Following(n) = IF n + 1 = CellNum THEN 0 ELSE n + 1
  BY FollowingIs
<1>3. AgeBy(n, c) = IF c < n THEN n - 1 - c ELSE n + CellNum - 1 - c
  BY DEF AgeBy
<1>4. AgeBy(n, c) \in Cells
  BY <1>1, <1>3 DEF Cells
<1>5. c = n <=> AgeBy(n, c) = CellNum - 1
  BY <1>1, <1>3
<1>6. CASE n + 1 = CellNum
  <2>1. AgeBy(0, c) = 0 + CellNum - 1 - c
    BY <1>1 DEF AgeBy
  <2> QED
    BY <1>1, <1>2, <1>3, <1>4, <1>5, <1>6, <2>1
<1>7. CASE n + 1 # CellNum
  <2>1. AgeBy(n + 1, c) = IF c < n + 1 THEN n + 1 - 1 - c ELSE n + 1 + CellNum - 1 - c
    BY <1>1 DEF AgeBy
  <2> QED
    BY <1>1, <1>2, <1>3, <1>4, <1>5, <1>7, <2>1
<1> QED
  BY <1>6, <1>7

(* Cells that are not taken keep their order, and what is taken is the     *)
(* oldest before and the newest after.                                     *)
Aging(T, next) ==
  \A c, d \in Cells :
    /\ d \notin T /\ Age(c) <= Age(d) => c \notin T /\ AgeBy(next, c) <= AgeBy(next, d)
    /\ d \notin T /\ Age(c) < Age(d) => AgeBy(next, c) < AgeBy(next, d)
    /\ c \in T => AgeBy(next, c) <= AgeBy(next, d)
    /\ c \in T /\ d \notin T => AgeBy(next, c) < AgeBy(next, d)

LEMMA StoreAges ==
  ASSUME CellsTypeOK, NEW w, NEW p, NEW P, NEW T, NEW b, Storing(w, p, P, T, b)
  PROVE  diskWriteCell' \in Cells /\ Aging(T, diskWriteCell')
<1>1. diskWriteCell \in Cells
  BY DEF CellsTypeOK
<1>2. CASE T = {} /\ diskWriteCell' = diskWriteCell
  BY <1>1, <1>2 DEF Aging, Age
<1>3. CASE T = {diskWriteCell} /\ diskWriteCell' = Following(diskWriteCell)
  <2>1. diskWriteCell' \in Cells
    BY <1>1, <1>3, FollowingIs
  <2> SUFFICES ASSUME NEW n, n = diskWriteCell, NEW c \in Cells, NEW d \in Cells
               PROVE
    /\ d # n /\ AgeBy(n, c) <= AgeBy(n, d) =>
         c # n /\ AgeBy(Following(n), c) <= AgeBy(Following(n), d)
    /\ d # n /\ AgeBy(n, c) < AgeBy(n, d) => AgeBy(Following(n), c) < AgeBy(Following(n), d)
    /\ c = n => AgeBy(Following(n), c) <= AgeBy(Following(n), d)
    /\ c = n /\ d # n => AgeBy(Following(n), c) < AgeBy(Following(n), d)
    BY <1>3, <2>1 DEF Aging, Age
  <2>2. /\ AgeBy(n, c) \in Nat /\ AgeBy(n, c) <= CellNum - 1
        /\ AgeBy(Following(n), c) = IF c = n THEN 0 ELSE AgeBy(n, c) + 1
        /\ c = n <=> AgeBy(n, c) = CellNum - 1
        /\ AgeBy(n, d) \in Nat /\ AgeBy(n, d) <= CellNum - 1
        /\ AgeBy(Following(n), d) = IF d = n THEN 0 ELSE AgeBy(n, d) + 1
        /\ d = n <=> AgeBy(n, d) = CellNum - 1
    <3>1. n \in Cells /\ \A k \in Cells : k \in Nat /\ k <= CellNum - 1
      BY <1>1, Lengths DEF Cells
    <3> QED
      BY <3>1, AgeNext
  <2> HIDE DEF AgeBy
  <2> QED
    BY <2>2, Lengths
<1> QED
  BY <1>2, <1>3 DEF Storing, GoingOn
-----------------------------------------------------------------------------
(* The invariant but for the bytes *)

LEMMA PacketIs ==
  ASSUME CellsTypeOK, NEW q \in packets
  PROVE  /\ q \in Records /\ q.writer \in Writers /\ q.id \in Nat
         /\ q.pos \in Positions /\ CellOf(q.pos) \in Cells /\ Off(q) \in InCell
         /\ Off(q) \in Nat /\ Off(q) < CellSize /\ Size(q) \in Nat /\ HeadLen < Size(q)
         /\ Size(q) + PtrLen <= CellSize /\ Room(q) = CellSize - Off(q) - PtrLen
         /\ q.pos = CellOf(q.pos) * CellSize + Off(q)
<1>1. q \in Records /\ q.writer \in Writers /\ q.id \in Nat /\ q.pos \in Positions /\ q.len \in Lens
  BY DEF CellsTypeOK, Records
<1>2. q.len \in Nat \ {0} /\ HeadLen + q.len + PtrLen <= CellSize
  BY <1>1, CellAssumption
<1>3. /\ CellOf(q.pos) \in Cells /\ q.pos % CellSize \in InCell
      /\ q.pos = CellOf(q.pos) * CellSize + (q.pos % CellSize)
  BY <1>1, PlaceOf
<1> QED
  BY <1>1, <1>2, <1>3, Lengths DEF Off, Size, Room, InCell

(* What is stored is what was claimed. *)
LEMMA RecordIs ==
  ASSUME CellsTypeOK, NEW w \in Writers, NEW p, NEW P, NEW T, NEW b, Storing(w, p, P, T, b),
         ~p.stray
  PROVE  /\ P \in Records /\ P.writer = w /\ P.id = p.id /\ P.flow = p.flow /\ P.pos = p.pos
         /\ P.indexed = (p.last = None)
         /\ Off(P) = Off(p) /\ Size(P) = Size(p) /\ Rest(P) = Rest(p) /\ Room(P) = Room(p)
         /\ Whole(P) = Whole(p)
         /\ CellOf(P.pos) = writeCell[w] /\ writeCell[w] \in Cells /\ writeCell[w] \notin T
         /\ Off(p) \in InCell /\ Off(p) \in Nat /\ Size(p) \in Nat /\ HeadLen < Size(p)
         /\ Size(p) + PtrLen <= CellSize /\ Off(p) + PtrLen <= CellSize
         /\ Room(p) = CellSize - Off(p) - PtrLen /\ Room(p) \in Nat
         /\ Fore(w) = Off(p) /\ P \notin packets /\ p.id \in Nat
<1>1. p \in Claims /\ P = Record(w, p) /\ p = pending[w] /\ p # None /\ Claimed(w, p)
      /\ writeCell[w] \notin T
  BY DEF Storing, ClaimOf
<1>2. /\ P.writer = w /\ P.id = p.id /\ P.flow = p.flow /\ P.pos = p.pos /\ P.len = p.len
      /\ P.indexed = (p.last = None)
  BY <1>1 DEF Record
<1>3. P \in Records /\ p.id \in Nat
  BY <1>1 DEF Record, Records, Claims
<1>4. /\ Off(P) = Off(p) /\ Size(P) = Size(p) /\ Rest(P) = Rest(p) /\ Room(P) = Room(p)
      /\ Whole(P) = Whole(p)
  BY <1>2 DEF Off, Size, Rest, Room, Whole
<1>5. CellOf(p.pos) = writeCell[w] /\ Off(p) + PtrLen <= CellSize
  BY <1>1 DEF Claimed
<1>6. /\ Off(p) \in InCell /\ Off(p) \in Nat /\ Size(p) \in Nat /\ HeadLen < Size(p)
      /\ Size(p) + PtrLen <= CellSize /\ Room(p) = CellSize - Off(p) - PtrLen
      /\ CellOf(p.pos) \in Cells
  BY <1>1, ClaimIs
<1>7. Room(p) \in Nat
  BY <1>5, <1>6, Lengths
<1>8. Fore(w) = Off(p)
  BY <1>1 DEF Fore
<1>9. P \notin packets
  BY <1>1, <1>2, <1>3 DEF Claimed
<1> QED
  BY <1>1, <1>2, <1>3, <1>4, <1>5, <1>6, <1>7, <1>8, <1>9

LEMMA InitType == Init => CellsTypeOK /\ OwnCells /\ Claiming
<1> SUFFICES ASSUME Init PROVE CellsTypeOK /\ OwnCells /\ Claiming
  OBVIOUS
<1>1. Cardinality(Writers) \in Nat /\ Cardinality(Writers) < CellNum
  BY CellAssumption, FS_CardinalityType
<1>2. PICK first \in [Writers -> 0 .. Cardinality(Writers) - 1] :
        /\ \A v, w \in Writers : first[v] = first[w] => v = w
        /\ writeCell = first
  BY DEF Init
<1>3. diskWriteCell \in Cells /\ writeCell \in [Writers -> Cells]
  BY <1>1, <1>2, Lengths DEF Init, Cells
<1>4. OwnCells
  BY <1>2 DEF OwnCells
<1>5. CellsTypeOK
  BY <1>3 DEF Init, CellsTypeOK, Positions, Disks
<1>6. Claiming
  BY Lengths DEF Init, Claiming
<1> QED
  BY <1>4, <1>5, <1>6

LEMMA InitInv == Init => CInv
<1> SUFFICES ASSUME Init PROVE CInv
  OBVIOUS
<1>1. CellsTypeOK /\ OwnCells /\ Claiming
  BY InitType
<1>2. packets = {}
  BY DEF Init
<1>3. InOrder /\ Apart
  BY <1>2 DEF InOrder, Apart
<1>4. Intact /\ Linking
  BY <1>2 DEF Intact, Linking
<1>5. Tables
  BY <1>2 DEF Tables, Latest
<1> QED
  BY <1>1, <1>3, <1>4, <1>5 DEF CInv

LEMMA LinkedType ==
  ASSUME NEW b \in Disks, NEW p \in Claims
  PROVE  Linked(b, p) \in Disks
<1>1. CASE p.last = None
  BY <1>1 DEF Linked
<1>2. CASE p.last # None
  <2>1. p.last \in Positions /\ p.pos \in Positions
    BY <1>2 DEF Claims
  <2>2. CalDiff(p.pos, p.last) \in Nat
    <3>1. p.pos + DiskSize - p.last \in Nat
      BY <2>1, Lengths DEF Positions
    <3> QED
      BY <3>1, DivMod, Lengths DEF CalDiff
  <2>3. Diff(CalDiff(p.pos, p.last)) \in Seq(Bytes)
    BY <2>2, DiffIs
  <2> QED
    BY <1>2, <2>1, <2>3, WriteType DEF Linked
<1> QED
  BY <1>1, <1>2

(* The packets are those that are kept, and the new one unless it is stray. *)
LEMMA NowThere ==
  ASSUME NEW w, NEW p, NEW P, NEW T, NEW b, Storing(w, p, P, T, b)
  PROVE  /\ \A q : q \in packets' <=> q \in Kept(T) \/ (q = P /\ ~p.stray)
         /\ \A q \in Kept(T) : q \in packets /\ CellOf(q.pos) \notin T
         /\ p.stray \in BOOLEAN
  BY DEF Storing, Kept, Claims

(* What remains of a split packet, and the pointer, fit a cell. *)
LEMMA RestFits ==
  ASSUME CellsTypeOK, NEW w \in Writers, NEW p, NEW P, NEW T, NEW b, Storing(w, p, P, T, b),
         T # {}
  PROVE  Rest(p) \in Nat /\ Rest(p) + PtrLen <= CellSize
  BY DEF Storing, GoingOn

LEMMA StoreType ==
  ASSUME CellsTypeOK, NEW w \in Writers, NEW p, NEW P, NEW T, NEW b, Storing(w, p, P, T, b)
  PROVE  CellsTypeOK'
<1>1. diskWriteCell' \in Cells
  BY StoreAges
<1>2. ~p.stray => P \in Records
  BY RecordIs
<1>3. packets' \subseteq Records
  BY <1>2, NowThere DEF CellsTypeOK
<1>4. disk' \in Disks
  BY LinkedType DEF Storing
<1>5. writeCell' \in [Writers -> Cells]
  BY DEF Storing, GoingOn, CellsTypeOK
<1>6. writeOffset' \in [Writers -> Nat]
  <2>1. T # {} => Rest(p) \in Nat
    BY RestFits
  <2> QED
    BY <2>1 DEF Storing, GoingOn, CellsTypeOK
<1>7. pending' \in [Writers -> Claims \cup {None}]
  BY DEF Storing, CellsTypeOK
<1>8. /\ aggMap' \in [Writers -> [Flows -> Positions \cup {None}]] /\ count' \in Nat
      /\ alive' \in BOOLEAN
  BY DEF Storing, CellsTypeOK
<1>9. spoilt' \subseteq Positions
  <2>1. \A x, n : Covered(x, n) \subseteq Positions
    BY DEF Covered, Positions
  <2>2. Spoiling(w, p, Kept(T)) \subseteq Positions
    BY <2>1 DEF Spoiling
  <2> QED
    BY <2>2 DEF Storing, CellsTypeOK
<1>10. strayed' \subseteq Writers \X Flows
  <2>1. <<w, p.flow>> \in Writers \X Flows
    BY DEF Storing, Claims
  <2> QED
    BY <2>1 DEF Storing, CellsTypeOK
<1> QED
  BY <1>1, <1>3, <1>4, <1>5, <1>6, <1>7, <1>8, <1>9, <1>10 DEF CellsTypeOK

(* Where a thread that stores goes on; the others stay where they are. *)
LEMMA Moves ==
  ASSUME CellsTypeOK, NEW w \in Writers, NEW p, NEW P, NEW T, NEW b, Storing(w, p, P, T, b)
  PROVE  /\ \A v \in Writers \ {w} : /\ writeCell'[v] = writeCell[v]
                                    /\ writeOffset'[v] = writeOffset[v]
                                    /\ pending'[v] = pending[v] /\ Fore(v)' = Fore(v)
         /\ pending'[w] = None /\ Fore(w)' = writeOffset'[w]
         /\ \/ /\ T = {} /\ ~p.stray /\ Whole(p) /\ writeCell'[w] = writeCell[w]
               /\ writeOffset'[w] = Off(p) + Size(p)
            \/ /\ T = {diskWriteCell} /\ writeCell'[w] = diskWriteCell
               /\ writeOffset'[w] = Rest(p)
               /\ ~p.stray => ~Whole(p) /\ Continued(w, p, diskWriteCell, b)
<1>1. pending' = [pending EXCEPT ![w] = None] /\ (~p.stray => Claimed(w, p))
  BY DEF Storing, ClaimOf
<1>2. pending \in [Writers -> Claims \cup {None}] /\ writeCell \in [Writers -> Cells]
      /\ writeOffset \in [Writers -> Nat]
  BY DEF CellsTypeOK
<1>3. pending'[w] = None /\ \A v \in Writers \ {w} : pending'[v] = pending[v]
  BY <1>1, <1>2
<1>4. \A v \in Writers \ {w} : writeCell'[v] = writeCell[v] /\ writeOffset'[v] = writeOffset[v]
  BY <1>2 DEF Storing, GoingOn
<1>5. \/ /\ T = {} /\ ~p.stray /\ Whole(p) /\ writeCell'[w] = writeCell[w]
         /\ writeOffset'[w] = Off(p) + Size(p)
      \/ /\ T = {diskWriteCell} /\ writeCell'[w] = diskWriteCell
         /\ writeOffset'[w] = Rest(p)
         /\ ~p.stray => ~Whole(p) /\ Continued(w, p, diskWriteCell, b)
  BY <1>1, <1>2 DEF Storing, GoingOn, Claimed
<1>6. Fore(w)' = writeOffset'[w] /\ \A v \in Writers \ {w} : Fore(v)' = Fore(v)
  BY <1>3, <1>4 DEF Fore
<1> QED
  BY <1>3, <1>4, <1>5, <1>6

LEMMA StoreOwn ==
  ASSUME CellsTypeOK, OwnCells,
         NEW w \in Writers, NEW p, NEW P, NEW T, NEW b, Storing(w, p, P, T, b)
  PROVE  OwnCells'
<1>1. \A v \in Writers : writeCell[v] \notin T
  BY DEF Storing
<1> QED
  BY <1>1, Moves DEF OwnCells

LEMMA StoreClaiming ==
  ASSUME CellsTypeOK, Claiming,
         NEW w \in Writers, NEW p, NEW P, NEW T, NEW b, Storing(w, p, P, T, b)
  PROVE  Claiming'
<1> SUFFICES ASSUME NEW v \in Writers
             PROVE  IF pending'[v] = None
                    THEN writeOffset'[v] + PtrLen <= CellSize \/ writeOffset'[v] > CellSize
                    ELSE ClaimOf(v, pending[v])'
  BY DEF Claiming
<1>1. CASE v = w
  <2>1. pending'[w] = None
    BY Moves
  <2>2. writeOffset'[w] + PtrLen <= CellSize
    <3>1. CASE T = {}
      BY <3>1, Moves DEF Whole
    <3>2. CASE T # {}
      BY <3>2, Moves, RestFits
    <3> QED
      BY <3>1, <3>2
  <2> QED
    BY <1>1, <2>1, <2>2
<1>2. CASE v # w
  <2>1. /\ writeCell'[v] = writeCell[v] /\ writeOffset'[v] = writeOffset[v]
        /\ pending'[v] = pending[v]
    BY <1>2, Moves
  <2>2. /\ aggMap' = aggMap /\ count' = count
        /\ \A q \in packets' : q.writer = v => q \in packets
    <3>1. ~p.stray => P.writer = w
      BY RecordIs
    <3> QED
      BY <1>2, <3>1, NowThere DEF Storing
  <2>3. IF pending[v] = None
        THEN writeOffset[v] + PtrLen <= CellSize \/ writeOffset[v] > CellSize
        ELSE ClaimOf(v, pending[v])
    BY DEF Claiming
  <2>4. pending[v] # None => ClaimOf(v, pending[v])'
    BY <2>1, <2>2, <2>3 DEF ClaimOf, Claimed, Astray
  <2> QED
    BY <2>1, <2>3, <2>4
<1> QED
  BY <1>1, <1>2

LEMMA StoreOrder ==
  ASSUME CellsTypeOK, InOrder,
         NEW w \in Writers, NEW p, NEW P, NEW T, NEW b, Storing(w, p, P, T, b)
  PROVE  InOrder'
<1>1. PICK next \in Cells : next = diskWriteCell' /\ Aging(T, next)
  BY StoreAges
<1>2. /\ \A q \in packets' : q \in Kept(T) \/ (q = P /\ ~p.stray)
      /\ count' = count
      /\ \A v \in Writers : writeCell[v] \in Cells /\ writeCell[v] \notin T
  BY NowThere DEF Storing, CellsTypeOK
<1>3. T \subseteq Cells /\ \A q \in Kept(T) : q \in packets /\ CellOf(q.pos) \in Cells \ T
  BY PacketIs DEF Kept, Storing
<1>4. ~p.stray =>
      /\ P.writer = w /\ CellOf(P.pos) = writeCell[w] /\ P.id = p.id /\ Off(P) + PtrLen <= CellSize
      /\ p.id <= count /\ \A q \in packets : q.writer = w => q.id < p.id
      /\ p.id \in Nat
  <2> SUFFICES ASSUME ~p.stray
               PROVE  /\ P.writer = w /\ CellOf(P.pos) = writeCell[w] /\ P.id = p.id
                      /\ Off(P) + PtrLen <= CellSize /\ p.id <= count /\ p.id \in Nat
                      /\ \A q \in packets : q.writer = w => q.id < p.id
    OBVIOUS
  <2>1. Claimed(w, p)
    BY DEF Storing, ClaimOf
  <2>2. /\ P.writer = w /\ CellOf(P.pos) = writeCell[w] /\ P.id = p.id
        /\ Off(P) = Off(p) /\ p.id \in Nat
    BY RecordIs
  <2> QED
    BY <2>1, <2>2 DEF Claimed
<1>5. writeCell'[w] = writeCell[w] \/ writeCell'[w] \in T
  BY Moves
<1>6. \A v \in Writers \ {w} : writeCell'[v] = writeCell[v]
  BY Moves
<1>7. ASSUME NEW q \in packets'
      PROVE  /\ Off(q) + PtrLen <= CellSize /\ q.id <= count
             /\ AgeBy(next, writeCell'[q.writer]) <= AgeBy(next, CellOf(q.pos))
  <2>1. CASE q = P /\ ~p.stray
    <3>1. AgeBy(next, writeCell[w]) \in Cells
      BY <1>1, <1>2, AgeNext
    <3>2. AgeBy(next, writeCell[w]) <= AgeBy(next, writeCell[w])
      BY <3>1, Lengths DEF Cells
    <3>3. writeCell'[w] \in T => AgeBy(next, writeCell'[w]) <= AgeBy(next, writeCell[w])
      BY <1>1, <1>2, <1>3 DEF Aging
    <3> QED
      BY <1>4, <1>5, <2>1, <3>2, <3>3
  <2>2. CASE q \in Kept(T)
    <3>1. /\ Off(q) + PtrLen <= CellSize /\ q.id <= count
          /\ Age(writeCell[q.writer]) <= Age(CellOf(q.pos)) /\ q.writer \in Writers
      BY <1>3, <2>2, PacketIs DEF InOrder
    <3>2. AgeBy(next, writeCell[q.writer]) <= AgeBy(next, CellOf(q.pos))
      BY <1>1, <1>2, <1>3, <2>2, <3>1 DEF Aging
    <3>3. writeCell'[q.writer] \in T =>
            AgeBy(next, writeCell'[q.writer]) <= AgeBy(next, CellOf(q.pos))
      BY <1>1, <1>3, <2>2 DEF Aging
    <3> QED
      BY <1>5, <1>6, <3>1, <3>2, <3>3
  <2> QED
    BY <1>2, <2>1, <2>2
<1>8. ASSUME NEW q \in packets', NEW r \in packets', q.writer = r.writer
      PROVE  /\ q.id = r.id => q = r
             /\ q.id < r.id => AgeBy(next, CellOf(r.pos)) <= AgeBy(next, CellOf(q.pos))
  <2>1. CASE q = P /\ ~p.stray
    <3>1. r = P \/ r.id < p.id
      BY <1>2, <1>3, <1>4, <1>8, <2>1
    <3>2. r.id \in Nat
      BY <1>2, <1>3, <1>4, PacketIs
    <3> QED
      BY <1>4, <2>1, <3>1, <3>2
  <2>2. CASE q \in Kept(T) /\ r = P /\ ~p.stray
    <3>1. q.id < p.id /\ q.id \in Nat /\ q.writer = w
      BY <1>3, <1>4, <1>8, <2>2, PacketIs
    <3>2. Age(writeCell[w]) <= Age(CellOf(q.pos))
      BY <1>3, <2>2, <3>1 DEF InOrder
    <3>3. AgeBy(next, writeCell[w]) <= AgeBy(next, CellOf(q.pos))
      BY <1>1, <1>2, <1>3, <2>2, <3>2 DEF Aging
    <3> QED
      BY <1>4, <2>2, <3>1, <3>3
  <2>3. CASE q \in Kept(T) /\ r \in Kept(T)
    <3>1. /\ q.id = r.id => q = r
          /\ q.id < r.id => Age(CellOf(r.pos)) <= Age(CellOf(q.pos))
      BY <1>3, <1>8, <2>3 DEF InOrder
    <3>2. Age(CellOf(r.pos)) <= Age(CellOf(q.pos)) =>
            AgeBy(next, CellOf(r.pos)) <= AgeBy(next, CellOf(q.pos))
      BY <1>1, <1>3, <2>3 DEF Aging
    <3> QED
      BY <3>1, <3>2
  <2> QED
    BY <1>2, <2>1, <2>2, <2>3
<1> QED
  BY <1>1, <1>2, <1>7, <1>8 DEF InOrder, Age

LEMMA StoreApart ==
  ASSUME CellsTypeOK, OwnCells, Apart,
         NEW w \in Writers, NEW p, NEW P, NEW T, NEW b, Storing(w, p, P, T, b)
  PROVE  Apart'
<1>1. /\ \A q \in packets' : q \in Kept(T) \/ (q = P /\ ~p.stray)
      /\ writeCell[w] \notin T
      /\ \A q \in Kept(T) : q \in packets /\ CellOf(q.pos) \notin T
  BY NowThere DEF Storing
<1>2. ~p.stray =>
      /\ CellOf(P.pos) = writeCell[w] /\ Off(P) = Off(p) /\ Size(P) = Size(p)
      /\ Whole(P) = Whole(p) /\ Off(p) \in Nat /\ Size(p) \in Nat /\ Fore(w) = Off(p)
  BY RecordIs
<1>3. ~p.stray => \A q \in Kept(T) : CellOf(q.pos) = writeCell[w] => Whole(q) /\ Off(q) + Size(q) <= Off(P)
  BY <1>1, <1>2 DEF Apart
<1>4. ASSUME NEW q \in packets', NEW r \in packets', CellOf(q.pos) = CellOf(r.pos)
      PROVE  \/ q = r
             \/ Whole(q) /\ Off(q) + Size(q) <= Off(r)
             \/ Whole(r) /\ Off(r) + Size(r) <= Off(q)
  <2>1. CASE q \in Kept(T) /\ r \in Kept(T)
    BY <1>1, <1>4, <2>1 DEF Apart
  <2>2. CASE (q = P \/ r = P) /\ ~p.stray
    BY <1>1, <1>2, <1>3, <1>4, <2>2
  <2> QED
    BY <1>1, <2>1, <2>2
<1>5. ASSUME NEW v \in Writers, NEW q \in packets', CellOf(q.pos) = writeCell'[v]
      PROVE  Whole(q) /\ Off(q) + Size(q) <= Fore(v)'
  <2>1. CASE v # w
    <3>1. writeCell'[v] = writeCell[v] /\ Fore(v)' = Fore(v)
      BY <2>1, Moves
    <3>2. q = P => p.stray
      BY <1>2, <1>5, <2>1, <3>1, NowThere DEF OwnCells
    <3> QED
      BY <1>1, <1>5, <3>1, <3>2, NowThere DEF Apart
  <2>2. CASE v = w
    <3>1. Fore(w)' = writeOffset'[w]
      BY Moves
    <3>2. CASE T = {} /\ ~p.stray /\ Whole(p) /\ writeCell'[w] = writeCell[w]
               /\ writeOffset'[w] = Off(p) + Size(p)
      <4>0. Off(P) = Off(p) /\ Size(P) = Size(p) /\ Whole(P) /\ Off(p) \in Nat /\ Size(p) \in Nat
        BY <1>2, <3>2
      <4>1. CASE q = P
        BY <2>2, <3>1, <3>2, <4>0, <4>1
      <4>2. CASE q \in Kept(T)
        <5>1. Whole(q) /\ Off(q) + Size(q) <= Off(P) /\ Off(q) \in Nat /\ Size(q) \in Nat
          BY <1>1, <1>3, <1>5, <2>2, <3>2, <4>2, PacketIs
        <5> QED
          BY <2>2, <3>1, <3>2, <4>0, <5>1
      <4> QED
        BY <1>1, <4>1, <4>2
    <3>3. CASE T = {diskWriteCell} /\ writeCell'[w] = diskWriteCell
      BY <1>1, <1>2, <1>5, <2>2, <3>3
    <3> QED
      BY <3>2, <3>3, Moves
  <2> QED
    BY <2>1, <2>2
<1> QED
  BY <1>4, <1>5 DEF Apart

-----------------------------------------------------------------------------
(* The table and the link *)

(* No two packets are at the same offset. *)
LEMMA OneAt ==
  ASSUME CellsTypeOK, Apart, NEW q \in packets, NEW r \in packets, q.pos = r.pos
  PROVE  q = r
<1>1. CellOf(q.pos) = CellOf(r.pos) /\ Off(q) = Off(r)
  BY DEF Off
<1>2. /\ Off(q) \in Nat /\ Size(q) \in Nat /\ HeadLen < Size(q)
      /\ Off(r) \in Nat /\ Size(r) \in Nat /\ HeadLen < Size(r)
  BY PacketIs
<1>3. \/ q = r
      \/ Whole(q) /\ Off(q) + Size(q) <= Off(r)
      \/ Whole(r) /\ Off(r) + Size(r) <= Off(q)
  BY <1>1 DEF Apart
<1> QED
  BY <1>1, <1>2, <1>3, Lengths

(* Where there is a later packet of a thread, there it stays: it is in a   *)
(* younger cell.                                                           *)
LEMMA LaterKept ==
  ASSUME CellsTypeOK, InOrder,
         NEW w \in Writers, NEW p, NEW P, NEW T, NEW b, Storing(w, p, P, T, b),
         NEW r \in Kept(T), NEW m \in packets, r.writer = m.writer, r.id <= m.id
  PROVE  m \in Kept(T)
<1>1. Aging(T, diskWriteCell') /\ r \in packets /\ CellOf(r.pos) \notin T
  BY StoreAges DEF Kept
<1>2. CellOf(r.pos) \in Cells /\ CellOf(m.pos) \in Cells /\ r.id \in Nat /\ m.id \in Nat
  BY <1>1, PacketIs
<1>3. CASE r.id = m.id
  BY <1>1, <1>3 DEF InOrder
<1>4. CASE r.id < m.id
  <2>1. Age(CellOf(m.pos)) <= Age(CellOf(r.pos))
    BY <1>1, <1>4 DEF InOrder
  <2>2. CellOf(m.pos) \notin T
    BY <1>1, <1>2, <2>1 DEF Aging
  <2> QED
    BY <2>2 DEF Kept
<1> QED
  BY <1>2, <1>3, <1>4

(* The packet that the link is written to. *)
Target(w, p, T, m) ==
  /\ p.last # None /\ m \in Kept(T) /\ m \in packets
  /\ m.writer = w /\ m.flow = p.flow /\ m.pos = p.last

LEMMA TargetIs ==
  ASSUME NEW w, NEW p, NEW T, p.last # None, Present(w, p, Kept(T))
  PROVE  \E m : Target(w, p, T, m)
<1>1. PICK m \in Kept(T) : m.pos = p.last /\ m.writer = w /\ m.flow = p.flow
  BY DEF Present
<1> QED
  BY <1>1 DEF Target, Kept

LEMMA LatestKept ==
  ASSUME CellsTypeOK, InOrder,
         NEW w \in Writers, NEW p, NEW P, NEW T, NEW b, Storing(w, p, P, T, b),
         NEW v \in Writers, NEW f \in Flows, NEW pos, Latest(v, f, pos),
         v # w \/ f # p.flow
  PROVE  \A r \in packets' : r.writer = v /\ r.flow = f =>
           \E m \in packets' : m.writer = v /\ m.flow = f /\ m.pos = pos /\ r.id <= m.id
<1>1. \A q : q \in packets' <=> q \in Kept(T) \/ (q = P /\ ~p.stray)
  BY NowThere
<1>2. ~p.stray => P.writer = w /\ P.flow = p.flow
  BY RecordIs
<1> SUFFICES ASSUME NEW r \in packets', r.writer = v, r.flow = f
             PROVE  \E m \in packets' : m.writer = v /\ m.flow = f /\ m.pos = pos /\ r.id <= m.id
  OBVIOUS
<1>3. r \in Kept(T) /\ r \in packets
  BY <1>1, <1>2 DEF Kept
<1>4. PICK m \in packets : m.writer = v /\ m.flow = f /\ m.pos = pos /\ r.id <= m.id
  BY <1>3 DEF Latest
<1>5. m \in Kept(T)
  BY <1>3, <1>4, LaterKept
<1> QED
  BY <1>1, <1>4, <1>5

LEMMA StoreTables ==
  ASSUME CInv, NEW w \in Writers, NEW p, NEW P, NEW T, NEW b, Storing(w, p, P, T, b)
  PROVE  Tables'
<1>1. /\ CellsTypeOK /\ InOrder /\ Tables /\ p = pending[w] /\ p # None
      /\ aggMap' = aggMap /\ (~p.stray => Claimed(w, p)) /\ p.stray \in BOOLEAN
      /\ \A q : q \in packets' <=> q \in Kept(T) \/ (q = P /\ ~p.stray)
      /\ strayed \subseteq strayed' /\ (p.stray => <<w, p.flow>> \in strayed')
  BY NowThere DEF CInv, Storing, ClaimOf
<1>2. ~p.stray =>
      /\ P.writer = w /\ P.flow = p.flow /\ P.pos = p.pos /\ P.id = p.id /\ p.id \in Nat
  BY <1>1, RecordIs
<1> SUFFICES ASSUME NEW v \in Writers, NEW f \in Flows, <<v, f>> \notin strayed'
             PROVE  IF pending'[v] # None /\ pending'[v].flow = f
                    THEN pending'[v].last = None \/ Latest(v, f, pending[v].last)'
                    ELSE Latest(v, f, aggMap[v][f])'
  BY DEF Tables
<1>6. <<v, f>> \notin strayed
  BY <1>1
<1>3. CASE v = w /\ f = p.flow
  <2>0. ~p.stray
    BY <1>1, <1>3
  <2>1. pending'[w] = None
    BY <1>1, Moves
  <2>2. aggMap'[w][f] = P.pos
    BY <1>1, <1>2, <1>3, <2>0 DEF Claimed
  <2>3. \A r \in packets' : r.writer = w => r.id <= P.id
    <3> SUFFICES ASSUME NEW r \in packets', r.writer = w PROVE r.id <= P.id
      OBVIOUS
    <3>1. r = P \/ (r \in packets /\ r.id < p.id)
      BY <1>1, <2>0 DEF Kept, Claimed
    <3>2. r = P \/ r.id \in Nat
      BY <1>1, <3>1, PacketIs
    <3> QED
      BY <1>2, <2>0, <3>1, <3>2
  <2>4. Latest(w, f, aggMap[w][f])'
    BY <1>1, <1>2, <1>3, <2>0, <2>2, <2>3 DEF Latest
  <2> QED
    BY <1>3, <2>1, <2>4
<1>4. CASE v # w
  <2>1. pending'[v] = pending[v]
    BY <1>1, <1>4, Moves
  <2>2. CASE pending[v] # None /\ pending[v].flow = f
    <3>1. pending[v].last = None \/ Latest(v, f, pending[v].last)
      BY <1>1, <1>6, <2>2 DEF Tables
    <3>2. Latest(v, f, pending[v].last) => Latest(v, f, pending[v].last)'
      BY <1>1, <1>4, <2>1, LatestKept DEF Latest
    <3> QED
      BY <2>1, <2>2, <3>1, <3>2
  <2>3. CASE ~(pending[v] # None /\ pending[v].flow = f)
    <3>1. Latest(v, f, aggMap[v][f])
      BY <1>1, <1>6, <2>3 DEF Tables
    <3>2. Latest(v, f, aggMap[v][f])'
      <4>1. \A r \in packets' : r.writer = v /\ r.flow = f =>
              \E m \in packets' : /\ m.writer = v /\ m.flow = f /\ m.pos = aggMap[v][f]
                                 /\ r.id <= m.id
        BY <1>1, <1>4, <3>1, LatestKept
      <4> QED
        BY <1>1, <4>1 DEF Latest
    <3> QED
      BY <2>1, <2>3, <3>2
  <2> QED
    BY <2>2, <2>3
<1>5. CASE v = w /\ f # p.flow
  <2>1. pending'[w] = None
    BY <1>1, Moves
  <2>2. Latest(w, f, aggMap[w][f])
    BY <1>1, <1>5, <1>6 DEF Tables
  <2>3. Latest(w, f, aggMap[w][f])'
    <3>1. f # p.flow
      BY <1>5
    <3>2. \A r \in packets' : r.writer = w /\ r.flow = f =>
            \E m \in packets' : /\ m.writer = w /\ m.flow = f /\ m.pos = aggMap[w][f]
                               /\ r.id <= m.id
      BY <1>1, <2>2, <3>1, LatestKept
    <3> QED
      BY <1>1, <3>2 DEF Latest
  <2> QED
    BY <1>5, <2>1, <2>3
<1> QED
  BY <1>3, <1>4, <1>5

(* The link is all that is written besides the packet. *)
LEMMA LinkIs ==
  ASSUME CInv, NEW w \in Writers, NEW p, NEW P, NEW T, NEW b, Storing(w, p, P, T, b),
         NEW m, Target(w, p, T, m)
  PROVE  /\ Spot(disk', CellOf(m.pos), Off(m)) = Byte("link", CalDiff(p.pos, m.pos), 1)
         /\ \A d \in Cells, y \in InCell :
              \/ Spot(disk', d, y) = Spot(b, d, y)
              \/ d = CellOf(m.pos) /\ Off(m) <= y /\ y < Off(m) + LinkLen
<1>1. CellsTypeOK /\ InOrder /\ b \in Disks /\ p \in Claims /\ disk' = Linked(b, p)
  BY DEF CInv, Storing
<1>2. m \in packets /\ m.pos = p.last /\ p.last # None
  BY DEF Target
<1>3. /\ m.pos \in Positions /\ CellOf(m.pos) \in Cells /\ Off(m) \in InCell /\ Off(m) \in Nat
      /\ m.pos = CellOf(m.pos) * CellSize + Off(m) /\ Off(m) + PtrLen <= CellSize
  BY <1>1, <1>2, PacketIs DEF InOrder
<1> DEFINE d0 == CalDiff(p.pos, m.pos)
<1>4. d0 \in Nat
  <2>1. p.pos + DiskSize - m.pos \in Nat
    BY <1>1, <1>3, Lengths DEF Positions, Claims
  <2> QED
    BY <2>1, DivMod, Lengths DEF CalDiff
<1>5. disk' = WriteAt(b, CellOf(m.pos) * CellSize + Off(m), Diff(d0))
  BY <1>1, <1>2, <1>3 DEF Linked
<1> HIDE DEF d0
<1>6. Diff(d0) \in Seq(Bytes) /\ Len(Diff(d0)) = LinkLen /\ Diff(d0)[1] = Byte("link", d0, 1)
  BY <1>4, DiffIs
<1>7. Off(m) + Len(Diff(d0)) <= CellSize
  BY <1>3, <1>6, Lengths
<1>8. \A d \in Cells, y \in InCell :
        Spot(disk', d, y) = IF d = CellOf(m.pos) /\ Off(m) <= y /\ y < Off(m) + Len(Diff(d0))
                            THEN Diff(d0)[y - Off(m) + 1] ELSE Spot(b, d, y)
  BY <1>1, <1>3, <1>5, <1>6, <1>7, WriteInCell
<1>9. Spot(disk', CellOf(m.pos), Off(m)) = Byte("link", d0, 1)
  <2>1. Off(m) < Off(m) + Len(Diff(d0)) /\ Off(m) - Off(m) + 1 = 1
    BY <1>3, <1>6, Lengths
  <2> QED
    BY <1>3, <1>6, <1>8, <2>1
<1> QED
  BY <1>6, <1>8, <1>9 DEF d0

LEMMA LinkFrame ==
  ASSUME CInv, NEW w \in Writers, NEW p, NEW P, NEW T, NEW b, Storing(w, p, P, T, b),
         NEW d \in Cells, NEW y \in InCell
  PROVE  \/ Spot(disk', d, y) = Spot(b, d, y)
         \/ Bad(d, y)'
         \/ \E m : /\ Target(w, p, T, m)
                   /\ d = CellOf(m.pos) /\ Off(m) <= y /\ y < Off(m) + LinkLen
<1>1. CASE p.last = None
  BY <1>1 DEF Storing, Linked
<1>2. CASE p.last # None /\ Present(w, p, Kept(T))
  BY <1>2, TargetIs, LinkIs
<1>3. CASE p.last # None /\ ~Present(w, p, Kept(T))
  <2>1. b \in Disks /\ p \in Claims /\ disk' = Linked(b, p)
        /\ Spoiling(w, p, Kept(T)) \subseteq spoilt'
    BY DEF Storing
  <2>2. p.last \in Positions /\ p.pos \in Positions
    BY <1>3, <2>1 DEF Claims
  <2> DEFINE e == CalDiff(p.pos, p.last)
             x == d * CellSize + y
  <2>3. e \in Nat
    <3>1. p.pos + DiskSize - p.last \in Nat
      BY <2>2, Lengths DEF Positions
    <3> QED
      BY <3>1, DivMod, Lengths DEF CalDiff
  <2>4. disk' = WriteAt(b, p.last, Diff(e))
    BY <1>3, <2>1 DEF Linked
  <2> HIDE DEF e
  <2>5. Diff(e) \in Seq(Bytes) /\ Len(Diff(e)) = LinkLen
    BY <2>3, DiffIs
  <2>6. x \in Positions
    BY PlaceIs
  <2>7. Covered(p.last, LinkLen) \subseteq spoilt'
    BY <1>3, <2>1 DEF Spoiling
  <2>8. CASE x \in Covered(p.last, LinkLen)
    BY <2>7, <2>8 DEF Bad
  <2>9. CASE x \notin Covered(p.last, LinkLen)
    <3> HIDE DEF x
    <3>1. disk'[x] = b[x]
      BY <2>1, <2>2, <2>4, <2>5, <2>6, <2>9, WriteCovers
    <3> QED
      BY <3>1 DEF Spot, x
  <2> QED
    BY <2>8, <2>9
<1> QED
  BY <1>1, <1>2, <1>3
-----------------------------------------------------------------------------
(* What stays as it is when a packet is stored *)

(* The bytes of another packet in its own cell. *)
LEMMA KeepsFirst ==
  ASSUME CInv, NEW w \in Writers, NEW p, NEW P, NEW T, NEW b, Storing(w, p, P, T, b),
         NEW r \in Kept(T), NEW y \in InCell, Off(r) <= y, y < Off(r) + Size(r),
         Off(r) + LinkLen <= y \/ r.pos # p.last, ~Bad(CellOf(r.pos), y)'
  PROVE  Spot(disk', CellOf(r.pos), y) = Held(CellOf(r.pos), y)
<1>1. CellsTypeOK /\ Apart /\ r \in packets /\ CellOf(r.pos) \notin T /\ Frame(w, p, T, b)
  BY DEF CInv, Kept, Storing
<1>2. /\ CellOf(r.pos) \in Cells /\ Off(r) \in Nat /\ Size(r) \in Nat /\ y \in Nat
      /\ (~p.stray => Off(p) \in Nat /\ Fore(w) = Off(p))
  BY <1>1, PacketIs, RecordIs, Lengths DEF InCell
<1>3. Spot(b, CellOf(r.pos), y) = Held(CellOf(r.pos), y)
  <2>1. CellOf(r.pos) = writeCell[w] /\ ~p.stray => y < Off(p)
    <3>1. CellOf(r.pos) = writeCell[w] /\ ~p.stray => Off(r) + Size(r) <= Off(p)
      BY <1>1, <1>2 DEF Apart
    <3> QED
      BY <1>2, <3>1
  <2> QED
    BY <1>1, <1>2, <2>1 DEF Frame
<1>4. ASSUME NEW m, Target(w, p, T, m), CellOf(r.pos) = CellOf(m.pos),
             Off(m) <= y, y < Off(m) + LinkLen
      PROVE  FALSE
  <2>1. m \in packets /\ m.pos = p.last
    BY <1>4 DEF Target
  <2>2. Off(m) \in Nat /\ Size(m) \in Nat /\ HeadLen < Size(m)
    BY <1>1, <2>1, PacketIs
  <2>3. m # r
    BY <1>2, <1>4, <2>1, <2>2, Lengths
  <2>4. \/ Off(m) + Size(m) <= Off(r)
        \/ Off(r) + Size(r) <= Off(m)
    BY <1>1, <1>4, <2>1, <2>3 DEF Apart
  <2> QED
    BY <1>2, <1>4, <2>2, <2>4, Lengths
<1> QED
  BY <1>2, <1>3, <1>4, LinkFrame

(* The pointer of another packet's cell. *)
LEMMA KeepsPointer ==
  ASSUME CInv, NEW w \in Writers, NEW p, NEW P, NEW T, NEW b, Storing(w, p, P, T, b),
         NEW r \in Kept(T), ~Whole(r), RoomForLinks(CellOf(r.pos)),
         ~Bad(CellOf(r.pos), CellSize - PtrLen)'
  PROVE  Spot(disk', CellOf(r.pos), CellSize - PtrLen) = Held(CellOf(r.pos), CellSize - PtrLen)
<1>1. CellsTypeOK /\ Apart /\ r \in packets /\ CellOf(r.pos) \notin T /\ Frame(w, p, T, b)
  BY DEF CInv, Kept, Storing
<1>2. CellOf(r.pos) \in Cells /\ CellSize - PtrLen \in InCell
  BY <1>1, PacketIs, Lengths DEF InCell
<1>3. CellOf(r.pos) # writeCell[w]
  BY <1>1 DEF Apart
<1>4. Spot(b, CellOf(r.pos), CellSize - PtrLen) = Held(CellOf(r.pos), CellSize - PtrLen)
  BY <1>1, <1>2, <1>3 DEF Frame
<1>5. ASSUME NEW m, Target(w, p, T, m), CellOf(r.pos) = CellOf(m.pos),
             CellSize - PtrLen < Off(m) + LinkLen
      PROVE  FALSE
  <2>1. m \in packets
    BY <1>5 DEF Target
  <2>2. Off(m) + LinkLen + PtrLen <= CellSize
    BY <1>5, <2>1 DEF RoomForLinks, Off
  <2>3. Off(m) \in Nat
    BY <1>1, <2>1, PacketIs
  <2> QED
    BY <1>5, <2>2, <2>3, Lengths
<1> QED
  BY <1>2, <1>4, <1>5, LinkFrame

(* What remains of another packet. *)
LEMMA KeepsRest ==
  ASSUME CInv, NEW w \in Writers, NEW p, NEW P, NEW T, NEW b, Storing(w, p, P, T, b),
         NEW r \in Kept(T), NEW c \in Cells, GoesOn(r, c), NEW y \in InCell, y < Rest(r),
         Rest(r) \in Int
  PROVE  c \notin T /\ (Spot(disk', c, y) = Held(c, y) \/ Bad(c, y)')
<1>1. CellsTypeOK /\ Apart /\ r \in packets /\ CellOf(r.pos) \notin T /\ Frame(w, p, T, b)
  BY DEF CInv, Kept, Storing
<1>2. CellOf(r.pos) \in Cells /\ Aging(T, diskWriteCell') /\ y \in Nat
      /\ (~p.stray => Off(p) \in Nat /\ Fore(w) = Off(p))
  BY <1>1, PacketIs, RecordIs, StoreAges, Lengths DEF InCell
<1>3. c \notin T
  <2>1. Age(c) <= Age(CellOf(r.pos))
    <3>1. Age(c) \in Int /\ Age(CellOf(r.pos)) \in Int
      <4>1. diskWriteCell \in Cells
        BY <1>1 DEF CellsTypeOK
      <4>2. AgeBy(diskWriteCell, c) \in Cells /\ AgeBy(diskWriteCell, CellOf(r.pos)) \in Cells
        BY <1>2, <4>1, AgeNext
      <4> QED
        BY <4>2, Lengths DEF Age, Cells
    <3> QED
      BY <3>1 DEF GoesOn
  <2> QED
    BY <1>1, <1>2, <2>1 DEF Aging
<1>4. Spot(b, c, y) = Held(c, y) \/ Bad(c, y)'
  <2>1. writeCell[w] = c /\ ~p.stray => Rest(r) <= Off(p)
    BY <1>2 DEF GoesOn
  <2>2. c # writeCell[w] \/ p.stray \/ y < Off(p)
    BY <1>2, <2>1
  <2> QED
    BY <1>1, <1>3, <2>2 DEF Frame
<1>5. ASSUME NEW m, Target(w, p, T, m), c = CellOf(m.pos), Off(m) <= y
      PROVE  FALSE
  <2>1. m \in packets
    BY <1>5 DEF Target
  <2>2. Rest(r) <= Off(m) /\ Off(m) \in Nat
    BY <1>1, <1>5, <2>1, PacketIs DEF GoesOn
  <2> QED
    BY <1>2, <1>5, <2>2
<1> QED
  BY <1>3, <1>4, <1>5, LinkFrame

(* The new packet. *)
LEMMA KeepsNew ==
  ASSUME CInv, NEW w \in Writers, NEW p, NEW P, NEW T, NEW b, Storing(w, p, P, T, b),
         ~p.stray,
         NEW d \in Cells, NEW y \in InCell, d \in T \/ (d = writeCell[w] /\ Off(p) <= y),
         ~Bad(d, y)'
  PROVE  Spot(disk', d, y) = Spot(b, d, y)
<1>1. CellsTypeOK /\ Apart
  BY DEF CInv
<1>2. Off(p) \in Nat /\ Fore(w) = Off(p) /\ y \in Nat
  BY <1>1, RecordIs, Lengths DEF InCell
<1>3. ASSUME NEW m, Target(w, p, T, m), d = CellOf(m.pos), Off(m) <= y, y < Off(m) + LinkLen
      PROVE  FALSE
  <2>1. m \in packets /\ CellOf(m.pos) \notin T
    BY <1>3 DEF Target, Kept
  <2>2. Off(m) + Size(m) <= Off(p)
    BY <1>1, <1>2, <1>3, <2>1 DEF Apart
  <2>3. Off(m) \in Nat /\ Size(m) \in Nat /\ HeadLen < Size(m)
    BY <1>1, <2>1, PacketIs
  <2> QED
    BY <1>2, <1>3, <2>1, <2>2, <2>3, Lengths
<1> QED
  BY <1>3, LinkFrame

-----------------------------------------------------------------------------
(* The bytes after a packet is stored *)

LEMMA RoomBefore ==
  ASSUME NEW w, NEW p, NEW P, NEW T, NEW b, Storing(w, p, P, T, b),
         NEW c, c \notin T, RoomForLinks(c)'
  PROVE  RoomForLinks(c)
<1>1. \A q \in packets : CellOf(q.pos) = c => q \in packets'
  BY DEF Storing, Kept
<1> QED
  BY <1>1 DEF RoomForLinks

LEMMA SplitIs ==
  ASSUME CellsTypeOK, NEW r \in packets, Off(r) + PtrLen <= CellSize
  PROVE  /\ Room(r) \in Nat /\ Size(r) = Room(r) + Rest(r) /\ Rest(r) \in Int
         /\ Whole(r) <=> Size(r) <= Room(r)
         /\ Rest(r) <= CellSize
<1>1. /\ Off(r) \in Nat /\ Size(r) \in Nat /\ Size(r) + PtrLen <= CellSize
      /\ Room(r) = CellSize - Off(r) - PtrLen
  BY PacketIs
<1> QED
  BY <1>1, Lengths DEF Rest, Whole

(* Where a split packet went on there is still room for what remains. *)
LEMMA StoreGoesOn ==
  ASSUME CInv, NEW w \in Writers, NEW p, NEW P, NEW T, NEW b, Storing(w, p, P, T, b),
         NEW r \in Kept(T), NEW c \in Cells, GoesOn(r, c), c \notin T, Rest(r) \in Int
  PROVE  GoesOn(r, c)'
<1>1. /\ CellsTypeOK /\ CellOf(r.pos) \notin T /\ r \in packets
      /\ \A q \in packets' : q \in Kept(T) \/ (q = P /\ ~p.stray)
  BY NowThere DEF CInv
<1>2. PICK next \in Cells : next = diskWriteCell' /\ Aging(T, next)
  BY <1>1, StoreAges
<1>7. CellOf(r.pos) \in Cells
  BY <1>1, PacketIs
<1>3. ~p.stray =>
      /\ CellOf(r.pos) \in Cells /\ Off(P) = Off(p) /\ Fore(w) = Off(p) /\ Off(p) \in Nat
      /\ Size(p) \in Nat /\ CellOf(P.pos) = writeCell[w]
  BY <1>1, PacketIs, RecordIs
<1>4. AgeBy(next, c) < AgeBy(next, CellOf(r.pos))
  BY <1>1, <1>2, <1>7 DEF GoesOn, Aging
<1>5. ASSUME NEW q \in packets', CellOf(q.pos) = c PROVE Rest(r) <= Off(q)
  <2>1. CASE q \in Kept(T)
    BY <1>5, <2>1 DEF GoesOn, Kept
  <2>2. CASE q = P /\ ~p.stray
    BY <1>3, <1>5, <2>2 DEF GoesOn
  <2> QED
    BY <1>1, <2>1, <2>2
<1>6. ASSUME NEW v \in Writers, writeCell'[v] = c PROVE Rest(r) <= Fore(v)'
  <2>1. CASE v # w
    <3>1. writeCell'[v] = writeCell[v] /\ Fore(v)' = Fore(v)
      BY <1>1, <2>1, Moves
    <3> QED
      BY <1>6, <3>1 DEF GoesOn
  <2>2. CASE v = w
    <3>1. Fore(w)' = writeOffset'[w]
      BY <1>1, Moves
    <3>2. CASE ~p.stray /\ writeCell'[w] = writeCell[w] /\ writeOffset'[w] = Off(p) + Size(p)
      <4>1. Rest(r) <= Off(p)
        BY <1>3, <1>6, <2>2, <3>2 DEF GoesOn
      <4> QED
        BY <1>3, <2>2, <3>1, <3>2, <4>1
    <3>3. CASE T = {diskWriteCell} /\ writeCell'[w] = diskWriteCell
      BY <1>6, <2>2, <3>3
    <3> QED
      BY <1>1, <3>2, <3>3, Moves
  <2> QED
    BY <2>1, <2>2
<1> QED
  BY <1>2, <1>4, <1>5, <1>6 DEF GoesOn, Age

(* What is spoilt in a cell stays so until the cell is taken. *)
LEMMA BadStays ==
  ASSUME NEW w, NEW p, NEW P, NEW T, NEW b, Storing(w, p, P, T, b),
         NEW c \in Cells, NEW x \in InCell, c \notin T, Bad(c, x)
  PROVE  Bad(c, x)'
<1>1. CellOf(c * CellSize + x) = c
  BY PlaceIs
<1> QED
  BY <1>1 DEF Storing, Bad

(* A packet that was there is still intact. *)
LEMMA OldIntact ==
  ASSUME CInv, NEW w \in Writers, NEW p, NEW P, NEW T, NEW b, Storing(w, p, P, T, b),
         NEW r \in Kept(T), RoomForLinks(CellOf(r.pos))'
  PROVE  /\ \A i \in LinkLen + 1 .. Size(r) :
              i <= Room(r) /\ ~Bad(CellOf(r.pos), Off(r) + i - 1)' =>
                IsOf(Spot(disk', CellOf(r.pos), Off(r) + i - 1), r, i)
         /\ Whole(r) \/ \E c \in Cells :
              /\ GoesOn(r, c)'
              /\ ~Bad(CellOf(r.pos), CellSize - PtrLen)' =>
                   Spot(disk', CellOf(r.pos), CellSize - PtrLen) = Byte("cell", c, 1)
              /\ \A i \in LinkLen + 1 .. Size(r) :
                   i > Room(r) /\ ~Bad(c, i - Room(r) - 1)' =>
                     IsOf(Spot(disk', c, i - Room(r) - 1), r, i)
<1>1. /\ CellsTypeOK /\ InOrder /\ Intact /\ r \in packets /\ CellOf(r.pos) \notin T
      /\ CellOf(r.pos) \in Cells
  <2>1. /\ CellsTypeOK /\ InOrder /\ Intact /\ r \in packets /\ CellOf(r.pos) \notin T
    BY DEF CInv, Kept, Storing
  <2> QED
    BY <2>1, PacketIs
<1>2. RoomForLinks(CellOf(r.pos))
  BY <1>1, RoomBefore
<1>3. /\ Room(r) \in Nat /\ Size(r) = Room(r) + Rest(r) /\ Rest(r) \in Int /\ Rest(r) <= CellSize
      /\ Whole(r) <=> Size(r) <= Room(r)
      /\ Off(r) \in Nat /\ Size(r) \in Nat /\ Room(r) = CellSize - Off(r) - PtrLen
  BY <1>1, SplitIs, PacketIs DEF InOrder
<1>4. ASSUME NEW i \in LinkLen + 1 .. Size(r), i <= Room(r), ~Bad(CellOf(r.pos), Off(r) + i - 1)'
      PROVE  IsOf(Spot(disk', CellOf(r.pos), Off(r) + i - 1), r, i)
  <2> DEFINE y == Off(r) + i - 1
  <2>1. y \in InCell /\ Off(r) <= y /\ y < Off(r) + Size(r) /\ Off(r) + LinkLen <= y
    BY <1>3, <1>4, Lengths DEF InCell
  <2>2. ~Bad(CellOf(r.pos), y) => IsOf(Held(CellOf(r.pos), y), r, i)
    BY <1>1, <1>2, <1>4 DEF Intact
  <2>4. ~Bad(CellOf(r.pos), y)'
    BY <1>4
  <2> HIDE DEF y
  <2>5. ~Bad(CellOf(r.pos), y)
    BY <1>1, <2>1, <2>4, BadStays
  <2>3. Spot(disk', CellOf(r.pos), y) = Held(CellOf(r.pos), y)
    BY <2>1, <2>4, KeepsFirst
  <2> QED
    BY <2>2, <2>3, <2>5 DEF y
<1>5. ASSUME ~Whole(r)
      PROVE  \E c \in Cells :
              /\ GoesOn(r, c)'
              /\ ~Bad(CellOf(r.pos), CellSize - PtrLen)' =>
                   Spot(disk', CellOf(r.pos), CellSize - PtrLen) = Byte("cell", c, 1)
              /\ \A i \in LinkLen + 1 .. Size(r) :
                   i > Room(r) /\ ~Bad(c, i - Room(r) - 1)' =>
                     IsOf(Spot(disk', c, i - Room(r) - 1), r, i)
  <2>1. PICK c \in Cells :
          /\ GoesOn(r, c)
          /\ ~Bad(CellOf(r.pos), CellSize - PtrLen) =>
               Held(CellOf(r.pos), CellSize - PtrLen) = Byte("cell", c, 1)
          /\ \A i \in LinkLen + 1 .. Size(r) :
               i > Room(r) /\ ~Bad(c, i - Room(r) - 1) => IsOf(Held(c, i - Room(r) - 1), r, i)
    BY <1>1, <1>2, <1>5 DEF Intact
  <2>2. ASSUME ~Bad(CellOf(r.pos), CellSize - PtrLen)'
        PROVE  Spot(disk', CellOf(r.pos), CellSize - PtrLen) = Byte("cell", c, 1)
    <3>1. CellSize - PtrLen \in InCell
      BY Lengths DEF InCell
    <3>2. ~Bad(CellOf(r.pos), CellSize - PtrLen)
      BY <1>1, <2>2, <3>1, BadStays
    <3> QED
      BY <1>2, <1>5, <2>1, <2>2, <3>2, KeepsPointer
  <2>3. ASSUME NEW y \in InCell, y < Rest(r)
        PROVE  c \notin T /\ (Spot(disk', c, y) = Held(c, y) \/ Bad(c, y)')
    BY <1>3, <2>1, <2>3, KeepsRest
  <2>4. ASSUME NEW i \in LinkLen + 1 .. Size(r), i > Room(r), ~Bad(c, i - Room(r) - 1)'
        PROVE  IsOf(Spot(disk', c, i - Room(r) - 1), r, i)
    <3> DEFINE y == i - Room(r) - 1
    <3>1. y \in InCell /\ y < Rest(r)
      BY <1>3, <2>4, Lengths DEF InCell
    <3>2. ~Bad(c, y) => IsOf(Held(c, y), r, i)
      BY <2>1, <2>4
    <3>4. ~Bad(c, y)'
      BY <2>4
    <3> HIDE DEF y
    <3>5. ~Bad(c, y)
      BY <2>3, <3>1, <3>4, BadStays
    <3>3. IsOf(Spot(disk', c, y), r, i)
      BY <2>3, <3>1, <3>2, <3>4, <3>5
    <3> QED
      BY <3>3 DEF y
  <2>5. c \notin T
    <3>1. 0 \in InCell /\ 0 < Rest(r)
      BY <1>3, <1>5, Lengths DEF InCell
    <3> QED
      BY <2>3, <3>1
  <2>6. GoesOn(r, c)'
    BY <1>3, <2>1, <2>5, StoreGoesOn
  <2> QED
    BY <2>2, <2>4, <2>6
<1> QED
  BY <1>4, <1>5

(* The new one is intact. *)
LEMMA NewIntact ==
  ASSUME CInv, NEW w \in Writers, NEW p, NEW P, NEW T, NEW b, Storing(w, p, P, T, b), ~p.stray
  PROVE  /\ \A i \in LinkLen + 1 .. Size(P) :
              i <= Room(P) /\ ~Bad(CellOf(P.pos), Off(P) + i - 1)' =>
                IsOf(Spot(disk', CellOf(P.pos), Off(P) + i - 1), P, i)
         /\ Whole(P) \/ \E c \in Cells :
              /\ GoesOn(P, c)'
              /\ ~Bad(CellOf(P.pos), CellSize - PtrLen)' =>
                   Spot(disk', CellOf(P.pos), CellSize - PtrLen) = Byte("cell", c, 1)
              /\ \A i \in LinkLen + 1 .. Size(P) :
                   i > Room(P) /\ ~Bad(c, i - Room(P) - 1)' =>
                     IsOf(Spot(disk', c, i - Room(P) - 1), P, i)
<1>1. CellsTypeOK /\ Placed(w, p, b) /\ packets' = Kept(T) \cup {P}
      /\ \A v \in Writers : writeCell[v] \notin T
  BY DEF CInv, Storing
<1>2. /\ P.writer = w /\ P.id = p.id
      /\ Off(P) = Off(p) /\ Size(P) = Size(p) /\ Rest(P) = Rest(p) /\ Room(P) = Room(p)
      /\ Whole(P) = Whole(p)
      /\ CellOf(P.pos) = writeCell[w] /\ writeCell[w] \in Cells /\ writeCell[w] \notin T
      /\ Off(p) \in Nat /\ Size(p) \in Nat /\ Size(p) + PtrLen <= CellSize
      /\ Off(p) + PtrLen <= CellSize /\ Room(p) = CellSize - Off(p) - PtrLen /\ Room(p) \in Nat
  BY <1>1, RecordIs
<1>3. \A x, i : IsOf(x, p, i) => IsOf(x, P, i)
  BY <1>2 DEF IsOf
<1>4. ASSUME NEW i \in LinkLen + 1 .. Size(P), i <= Room(P), ~Bad(CellOf(P.pos), Off(P) + i - 1)'
      PROVE  IsOf(Spot(disk', CellOf(P.pos), Off(P) + i - 1), P, i)
  <2> DEFINE y == Off(p) + i - 1
  <2>1. y \in InCell /\ Off(p) <= y /\ i \in 1 .. Size(p)
    BY <1>2, <1>4, Lengths DEF InCell
  <2>2. IsOf(Spot(b, writeCell[w], y), p, i)
    BY <1>1, <1>2, <1>4, <2>1 DEF Placed
  <2>5. ~Bad(CellOf(P.pos), y)'
    BY <1>2, <1>4
  <2> HIDE DEF y
  <2>6. CellOf(P.pos) \in Cells /\ CellOf(P.pos) = writeCell[w]
    BY <1>2
  <2>7. Spot(disk', CellOf(P.pos), y) = Spot(b, CellOf(P.pos), y)
    BY <2>1, <2>5, <2>6, KeepsNew
  <2>3. Spot(disk', writeCell[w], y) = Spot(b, writeCell[w], y)
    BY <2>6, <2>7
  <2>4. IsOf(Spot(disk', writeCell[w], y), P, i)
    BY <1>3, <2>2, <2>3
  <2> QED
    BY <1>2, <2>4 DEF y
<1>5. ASSUME ~Whole(P)
      PROVE  \E c \in Cells :
              /\ GoesOn(P, c)'
              /\ ~Bad(CellOf(P.pos), CellSize - PtrLen)' =>
                   Spot(disk', CellOf(P.pos), CellSize - PtrLen) = Byte("cell", c, 1)
              /\ \A i \in LinkLen + 1 .. Size(P) :
                   i > Room(P) /\ ~Bad(c, i - Room(P) - 1)' =>
                     IsOf(Spot(disk', c, i - Room(P) - 1), P, i)
  <2>1. PICK c \in Cells : c = diskWriteCell
    BY <1>1 DEF CellsTypeOK
  <2>2. /\ T = {c} /\ writeCell'[w] = c /\ writeOffset'[w] = Rest(p) /\ Fore(w)' = writeOffset'[w]
        /\ Continued(w, p, c, b)
        /\ \A v \in Writers \ {w} : writeCell'[v] = writeCell[v]
    BY <1>1, <1>2, <1>5, <2>1, Moves
  <2>3. Rest(p) \in Nat /\ Rest(p) + PtrLen <= CellSize
    BY <1>1, <2>2, RestFits
  <2>4. GoesOn(P, c)'
    <3>1. PICK next \in Cells : next = diskWriteCell' /\ Aging(T, next)
      BY <1>1, StoreAges
    <3>2. AgeBy(next, c) < AgeBy(next, CellOf(P.pos))
      BY <1>2, <2>2, <3>1 DEF Aging
    <3>3. \A q \in packets' : CellOf(q.pos) # c
      BY <1>1, <1>2, <2>2 DEF Kept
    <3>4. \A v \in Writers : writeCell'[v] = c => Rest(P) <= Fore(v)'
      <4>1. \A v \in Writers : writeCell'[v] = c => v = w
        BY <1>1, <2>2
      <4>2. Rest(P) <= Fore(w)'
        BY <1>2, <2>2, <2>3
      <4> QED
        BY <4>1, <4>2
    <3> QED
      BY <3>1, <3>2, <3>3, <3>4 DEF GoesOn, Age
  <2>5. ASSUME ~Bad(CellOf(P.pos), CellSize - PtrLen)'
        PROVE  Spot(disk', CellOf(P.pos), CellSize - PtrLen) = Byte("cell", c, 1)
    <3>1. CellSize - PtrLen \in InCell /\ Off(p) <= CellSize - PtrLen
      BY <1>2, Lengths DEF InCell
    <3> QED
      BY <1>2, <2>2, <2>5, <3>1, KeepsNew DEF Continued
  <2>6. ASSUME NEW i \in LinkLen + 1 .. Size(P), i > Room(P), ~Bad(c, i - Room(P) - 1)'
        PROVE  IsOf(Spot(disk', c, i - Room(P) - 1), P, i)
    <3> DEFINE y == i - Room(p) - 1
    <3>1. y \in InCell /\ i \in 1 .. Size(p)
      BY <1>2, <2>6, Lengths DEF InCell
    <3>2. IsOf(Spot(b, c, y), p, i)
      BY <1>2, <2>2, <2>6, <3>1 DEF Continued
    <3>5. ~Bad(c, y)'
      BY <1>2, <2>6
    <3> HIDE DEF y
    <3>3. Spot(disk', c, y) = Spot(b, c, y)
      BY <2>2, <3>1, <3>5, KeepsNew
    <3>4. IsOf(Spot(disk', c, y), P, i)
      BY <1>3, <3>2, <3>3
    <3> QED
      BY <1>2, <3>4 DEF y
  <2> QED
    BY <2>4, <2>5, <2>6
<1> QED
  BY <1>4, <1>5

LEMMA StoreIntact ==
  ASSUME CInv, NEW w \in Writers, NEW p, NEW P, NEW T, NEW b, Storing(w, p, P, T, b)
  PROVE  Intact'
<1>1. \A r \in packets' : r \in Kept(T) \/ (r = P /\ ~p.stray)
  BY NowThere
<1> SUFFICES ASSUME NEW r \in packets', RoomForLinks(CellOf(r.pos))'
             PROVE
    /\ \A i \in LinkLen + 1 .. Size(r) :
         i <= Room(r) /\ ~Bad(CellOf(r.pos), Off(r) + i - 1)' =>
           IsOf(Spot(disk', CellOf(r.pos), Off(r) + i - 1), r, i)
    /\ Whole(r) \/ \E c \in Cells :
         /\ GoesOn(r, c)'
         /\ ~Bad(CellOf(r.pos), CellSize - PtrLen)' =>
              Spot(disk', CellOf(r.pos), CellSize - PtrLen) = Byte("cell", c, 1)
         /\ \A i \in LinkLen + 1 .. Size(r) :
              i > Room(r) /\ ~Bad(c, i - Room(r) - 1)' =>
                IsOf(Spot(disk', c, i - Room(r) - 1), r, i)
  BY DEF Intact, Held
<1>2. CASE r = P /\ ~p.stray
  BY <1>2, NewIntact
<1>3. CASE r \in Kept(T)
  BY <1>3, OldIntact
<1> QED
  BY <1>1, <1>2, <1>3

(* The link of the last packet of a flow leads to the new one, and no      *)
(* other is touched.                                                       *)
LEMMA StoreLinking ==
  ASSUME CInv, NEW w \in Writers, NEW p, NEW P, NEW T, NEW b, Storing(w, p, P, T, b)
  PROVE  Linking'
<1>1. /\ CellsTypeOK /\ InOrder /\ Apart /\ Tables /\ Linking
      /\ \A q : q \in packets' <=> q \in Kept(T) \/ (q = P /\ ~p.stray)
      /\ Kept(T) \subseteq packets /\ p \in Claims /\ p = pending[w] /\ p # None
      /\ strayed \subseteq strayed' /\ (~p.stray => Claimed(w, p))
  BY NowThere DEF CInv, Storing, Kept, ClaimOf
<1>2. ~p.stray =>
      /\ P.writer = w /\ P.id = p.id /\ P.flow = p.flow /\ P.pos = p.pos
      /\ P.indexed = (p.last = None) /\ p.id \in Nat
  BY <1>1, RecordIs
<1>3. ~p.stray => \A q \in Kept(T) : q.writer = w => q.id < p.id
  BY <1>1 DEF Claimed
<1> SUFFICES ASSUME NEW p1 \in packets', NEW q1 \in packets',
                    ~p1.indexed, Before(q1, p1), <<p1.writer, p1.flow>> \notin strayed',
                    \A r \in packets' : Before(r, p1) => r.id <= q1.id,
                    RoomForLinks(CellOf(q1.pos))', ~Bad(CellOf(q1.pos), Off(q1))'
             PROVE  Spot(disk', CellOf(q1.pos), Off(q1)) = Byte("link", CalDiff(p1.pos, q1.pos), 1)
  BY DEF Linking, Held
<1>4. CASE p1 = P /\ ~p.stray
  <2>1. q1 \in Kept(T) /\ q1 \in packets /\ q1.writer = w /\ q1.flow = p.flow
    BY <1>1, <1>2, <1>4 DEF Before
  <2>2. p.last # None /\ p.flow \in Flows /\ <<w, p.flow>> \notin strayed
    BY <1>1, <1>2, <1>4 DEF Claims
  <2>3. PICK m \in packets : m.writer = w /\ m.flow = p.flow /\ m.pos = p.last /\ q1.id <= m.id
    BY <1>1, <2>1, <2>2 DEF Tables, Latest
  <2>4. m \in Kept(T)
    BY <1>1, <2>1, <2>3, LaterKept
  <2>5. m.id <= q1.id
    <3>1. Before(m, P)
      BY <1>2, <1>3, <1>4, <2>3, <2>4 DEF Before
    <3> QED
      BY <1>1, <1>4, <2>4, <3>1
  <2>6. q1 = m
    <3>1. q1.id = m.id
      BY <1>1, <2>1, <2>3, <2>5, PacketIs
    <3> QED
      BY <1>1, <2>1, <2>3, <3>1 DEF InOrder
  <2>7. Target(w, p, T, m)
    BY <2>2, <2>3, <2>4 DEF Target
  <2> QED
    BY <1>2, <1>4, <2>6, <2>7, LinkIs
<1>5. CASE p1 \in Kept(T) /\ q1 = P /\ ~p.stray
  <2>1. p1.writer = w /\ P.id < p1.id
    BY <1>2, <1>5 DEF Before
  <2>2. p1.id < p.id /\ p1.id \in Nat
    BY <1>1, <1>3, <1>5, <2>1, PacketIs
  <2> QED
    BY <1>2, <1>5, <2>1, <2>2
<1>6. CASE p1 \in Kept(T) /\ q1 \in Kept(T)
  <2>1. ASSUME NEW r \in packets, Before(r, p1) PROVE r.id <= q1.id
    <3>1. CASE r \in Kept(T)
      BY <1>1, <2>1, <3>1
    <3>2. CASE r \notin Kept(T)
      <4>1. r.writer = q1.writer /\ r.id \in Nat /\ q1.id \in Nat
        BY <1>1, <1>6, <2>1, PacketIs DEF Before
      <4>2. ~(q1.id <= r.id)
        BY <1>1, <1>6, <3>2, <4>1, LaterKept
      <4> QED
        BY <4>1, <4>2
    <3> QED
      BY <3>1, <3>2
  <2>2. CellOf(q1.pos) \notin T
    BY <1>6 DEF Kept
  <2>3. RoomForLinks(CellOf(q1.pos))
    BY <2>2, RoomBefore
  <2>6. /\ Off(q1) \in InCell /\ Off(q1) <= Off(q1) /\ Off(q1) < Off(q1) + Size(q1)
        /\ CellOf(q1.pos) \in Cells
    BY <1>1, <1>6, PacketIs, Lengths
  <2>8. ~Bad(CellOf(q1.pos), Off(q1))
    BY <2>2, <2>6, BadStays
  <2>4. Held(CellOf(q1.pos), Off(q1)) = Byte("link", CalDiff(p1.pos, q1.pos), 1)
    BY <1>1, <1>6, <2>1, <2>3, <2>8 DEF Linking
  <2>5. q1.pos # p.last \/ q1.writer # w \/ q1.flow # p.flow
    <3> SUFFICES ASSUME q1.pos = p.last, q1.writer = w, q1.flow = p.flow PROVE FALSE
      OBVIOUS
    <3>1. q1 \in packets /\ p1 \in packets /\ q1.pos \in Positions /\ p.last # None
      BY <1>1, <1>6, PacketIs, NoneAssumption DEF Positions
    <3>2. p1.writer = w /\ p1.flow = p.flow /\ q1.id < p1.id
      BY DEF Before
    <3>3. <<w, p.flow>> \notin strayed /\ p.flow \in Flows
      BY <1>1, <3>2 DEF Claims
    <3>4. PICK m \in packets : m.pos = p.last /\ p1.id <= m.id
      BY <1>1, <3>1, <3>2, <3>3 DEF Tables, Latest
    <3>5. m = q1
      BY <1>1, <3>1, <3>4, OneAt
    <3> QED
      BY <1>1, <3>1, <3>2, <3>4, <3>5, PacketIs
  <2>9. q1.pos # p.last
    <3> SUFFICES ASSUME q1.pos = p.last PROVE FALSE
      OBVIOUS
    <3>1. q1 \in packets /\ q1.pos \in Positions /\ q1.pos = CellOf(q1.pos) * CellSize + Off(q1)
      BY <1>1, <1>6, PacketIs
    <3>2. ~Present(w, p, Kept(T))
      BY <1>1, <2>5, <3>1, OneAt DEF Present
    <3>3. p.last # None
      BY <3>1, NoneAssumption DEF Positions
    <3>4. Covered(p.last, LinkLen) \subseteq spoilt'
      BY <3>2, <3>3 DEF Storing, Spoiling
    <3>5. Off(q1) < Off(q1) + LinkLen /\ LinkLen \in Int
      BY <2>6, Lengths DEF InCell
    <3>6. q1.pos \in Covered(q1.pos, LinkLen)
      BY <2>6, <3>1, <3>5, CoversAfter
    <3> QED
      BY <3>1, <3>4, <3>6 DEF Bad
  <2>7. Spot(disk', CellOf(q1.pos), Off(q1)) = Held(CellOf(q1.pos), Off(q1))
    BY <1>6, <2>9, <2>6, KeepsFirst
  <2> QED
    BY <2>4, <2>7
<1> QED
  BY <1>1, <1>4, <1>5, <1>6

LEMMA StoreKeeps ==
  ASSUME CInv, NEW w \in Writers, NEW p, NEW P, NEW T, NEW b, Storing(w, p, P, T, b)
  PROVE  CInv'
<1>1. CellsTypeOK /\ OwnCells /\ Claiming /\ InOrder /\ Apart
  BY DEF CInv
<1>2. CellsTypeOK' /\ OwnCells' /\ Claiming' /\ InOrder' /\ Apart'
  BY <1>1, StoreType, StoreOwn, StoreClaiming, StoreOrder, StoreApart
<1>3. Intact' /\ Tables' /\ Linking'
  BY StoreIntact, StoreTables, StoreLinking
<1> QED
  BY <1>2, <1>3 DEF CInv
-----------------------------------------------------------------------------
(* Receiving a packet *)

(* Nothing on the disk changes, and threads do not go back. *)
LEMMA QuietKeeps ==
  ASSUME CInv, CellsTypeOK',
         packets' = packets, disk' = disk, diskWriteCell' = diskWriteCell,
         writeCell' = writeCell, spoilt' = spoilt, strayed' = strayed, count <= count',
         \A v \in Writers : Fore(v) <= Fore(v)' /\ Fore(v) \in Nat /\ Fore(v)' \in Nat
  PROVE  OwnCells' /\ InOrder' /\ Apart' /\ Intact' /\ Linking'
<1>1. CellsTypeOK /\ OwnCells /\ InOrder /\ Apart /\ Intact /\ Linking
  BY DEF CInv
<1>2. \A q \in packets : /\ Off(q) \in Nat /\ Size(q) \in Nat /\ q.id \in Nat
                         /\ Off(q) + PtrLen <= CellSize
  BY <1>1, PacketIs DEF InOrder
<1>3. OwnCells'
  BY <1>1 DEF OwnCells
<1>4. InOrder'
  <2>1. count \in Nat /\ count' \in Nat
    BY <1>1 DEF CellsTypeOK
  <2>2. \A c : Age(c)' = Age(c)
    BY DEF Age
  <2> QED
    BY <1>1, <1>2, <2>1, <2>2 DEF InOrder
<1>5. Apart'
  BY <1>1, <1>2 DEF Apart
<1>6. Intact'
  <2>1. \A c : RoomForLinks(c)' = RoomForLinks(c)
    BY DEF RoomForLinks
  <2>2. \A c, x : Held(c, x)' = Held(c, x)
    BY DEF Held, Spot
  <2>4. \A c, x : Bad(c, x)' <=> Bad(c, x)
    BY DEF Bad
  <2>3. ASSUME NEW r \in packets, NEW c \in Cells, GoesOn(r, c) PROVE GoesOn(r, c)'
    <3>1. Rest(r) \in Int
      BY <1>1, <1>2, SplitIs
    <3>2. Age(c)' = Age(c) /\ Age(CellOf(r.pos))' = Age(CellOf(r.pos))
      BY DEF Age
    <3>3. \A v \in Writers : writeCell'[v] = c => Rest(r) <= Fore(v)'
      BY <2>3, <3>1 DEF GoesOn
    <3> QED
      BY <2>3, <3>2, <3>3 DEF GoesOn
  <2> QED
    BY <1>1, <2>1, <2>2, <2>3, <2>4 DEF Intact
<1>7. Linking'
  <2>1. \A c : RoomForLinks(c)' = RoomForLinks(c)
    BY DEF RoomForLinks
  <2>2. \A c, x : Held(c, x)' = Held(c, x)
    BY DEF Held, Spot
  <2>4. \A c, x : Bad(c, x)' <=> Bad(c, x)
    BY DEF Bad
  <2> QED
    BY <1>1, <2>1, <2>2, <2>4 DEF Linking
<1> QED
  BY <1>3, <1>4, <1>5, <1>6, <1>7

LEMMA ForeType ==
  ASSUME CellsTypeOK, NEW v \in Writers
  PROVE  Fore(v) \in Nat
<1>1. writeOffset[v] \in Nat /\ (pending[v] # None => pending[v] \in Claims)
  BY DEF CellsTypeOK
<1>2. pending[v] # None => Off(pending[v]) \in Nat
  BY <1>1, ClaimIs
<1> QED
  BY <1>1, <1>2 DEF Fore

(* The place in its cell of what goes around the end of the disk. *)
LEMMA AroundDisk ==
  ASSUME NEW x \in Nat, NEW c \in Nat
  PROVE  /\ (x + c * CellSize) % DiskSize \in Positions
         /\ ((x + c * CellSize) % DiskSize) % CellSize = x % CellSize
<1> DEFINE y == x + c * CellSize
           q == y \div DiskSize
           r == y % DiskSize
<1>1. CellSize \in Nat \ {0} /\ CellNum \in Nat \ {0} /\ DiskSize \in Nat \ {0}
      /\ DiskSize = CellSize * CellNum
  BY Lengths DEF DiskSize
<1>2. c * CellSize \in Nat /\ c * CellSize = CellSize * c
  BY <1>1
<1>3. y \in Nat
  BY <1>2
<1>4. y = CellSize * c + x
  BY <1>1, <1>2
<1> HIDE DEF y
<1>5. q \in Nat /\ r \in 0 .. DiskSize - 1 /\ y = DiskSize * q + r
  BY <1>1, <1>3, DivMod
<1> HIDE DEF q, r
<1>6. r \in Positions /\ r \in Nat
  BY <1>1, <1>5 DEF Positions
<1>7. PICK u \in Nat, v \in 0 .. CellSize - 1 : x = CellSize * u + v /\ x % CellSize = v
  BY <1>1, DivMod
<1>8. PICK s \in Nat, t \in 0 .. CellSize - 1 : r = CellSize * s + t /\ r % CellSize = t
  BY <1>1, <1>6, DivMod
<1>9. y = CellSize * (c + u) + v
  BY <1>1, <1>4, <1>7
<1>10. y = CellSize * (CellNum * q + s) + t
  <2>1. DiskSize * q = CellSize * (CellNum * q)
    BY <1>1, <1>5
  <2>2. CellNum * q \in Nat
    BY <1>1, <1>5
  <2>3. CellSize * (CellNum * q + s) = CellSize * (CellNum * q) + CellSize * s
    BY <1>1, <2>2
  <2>4. CellSize * (CellNum * q) \in Nat /\ CellSize * s \in Nat
    BY <1>1, <2>2
  <2> QED
    BY <1>1, <1>5, <1>8, <2>1, <2>3, <2>4
<1>11. y % CellSize = v
  BY <1>1, <1>7, <1>9, DivModIs
<1>12. y % CellSize = t
  <2>1. CellNum * q + s \in Nat
    BY <1>1, <1>5
  <2> QED
    BY <1>1, <1>8, <1>10, <2>1, DivModIs
<1> QED
  BY <1>6, <1>7, <1>8, <1>11, <1>12 DEF r, y

(* The place of a packet, and the one after it. *)
LEMMA ReadyIs ==
  ASSUME CInv, NEW w \in Writers, Ready(w), NEW len \in Lens
  PROVE  /\ pending[w] = None /\ writeCell[w] \in Cells /\ writeOffset[w] \in Nat
         /\ Offset(w) \in Positions /\ Offset(w) % CellSize = writeOffset[w] % CellSize
         /\ writeOffset[w] + PtrLen <= CellSize \/ writeOffset[w] > CellSize
         /\ writeOffset[w] + PtrLen <= CellSize =>
              CellOf(Offset(w)) = writeCell[w] /\ Offset(w) % CellSize = writeOffset[w]
         /\ len \in Nat \ {0} /\ HeadLen + len + PtrLen <= CellSize
         /\ Advanced(w, len) \in Nat /\ writeOffset[w] <= Advanced(w, len)
         /\ Advanced(w, len) = IF writeOffset[w] + HeadLen + len + PtrLen <= CellSize
                               THEN writeOffset[w] + HeadLen + len
                               ELSE writeOffset[w] + HeadLen + len + PtrLen
<1>1. /\ pending[w] = None /\ writeCell[w] \in Cells /\ writeOffset[w] \in Nat
      /\ writeOffset[w] + PtrLen <= CellSize \/ writeOffset[w] > CellSize
  BY DEF Ready, CInv, CellsTypeOK, Claiming
<1>2. Offset(w) \in Positions /\ Offset(w) % CellSize = writeOffset[w] % CellSize
  <2>1. writeCell[w] \in Nat
    BY <1>1, Lengths DEF Cells
  <2> QED
    BY <1>1, <2>1, AroundDisk DEF Offset
<1>3. ASSUME writeOffset[w] + PtrLen <= CellSize
      PROVE  CellOf(Offset(w)) = writeCell[w] /\ Offset(w) % CellSize = writeOffset[w]
  <2>1. writeOffset[w] \in InCell
    BY <1>1, <1>3, Lengths DEF InCell
  <2> DEFINE pos == writeCell[w] * CellSize + writeOffset[w]
  <2>2. pos \in Positions /\ CellOf(pos) = writeCell[w] /\ pos % CellSize = writeOffset[w]
    BY <1>1, <2>1, PlaceIs
  <2>3. writeOffset[w] + writeCell[w] * CellSize = pos
    <3>1. writeCell[w] * CellSize \in Nat
      <4>1. writeCell[w] \in Nat
        BY <1>1, Lengths DEF Cells
      <4> QED
        BY <4>1, Lengths
    <3> QED
      BY <1>1, <3>1
  <2> HIDE DEF pos
  <2>4. pos % DiskSize = pos
    BY <2>2, ModOnce, Lengths DEF Positions
  <2> QED
    BY <2>2, <2>3, <2>4 DEF Offset
<1>7. len \in Nat \ {0} /\ HeadLen + len + PtrLen <= CellSize
  BY CellAssumption
<1>8. /\ Advanced(w, len) \in Nat /\ writeOffset[w] <= Advanced(w, len)
      /\ Advanced(w, len) = IF writeOffset[w] + HeadLen + len + PtrLen <= CellSize
                            THEN writeOffset[w] + HeadLen + len
                            ELSE writeOffset[w] + HeadLen + len + PtrLen
  BY <1>1, <1>7, Lengths DEF Advanced
<1> QED
  BY <1>1, <1>2, <1>3, <1>7, <1>8

LEMMA NonIPKeeps ==
  ASSUME CInv, NEW w \in Writers, NEW len \in Lens, ReceiveNonIP(w, len)
  PROVE  CInv'
<1>1. /\ pending[w] = None /\ writeOffset[w] \in Nat /\ Advanced(w, len) \in Nat
      /\ writeOffset[w] <= Advanced(w, len) /\ len \in Nat
      /\ Advanced(w, len) = IF writeOffset[w] + HeadLen + len + PtrLen <= CellSize
                            THEN writeOffset[w] + HeadLen + len
                            ELSE writeOffset[w] + HeadLen + len + PtrLen
  BY ReadyIs DEF ReceiveNonIP
<1>2. /\ count' = count + 1 /\ writeOffset' = [writeOffset EXCEPT ![w] = Advanced(w, len)]
      /\ diskWriteCell' = diskWriteCell /\ writeCell' = writeCell /\ aggMap' = aggMap
      /\ pending' = pending /\ disk' = disk /\ packets' = packets
      /\ spoilt' = spoilt /\ strayed' = strayed /\ alive' = alive
  BY DEF ReceiveNonIP, history
<1>3. CellsTypeOK /\ Claiming /\ Tables /\ count \in Nat
      /\ writeOffset \in [Writers -> Nat]
  BY DEF CInv, CellsTypeOK
<1>4. CellsTypeOK'
  BY <1>1, <1>2, <1>3 DEF CellsTypeOK
<1>5. \A v \in Writers \ {w} : writeOffset'[v] = writeOffset[v]
  BY <1>2, <1>3
<1>6. writeOffset'[w] = Advanced(w, len)
  BY <1>2, <1>3
<1>7. \A v \in Writers : Fore(v) <= Fore(v)' /\ Fore(v) \in Nat /\ Fore(v)' \in Nat
  <2> SUFFICES ASSUME NEW v \in Writers
               PROVE  Fore(v) <= Fore(v)' /\ Fore(v) \in Nat /\ Fore(v)' \in Nat
    OBVIOUS
  <2>1. Fore(v) \in Nat
    BY <1>3, ForeType
  <2>2. CASE v = w
    BY <1>1, <1>2, <1>6, <2>2 DEF Fore
  <2>3. CASE v # w
    <3>1. Fore(v)' = Fore(v)
      BY <1>2, <1>5, <2>3 DEF Fore
    <3> QED
      BY <2>1, <3>1
  <2> QED
    BY <2>2, <2>3
<1>8. OwnCells' /\ InOrder' /\ Apart' /\ Intact' /\ Linking'
  <2>1. count <= count'
    BY <1>2, <1>3
  <2> QED
    BY <1>2, <1>4, <1>7, <2>1, QuietKeeps
<1>9. Claiming'
  <2> SUFFICES ASSUME NEW v \in Writers
               PROVE  IF pending'[v] = None
                      THEN writeOffset'[v] + PtrLen <= CellSize \/ writeOffset'[v] > CellSize
                      ELSE ClaimOf(v, pending[v])'
    BY DEF Claiming
  <2>1. CASE v = w
    BY <1>1, <1>2, <1>6, <2>1, Lengths
  <2>2. CASE v # w
    <3>1. IF pending[v] = None
          THEN writeOffset[v] + PtrLen <= CellSize \/ writeOffset[v] > CellSize
          ELSE ClaimOf(v, pending[v])
      BY <1>3 DEF Claiming
    <3>2. pending[v] # None => ClaimOf(v, pending[v])'
      <4>1. pending[v] # None => pending[v].id \in Nat
        BY <1>3 DEF CellsTypeOK, Claims
      <4> QED
        BY <1>2, <1>3, <1>5, <2>2, <3>1, <4>1 DEF ClaimOf, Claimed, Astray
    <3> QED
      BY <1>2, <1>5, <2>2, <3>1, <3>2
  <2> QED
    BY <2>1, <2>2
<1>10. Tables'
  BY <1>2, <1>3 DEF Tables, Latest
<1> QED
  BY <1>4, <1>8, <1>9, <1>10 DEF CInv

LEMMA ReceiveKeeps ==
  ASSUME CInv, NEW w \in Writers, NEW f \in Flows, NEW len \in Lens, Receive(w, f, len)
  PROVE  CInv'
<1> DEFINE pos == Offset(w)
           last == LastOffset(w, f, pos)
           p == [id |-> count + 1, flow |-> f, len |-> len, pos |-> pos, last |-> last,
                 stray |-> writeOffset[w] > CellSize]
<1>1. /\ pending[w] = None /\ writeOffset[w] \in Nat /\ Advanced(w, len) \in Nat
      /\ len \in Nat /\ writeOffset[w] <= Advanced(w, len)
      /\ pos \in Positions /\ pos % CellSize = writeOffset[w] % CellSize
      /\ writeOffset[w] + PtrLen <= CellSize \/ writeOffset[w] > CellSize
      /\ writeOffset[w] + PtrLen <= CellSize =>
           CellOf(pos) = writeCell[w] /\ pos % CellSize = writeOffset[w]
      /\ Advanced(w, len) = IF writeOffset[w] + HeadLen + len + PtrLen <= CellSize
                            THEN writeOffset[w] + HeadLen + len
                            ELSE writeOffset[w] + HeadLen + len + PtrLen
  BY ReadyIs DEF Receive
<1>2. /\ count' = count + 1 /\ writeOffset' = [writeOffset EXCEPT ![w] = Advanced(w, len)]
      /\ pending' = [pending EXCEPT ![w] = p]
      /\ aggMap' = [aggMap EXCEPT ![w][f] = pos]
      /\ diskWriteCell' = diskWriteCell /\ writeCell' = writeCell
      /\ disk' = disk /\ packets' = packets
      /\ spoilt' = spoilt /\ strayed' = strayed /\ alive' = alive
  BY DEF Receive, Table, history
<1>3. /\ CellsTypeOK /\ InOrder /\ Claiming /\ Tables /\ count \in Nat
      /\ writeOffset \in [Writers -> Nat]
      /\ pending \in [Writers -> Claims \cup {None}]
      /\ aggMap \in [Writers -> [Flows -> Positions \cup {None}]]
  BY DEF CInv, CellsTypeOK
<1>4. last = None \/ last = aggMap[w][f]
  BY DEF LastOffset
<1> HIDE DEF pos, last
<1>5. p \in Claims
  BY <1>1, <1>3, <1>4 DEF Claims
<1>6. p.id = count + 1 /\ p.flow = f /\ p.len = len /\ p.pos = pos /\ p.last = last
      /\ p.stray = (writeOffset[w] > CellSize) /\ p.stray \in BOOLEAN
  OBVIOUS
<1> HIDE DEF p
<1>7. p # None
  BY <1>5, NoneAssumption DEF Claims, Positions
<1>8. /\ pending'[w] = p /\ writeOffset'[w] = Advanced(w, len) /\ aggMap'[w][f] = pos
      /\ \A g \in Flows \ {f} : aggMap'[w][g] = aggMap[w][g]
      /\ \A v \in Writers \ {w} : /\ pending'[v] = pending[v] /\ aggMap'[v] = aggMap[v]
                                 /\ writeOffset'[v] = writeOffset[v]
  BY <1>2, <1>3
<1>9. CellsTypeOK'
  BY <1>1, <1>2, <1>3, <1>5 DEF CellsTypeOK
<1>10. Size(p) = HeadLen + len /\ (~p.stray => Off(p) = writeOffset[w])
       /\ Off(p) = writeOffset[w] % CellSize
  BY <1>1, <1>6 DEF Off, Size
<1>11. \A v \in Writers : Fore(v) <= Fore(v)' /\ Fore(v) \in Nat /\ Fore(v)' \in Nat
  <2> SUFFICES ASSUME NEW v \in Writers
               PROVE  Fore(v) <= Fore(v)' /\ Fore(v) \in Nat /\ Fore(v)' \in Nat
    OBVIOUS
  <2>1. Fore(v) \in Nat
    BY <1>3, ForeType
  <2>2. CASE v = w
    <3>1. Fore(w) = writeOffset[w]
      BY <1>1 DEF Fore
    <3>2. Fore(w)' = IF p.stray THEN Advanced(w, len) ELSE writeOffset[w]
      BY <1>6, <1>7, <1>8, <1>10 DEF Fore
    <3> QED
      BY <1>1, <2>2, <3>1, <3>2
  <2>3. CASE v # w
    <3>1. Fore(v)' = Fore(v)
      BY <1>8, <2>3 DEF Fore
    <3> QED
      BY <2>1, <3>1
  <2> QED
    BY <2>2, <2>3
<1>12. OwnCells' /\ InOrder' /\ Apart' /\ Intact' /\ Linking'
  <2>1. count <= count'
    BY <1>2, <1>3
  <2> QED
    BY <1>2, <1>9, <1>11, <2>1, QuietKeeps
<1>13. Claiming'
  <2> SUFFICES ASSUME NEW v \in Writers
               PROVE  IF pending'[v] = None
                      THEN writeOffset'[v] + PtrLen <= CellSize \/ writeOffset'[v] > CellSize
                      ELSE ClaimOf(v, pending[v])'
    BY DEF Claiming
  <2>1. CASE v = w
    <3>1. \A q \in packets : q.id \in Nat /\ q.id <= count
      BY <1>3, PacketIs DEF InOrder
    <3>2. ASSUME ~p.stray PROVE Claimed(w, pending[w])'
      <4>1. writeOffset[w] + PtrLen <= CellSize
        BY <1>1, <1>6, <3>2
      <4>2. writeOffset'[w] = IF Whole(p) THEN Off(p) + Size(p) ELSE Off(p) + Size(p) + PtrLen
        BY <1>1, <1>8, <1>10, <3>2, Lengths DEF Whole
      <4> QED
        BY <1>1, <1>2, <1>3, <1>6, <1>8, <1>10, <3>1, <3>2, <4>1, <4>2 DEF Claimed
    <3>3. ASSUME p.stray PROVE Astray(w, pending[w])'
      <4>1. writeOffset[w] > CellSize /\ CellSize \in Nat \ {0}
        BY <1>6, <3>3, Lengths
      <4>2. PICK k \in Nat, x \in 0 .. CellSize - 1 :
              writeOffset[w] = CellSize * k + x /\ writeOffset[w] % CellSize = x
        BY <1>1, <4>1, DivMod
      <4>3. k # 0
        BY <4>1, <4>2
      <4>4. writeOffset'[w] = CellSize * k + (Off(p) + Size(p) + PtrLen)
        <5>1. writeOffset'[w] = writeOffset[w] + HeadLen + len + PtrLen
          BY <1>1, <1>8, <4>1, Lengths
        <5>2. CellSize * k \in Nat
          BY <4>1
        <5> QED
          BY <1>1, <1>10, <4>2, <5>1, <5>2, Lengths
      <4> QED
        BY <1>8, <4>3, <4>4 DEF Astray, Off, Size
    <3> QED
      BY <1>6, <1>7, <1>8, <2>1, <3>2, <3>3 DEF ClaimOf
  <2>2. CASE v # w
    <3>1. IF pending[v] = None
          THEN writeOffset[v] + PtrLen <= CellSize \/ writeOffset[v] > CellSize
          ELSE ClaimOf(v, pending[v])
      BY <1>3 DEF Claiming
    <3>2. pending[v] # None => ClaimOf(v, pending[v])'
      <4>1. pending[v] # None => pending[v].id \in Nat
        BY <1>3 DEF Claims
      <4> QED
        BY <1>2, <1>3, <1>8, <2>2, <3>1, <4>1 DEF ClaimOf, Claimed, Astray
    <3> QED
      BY <1>8, <2>2, <3>1, <3>2
  <2> QED
    BY <2>1, <2>2
<1>14. Tables'
  <2>1. Tables /\ strayed' = strayed
    BY <1>2, <1>3
  <2>2. \A v, g, x : Latest(v, g, x) <=> Latest(v, g, x)'
    BY <1>2 DEF Latest
  <2> SUFFICES ASSUME NEW v \in Writers, NEW g \in Flows, <<v, g>> \notin strayed
               PROVE  IF pending'[v] # None /\ pending'[v].flow = g
                      THEN pending'[v].last = None \/ Latest(v, g, pending[v].last)'
                      ELSE Latest(v, g, aggMap[v][g])'
    BY <2>1 DEF Tables
  <2>3. CASE v # w
    BY <1>2, <1>8, <2>1, <2>3 DEF Tables, Latest
  <2>4. CASE v = w /\ g = f
    <3>1. Latest(w, f, aggMap[w][f])
      BY <1>1, <2>1, <2>4 DEF Tables
    <3>2. p.last = None \/ Latest(w, f, p.last)
      BY <1>4, <1>6, <3>1
    <3> QED
      BY <1>2, <1>6, <1>7, <1>8, <2>4, <3>2 DEF Latest
  <2>5. CASE v = w /\ g # f
    <3>1. Latest(w, g, aggMap[w][g])
      BY <1>1, <2>1, <2>5 DEF Tables
    <3> QED
      BY <1>2, <1>6, <1>8, <2>5, <3>1 DEF Latest
  <2> QED
    BY <2>3, <2>4, <2>5
<1> QED
  BY <1>9, <1>12, <1>13, <1>14 DEF CInv

LEMMA InvStep == CInv /\ [Next]_vars => CInv'
<1> SUFFICES ASSUME CInv, [Next]_vars PROVE CInv'
  OBVIOUS
<1>1. ASSUME UNCHANGED vars PROVE CInv'
  BY <1>1 DEF CInv, vars, history, CellsTypeOK, OwnCells, Claiming, Claimed, InOrder, Age,
              Apart, Fore, Intact, RoomForLinks, GoesOn, Held, Spot, Tables, Latest, Linking,
              ClaimOf, Astray, Bad
<1>2. CellsTypeOK /\ Claiming
  BY DEF CInv
<1>3. ASSUME NEW w \in Writers, StoreFits(w) PROVE CInv'
  BY <1>2, <1>3, FitsIsStoring, StoreKeeps
<1>4. ASSUME NEW w \in Writers, StoreSplit(w) PROVE CInv'
  BY <1>2, <1>4, SplitIsStoring, StoreKeeps
<1>5. ASSUME NEW w \in Writers, StoreDies(w) PROVE CInv'
  <2>1. alive' \in BOOLEAN /\ UNCHANGED <<diskWriteCell, writeCell, writeOffset, aggMap, pending,
                                         disk, count, packets, spoilt, strayed>>
    BY <1>5 DEF StoreDies, history
  <2>2. CellsTypeOK' /\ OwnCells'
    BY <2>1 DEF CInv, CellsTypeOK, OwnCells
  <2>3. Claiming' /\ InOrder' /\ Apart'
    BY <2>1 DEF CInv, Claiming, ClaimOf, Claimed, Astray, InOrder, Age, Apart, Fore
  <2>4. Intact'
    BY <2>1 DEF CInv, Intact, RoomForLinks, GoesOn, Age, Fore, Held, Spot, Bad
  <2>5. Tables' /\ Linking'
    BY <2>1 DEF CInv, Tables, Latest, Linking, RoomForLinks, Held, Spot, Bad
  <2> QED
    BY <2>2, <2>3, <2>4, <2>5 DEF CInv
<1> QED
  BY <1>1, <1>3, <1>4, <1>5, NonIPKeeps, ReceiveKeeps DEF Next

THEOREM CellsInvariant == Spec => []CInv
<1>1. Init => CInv
  BY InitInv
<1>2. CInv /\ [Next]_vars => CInv'
  BY InvStep
<1> QED
  BY <1>1, <1>2, PTL DEF Spec
-----------------------------------------------------------------------------
(* What follows *)

(* A reader finds byte i of a packet where the thread put it. *)
LEMMA AtIs ==
  ASSUME CellsTypeOK, InOrder, NEW r \in packets, NEW i \in 1 .. Size(r)
  PROVE  /\ i <= Room(r) => At(r, i) = Held(CellOf(r.pos), Off(r) + i - 1)
         /\ \A c \in Cells :
              /\ i > Room(r)
              /\ Held(CellOf(r.pos), CellSize - PtrLen) = Byte("cell", c, 1)
              => At(r, i) = Held(c, i - Room(r) - 1)
<1>1. /\ Off(r) \in Nat /\ Size(r) \in Nat /\ Room(r) \in Nat /\ i \in Nat
      /\ CellOf(r.pos) \in Cells /\ r.pos = CellOf(r.pos) * CellSize + Off(r)
  BY PacketIs, SplitIs DEF InOrder
<1>2. PICK u \in Nat : u = CellOf(r.pos) * CellSize
  <2>1. CellOf(r.pos) \in Nat
    BY <1>1, Lengths DEF Cells
  <2> QED
    BY <2>1, Lengths
<1>3. ASSUME i <= Room(r) PROVE At(r, i) = Held(CellOf(r.pos), Off(r) + i - 1)
  <2>1. r.pos + i - 1 = CellOf(r.pos) * CellSize + (Off(r) + i - 1)
    BY <1>1, <1>2
  <2> QED
    BY <1>3, <2>1 DEF At, Held, Spot
<1>4. ASSUME NEW c \in Cells, i > Room(r),
             Held(CellOf(r.pos), CellSize - PtrLen) = Byte("cell", c, 1)
      PROVE  At(r, i) = Held(c, i - Room(r) - 1)
  <2>1. CellOf(r.pos) * CellSize + CellSize - PtrLen
          = CellOf(r.pos) * CellSize + (CellSize - PtrLen)
    BY <1>2, Lengths
  <2>2. NumberAt(CellOf(r.pos)) = Byte("cell", c, 1)
    BY <1>4, <2>1 DEF NumberAt, PointerAt, Held, Spot
  <2>3. NumberAt(CellOf(r.pos)).kind = "cell" /\ NumberAt(CellOf(r.pos)).id = c
    BY <2>2 DEF Byte
  <2>4. At(r, i) = disk[c * CellSize + i - Room(r) - 1]
    BY <1>1, <1>4, <2>3 DEF At, BeyondAt
  <2>5. c * CellSize + i - Room(r) - 1 = c * CellSize + (i - Room(r) - 1)
    <3>1. c \in Nat
      BY Lengths DEF Cells
    <3>2. c * CellSize \in Nat
      BY <3>1, Lengths
    <3> QED
      BY <1>1, <3>2
  <2> QED
    BY <2>4, <2>5 DEF Held, Spot
<1> QED
  BY <1>3, <1>4

(* A byte that is not spoilt is where the thread put it, and so is the     *)
(* pointer that leads to it.                                               *)
LEMMA UnspoiltIs ==
  ASSUME CellsTypeOK, InOrder, NEW r \in packets, NEW i \in 1 .. Size(r), ~SpoiltAt(r, i)
  PROVE  /\ i <= Room(r) => ~Bad(CellOf(r.pos), Off(r) + i - 1)
         /\ i > Room(r) => ~Bad(CellOf(r.pos), CellSize - PtrLen)
         /\ \A c \in Cells :
              /\ i > Room(r)
              /\ Held(CellOf(r.pos), CellSize - PtrLen) = Byte("cell", c, 1)
              => ~Bad(c, i - Room(r) - 1)
<1>1. /\ Off(r) \in Nat /\ Size(r) \in Nat /\ Room(r) \in Nat /\ i \in Nat
      /\ CellOf(r.pos) \in Cells /\ r.pos = CellOf(r.pos) * CellSize + Off(r)
  BY PacketIs, SplitIs DEF InOrder
<1>2. PICK u \in Nat : u = CellOf(r.pos) * CellSize
  <2>1. CellOf(r.pos) \in Nat
    BY <1>1, Lengths DEF Cells
  <2> QED
    BY <2>1, Lengths
<1>3. ASSUME i <= Room(r) PROVE ~Bad(CellOf(r.pos), Off(r) + i - 1)
  <2>1. r.pos + i - 1 = CellOf(r.pos) * CellSize + (Off(r) + i - 1)
    BY <1>1, <1>2
  <2> QED
    BY <1>3, <2>1 DEF SpoiltAt, Bad
<1>4. PointerAt(CellOf(r.pos)) = CellOf(r.pos) * CellSize + (CellSize - PtrLen)
  BY <1>2, Lengths DEF PointerAt
<1>5. ASSUME i > Room(r) PROVE ~Bad(CellOf(r.pos), CellSize - PtrLen)
  BY <1>1, <1>4, <1>5 DEF SpoiltAt, Bad
<1>6. ASSUME NEW c \in Cells, i > Room(r),
             Held(CellOf(r.pos), CellSize - PtrLen) = Byte("cell", c, 1)
      PROVE  ~Bad(c, i - Room(r) - 1)
  <2>1. NumberAt(CellOf(r.pos)).id = c
    BY <1>4, <1>6 DEF NumberAt, Held, Spot, Byte
  <2>2. c * CellSize + i - Room(r) - 1 = c * CellSize + (i - Room(r) - 1)
    <3>1. c \in Nat
      BY Lengths DEF Cells
    <3>2. c * CellSize \in Nat
      BY <3>1, Lengths
    <3> QED
      BY <1>1, <3>2
  <2>3. BeyondAt(r, i) = c * CellSize + (i - Room(r) - 1)
    BY <2>1, <2>2 DEF BeyondAt
  <2> QED
    BY <1>1, <1>6, <2>3 DEF SpoiltAt, Bad
<1> QED
  BY <1>3, <1>5, <1>6

LEMMA InvReadable == CInv => PacketsReadable
<1> SUFFICES ASSUME CInv, NEW p \in packets, RoomForLinks(CellOf(p.pos)),
                    NEW i \in LinkLen + 1 .. HeadLen + p.len, ~SpoiltAt(p, i)
             PROVE
    /\ At(p, i) # None /\ At(p, i).kind = "packet" /\ At(p, i).id = p.id
    /\ i <= HeadLen => At(p, i).i = i
  BY DEF PacketsReadable
<1>1. CellsTypeOK /\ InOrder /\ Intact
  BY DEF CInv
<1>2. /\ Size(p) = HeadLen + p.len /\ Size(p) \in Nat /\ HeadLen < Size(p) /\ Room(p) \in Nat
      /\ (Whole(p) <=> Size(p) <= Room(p))
  BY <1>1, PacketIs, SplitIs DEF Size, InOrder
<1>3. i \in 1 .. Size(p) /\ i \in LinkLen + 1 .. Size(p) /\ i \in Nat /\ i <= Size(p)
  BY <1>2, Lengths
<1>4. IsOf(At(p, i), p, i)
  <2>2. CASE i <= Room(p)
    <3>1. ~Bad(CellOf(p.pos), Off(p) + i - 1)
      BY <1>1, <1>3, <2>2, UnspoiltIs
    <3>2. IsOf(Held(CellOf(p.pos), Off(p) + i - 1), p, i)
      BY <1>1, <1>3, <2>2, <3>1 DEF Intact
    <3> QED
      BY <1>1, <1>3, <2>2, <3>2, AtIs
  <2>3. CASE i > Room(p)
    <3>1. ~Whole(p)
      BY <1>2, <1>3, <2>3
    <3>2. ~Bad(CellOf(p.pos), CellSize - PtrLen)
      BY <1>1, <1>3, <2>3, UnspoiltIs
    <3>3. PICK c \in Cells :
            /\ Held(CellOf(p.pos), CellSize - PtrLen) = Byte("cell", c, 1)
            /\ ~Bad(c, i - Room(p) - 1) => IsOf(Held(c, i - Room(p) - 1), p, i)
      BY <1>1, <1>3, <2>3, <3>1, <3>2 DEF Intact
    <3>4. ~Bad(c, i - Room(p) - 1)
      BY <1>1, <1>3, <2>3, <3>3, UnspoiltIs
    <3> QED
      BY <1>1, <1>3, <2>3, <3>3, <3>4, AtIs
  <2> QED
    BY <1>2, <1>3, <2>2, <2>3
<1> QED
  BY <1>4, NoneAssumption DEF IsOf, Bytes

(* Every byte of every packet whose cells are not taken again is read from *)
(* the packet's offset as the thread wrote it, unless a stray packet or a  *)
(* late link was written to that very byte or to the pointer that leads to *)
(* it: getOffset and writePacketToPacketBuffer, for any threads and sizes. *)
THEOREM PacketsReadableAlways == Spec => []PacketsReadable
<1>1. CInv => PacketsReadable
  BY InvReadable
<1> QED
  BY <1>1, CellsInvariant, PTL

LEMMA InvChained == CInv => FlowChained
<1> SUFFICES ASSUME CInv, NEW p \in packets, NEW q \in packets,
                    ~p.indexed, Before(q, p), <<p.writer, p.flow>> \notin strayed,
                    \A r \in packets : Before(r, p) => r.id <= q.id,
                    RoomForLinks(CellOf(q.pos)), q.pos \notin spoilt
             PROVE  (q.pos + At(q, 1).id) % DiskSize = p.pos /\ At(q, 1).kind = "link"
  BY DEF FlowChained
<1>1. CellsTypeOK /\ InOrder /\ Linking
  BY DEF CInv
<1>2. Held(CellOf(q.pos), Off(q)) = Byte("link", CalDiff(p.pos, q.pos), 1)
  <2>1. ~Bad(CellOf(q.pos), Off(q))
    BY <1>1, PacketIs DEF Bad
  <2> QED
    BY <1>1, <2>1 DEF Linking
<1>3. p.pos \in Positions /\ q.pos \in Positions /\ Off(q) \in Nat /\ HeadLen < Size(q)
      /\ Room(q) = CellSize - Off(q) - PtrLen /\ Size(q) \in Nat
  BY <1>1, PacketIs
<1>4. 1 <= Room(q)
  <2>1. Off(q) + LinkLen + PtrLen <= CellSize
    BY DEF RoomForLinks, Off
  <2> QED
    BY <1>3, <2>1, Lengths
<1>5. At(q, 1) = Byte("link", CalDiff(p.pos, q.pos), 1)
  <2>1. 1 \in 1 .. Size(q) /\ Off(q) + 1 - 1 = Off(q)
    BY <1>3, Lengths
  <2> QED
    BY <1>1, <1>2, <1>4, <2>1, AtIs
<1>6. (q.pos + CalDiff(p.pos, q.pos)) % DiskSize = p.pos
  <2> DEFINE a == p.pos
             e == q.pos
  <2>1. a \in Nat /\ e \in Nat /\ a < DiskSize /\ e < DiskSize
    BY <1>3, Lengths DEF Positions
  <2>2. CalDiff(p.pos, q.pos) = (a + DiskSize - e) % DiskSize
    BY DEF CalDiff
  <2> HIDE DEF a, e
  <2>3. CASE e <= a
    <3>1. a - e \in 0 .. DiskSize - 1 /\ a \in 0 .. DiskSize - 1
      BY <2>1, <2>3, Lengths
    <3>2. ((a - e) + DiskSize) % DiskSize = a - e /\ a % DiskSize = a
      BY <3>1, ModOnce, Lengths
    <3>3. (a - e) + DiskSize = a + DiskSize - e /\ e + (a - e) = a
      BY <2>1, Lengths
    <3> QED
      BY <2>2, <3>2, <3>3 DEF a, e
  <2>4. CASE a < e
    <3>1. a + DiskSize - e \in 0 .. DiskSize - 1 /\ a \in 0 .. DiskSize - 1
      BY <2>1, <2>4, Lengths
    <3>2. (a + DiskSize - e) % DiskSize = a + DiskSize - e /\ (a + DiskSize) % DiskSize = a
      BY <3>1, ModOnce, Lengths
    <3>3. e + (a + DiskSize - e) = a + DiskSize
      BY <2>1, Lengths
    <3> QED
      BY <2>2, <3>2, <3>3 DEF a, e
  <2> QED
    BY <2>1, <2>3, <2>4
<1> QED
  BY <1>5, <1>6 DEF Byte

(* The chain of a flow holds for ever: who follows the differences in the  *)
(* headers from a packet in the index misses none, unless the flow had a   *)
(* stray packet or the difference itself was written over (addPacket,      *)
(* calDiff, writeBefore).                                                  *)
THEOREM FlowChainedAlways == Spec => []FlowChained
<1>1. CInv => FlowChained
  BY InvChained
<1> QED
  BY <1>1, CellsInvariant, PTL
=============================================================================
