--------------------------- MODULE PipeRingProofs ---------------------------
(***************************************************************************)
(* Proofs about PipeRing for every capacity, every number of puts and one  *)
(* producer, which is how all pipes but the one to the flusher are used.   *)
(***************************************************************************)
EXTENDS PipeRing, SequenceTheorems, TLAPS

(* A position splits into its quotient and remainder by Rows (put, get).   *)
LEMMA DivMod ==
  ASSUME NEW a \in Nat, NEW r \in Nat \ {0}
  PROVE  /\ a \div r \in Nat
         /\ a % r \in 0 .. r - 1
         /\ a = r * (a \div r) + (a % r)
  OBVIOUS

(* A masked position splits into one of eight runs and a row of that run.  *)
LEMMA RunAndRow ==
  ASSUME NEW a \in Slots
  PROVE  /\ a % Rows \in 0 .. Rows - 1
         /\ a \div Rows \in 0 .. 7
         /\ a = Rows * (a \div Rows) + (a % Rows)
<1>1. /\ a \in Nat /\ a < 8 * Rows
      /\ Rows \in Nat \ {0}
  BY RingAssumption DEF Slots, Capacity
<1>2. /\ a \div Rows \in Nat
      /\ a % Rows \in 0 .. Rows - 1
      /\ a = Rows * (a \div Rows) + (a % Rows)
  BY <1>1, DivMod
<1>3. a \div Rows < 8
  <2>1. SUFFICES ASSUME a \div Rows >= 8 PROVE FALSE
    BY <1>2
  <2>2. Rows * (a \div Rows) >= Rows * 8
    BY <2>1, <1>1, <1>2
  <2>. QED
    BY <1>1, <1>2, <2>2
<1>. QED
  BY <1>1, <1>2, <1>3

(* The slot of a masked position lies in the ring: put and get never leave *)
(* the array.                                                              *)
THEOREM SlotInRing == \A a \in Slots : Slot(a) \in Slots
  BY RunAndRow, RingAssumption DEF Slot, Slots, Capacity

(* Two masked positions never share a slot: the permutation that spreads   *)
(* neighbouring positions over the cache lines loses none.                 *)
THEOREM SlotInjective == \A a, b \in Slots : Slot(a) = Slot(b) => a = b
<1>. SUFFICES ASSUME NEW a \in Slots, NEW b \in Slots, Slot(a) = Slot(b)
              PROVE  a = b
  OBVIOUS
<1>. DEFINE ra == a % Rows  qa == a \div Rows  rb == b % Rows  qb == b \div Rows
<1>1. /\ ra \in Nat /\ qa \in 0 .. 7 /\ a = Rows * qa + ra
      /\ rb \in Nat /\ qb \in 0 .. 7 /\ b = Rows * qb + rb
  BY RunAndRow, RingAssumption
<1>2. ra * 8 + qa = rb * 8 + qb
  BY DEF Slot
<1>. HIDE DEF ra, qa, rb, qb
<1>3. ra = rb /\ qa = qb
  BY <1>1, <1>2
<1>. QED
  BY <1>1, <1>3

(* Masked positions are slots. *)
LEMMA MaskInRing == \A i \in Nat : Mask(i) \in Slots
  BY RingAssumption DEF Mask, Slots, Capacity

(* Positions less than a round apart have different masks.                 *)
LEMMA MaskDistinct ==
  ASSUME NEW i \in Nat, NEW j \in Nat, i < j, j < i + Capacity
  PROVE  Mask(i) # Mask(j)
<1>1. Capacity \in Nat \ {0}
  BY RingAssumption DEF Capacity
<1>2. /\ i \div Capacity \in Nat /\ j \div Capacity \in Nat
      /\ i = Capacity * (i \div Capacity) + Mask(i)
      /\ j = Capacity * (j \div Capacity) + Mask(j)
      /\ Mask(i) \in 0 .. Capacity - 1 /\ Mask(j) \in 0 .. Capacity - 1
  BY <1>1, DivMod DEF Mask
<1>. QED
  <2>. DEFINE C == Capacity  qi == i \div Capacity  qj == j \div Capacity
              mi == Mask(i)  mj == Mask(j)
  <2>1. /\ C \in Nat \ {0} /\ qi \in Nat /\ qj \in Nat /\ mi \in Nat /\ mj \in Nat
        /\ i = C * qi + mi /\ j = C * qj + mj
    BY <1>1, <1>2
  <2>2. SUFFICES ASSUME mi = mj PROVE FALSE
    OBVIOUS
  <2>3. i < j /\ j < i + C
    OBVIOUS
  <2>. HIDE DEF C, qi, qj, mi, mj
  <2>4. C * qj - C * qi > 0 /\ C * qj - C * qi < C
    BY <2>1, <2>2, <2>3
  <2>5. C * qj - C * qi = C * (qj - qi)
    BY <2>1
  <2>6. CASE qj - qi <= 0
    <3>1. C * (qj - qi) <= 0
      BY <2>1, <2>6
    <3>. QED BY <3>1, <2>4, <2>5, <2>1
  <2>7. CASE qj - qi >= 1
    <3>1. C * (qj - qi) >= C
      BY <2>1, <2>7
    <3>. QED BY <3>1, <2>4, <2>5, <2>1
  <2>. QED
    BY <2>1, <2>6, <2>7
-----------------------------------------------------------------------------
(***************************************************************************)
(* The inductive invariant of a ring with the single producer w.  The n-th *)
(* put goes to position n - 1; the slots from readPos to writePos hold the *)
(* items of their positions; a slot holds nothing but items of positions   *)
(* that map to it; and the locals of put and get agree with the positions  *)
(* they were read from, which nobody else moves meanwhile.                 *)
(***************************************************************************)
Positions ==
  /\ readPos <= writePos
  /\ writePos <= readPos + (Capacity - 1)

Producer(w) ==
  /\ count[w] = IF putPc[w] = "idle" THEN writePos ELSE writePos + 1
  /\ putPc[w] # "idle" => putPos[w] = Mask(writePos)
  /\ putPc[w] \in {"store", "advance"} => writePos < readPos + (Capacity - 1)
  /\ putPc[w] = "advance" => pointers[Slot(Mask(writePos))] = Item(w, writePos + 1)

Consumer(w) ==
  /\ getPc # "idle" => getPos = Mask(readPos)
  /\ getPc \in {"read", "advance"} => readPos < writePos
  /\ getPc = "advance" => getData = Item(w, readPos + 1)

Held(w) == \A i \in readPos .. writePos - 1 :
             pointers[Slot(Mask(i))] = Item(w, i + 1)

Stored(w) == IF putPc[w] = "advance" THEN writePos + 1 ELSE writePos

Placed(w) == \A s \in Slots : pointers[s] # NULL =>
               \E i \in 0 .. Stored(w) - 1 : /\ pointers[s] = Item(w, i + 1)
                                             /\ s = Slot(Mask(i))

InOrder(w) == received = [n \in 1 .. readPos |-> Item(w, n)]

Inv(w) == TypeOK /\ Positions /\ Producer(w) /\ Consumer(w) /\ Held(w) /\ Placed(w)
          /\ InOrder(w)

(* Initially the ring is empty and both threads are outside put and get.   *)
LEMMA InvInit ==
  ASSUME NEW w, Producers = {w}, Init
  PROVE  Inv(w)
<1>. USE RingAssumption DEF Init, Slots, Capacity
<1>1. TypeOK
  BY DEF TypeOK
<1>2. Positions /\ Producer(w) /\ Consumer(w) /\ Held(w) /\ Placed(w)
  BY DEF Positions, Producer, Consumer, Held, Placed
<1>3. InOrder(w)
  BY DEF InOrder
<1>. QED
  BY <1>1, <1>2, <1>3 DEF Inv

(* The items of one producer are told apart by their numbers. *)
LEMMA ItemDistinct ==
  ASSUME NEW w, NEW m \in Nat, NEW n \in Nat, Item(w, m) = Item(w, n)
  PROVE  m = n
  BY DEF Item

(* An item of the producer is an item, and none is the null pointer. *)
LEMMA ItemType ==
  ASSUME NEW w, Producers = {w}, NEW n \in 1 .. MaxPuts
  PROVE  Item(w, n) \in Items /\ Item(w, n) # NULL
  BY RingAssumption DEF Item, Items

(* The positions of the ring and the producer's count, as numbers. *)
LEMMA PositionTypes ==
  ASSUME NEW w, Producers = {w}, Inv(w)
  PROVE  /\ writePos \in Nat /\ readPos \in Nat /\ count[w] \in 0 .. MaxPuts
         /\ Capacity \in Nat /\ Capacity >= 8 /\ MaxPuts \in Nat
         /\ w \in Producers
         /\ putPc[w] \in {"idle", "wait", "store", "advance"}
  BY RingAssumption DEF Inv, TypeOK, Capacity

(* Appending adds one entry at the end. *)
LEMMA AppendAsFunction ==
  ASSUME NEW S, NEW s \in Seq(S), NEW x \in S, NEW k \in Nat, Len(s) = k
  PROVE  Append(s, x) = [n \in 1 .. k + 1 |-> IF n = k + 1 THEN x ELSE s[n]]
<1>. DEFINE a == Append(s, x)
            b == [n \in 1 .. k + 1 |-> IF n = k + 1 THEN x ELSE s[n]]
<1>1. /\ a \in Seq(S) /\ Len(a) = k + 1
      /\ \A n \in 1 .. k : a[n] = s[n]
      /\ a[k + 1] = x
  BY AppendProperties
<1>2. b \in Seq(S) /\ Len(b) = k + 1
  <2>1. \A n \in 1 .. k + 1 : (IF n = k + 1 THEN x ELSE s[n]) \in S
    BY ElementOfSeq
  <2>. QED
    BY <2>1, IsASeq
<1>3. \A n \in 1 .. k + 1 : a[n] = b[n]
  BY <1>1
<1>. HIDE DEF a, b
<1>4. a = b
  BY <1>1, <1>2, <1>3, SeqEqual
<1>. QED
  BY <1>4 DEF a, b

(* A step of put that the producer w takes keeps the invariant. *)
LEMMA PutKeepsInv ==
  ASSUME NEW w, Producers = {w}, Inv(w), Put(w)
  PROVE  Inv(w)'
<1>. USE PositionTypes
<1>1. CASE PutLoad(w)
  <2>. USE <1>1 DEF PutLoad, ring, putV, getV, Inv
  <2>1. TypeOK'
    BY MaskInRing DEF TypeOK
  <2>2. Producer(w)'
    BY DEF TypeOK, Producer
  <2>3. Positions' /\ Consumer(w)' /\ Held(w)' /\ InOrder(w)'
    BY DEF Positions, Consumer, Held, InOrder
  <2>4. Placed(w)'
    BY DEF Placed, Stored, TypeOK
  <2>. QED
    BY <2>1, <2>2, <2>3, <2>4
<1>2. CASE PutWait(w)
  <2>. USE <1>2 DEF PutWait, ring, putV, getV, Inv
  <2>1. TypeOK'
    BY DEF TypeOK
  <2>2. Producer(w)'
    BY DEF TypeOK, Producer, Positions, Full
  <2>3. Positions' /\ Consumer(w)' /\ Held(w)' /\ InOrder(w)'
    BY DEF Positions, Consumer, Held, InOrder
  <2>4. Placed(w)'
    BY DEF Placed, Stored, TypeOK
  <2>. QED
    BY <2>1, <2>2, <2>3, <2>4
<1>3. CASE PutStore(w)
  <2>. USE <1>3 DEF PutStore, putV, getV, Inv
  <2>. DEFINE t == Slot(Mask(writePos))
  <2>0. /\ t \in Slots
        /\ count[w] = writePos + 1 /\ putPos[w] = Mask(writePos)
        /\ writePos < readPos + (Capacity - 1)
        /\ pointers' = [pointers EXCEPT ![t] = Item(w, writePos + 1)]
        /\ putPc' = [putPc EXCEPT ![w] = "advance"]
        /\ UNCHANGED <<writePos, readPos, putPos, count>>
    BY SlotInRing, MaskInRing DEF Producer
  <2>1. TypeOK'
    BY <2>0, ItemType DEF TypeOK
  <2>2. Producer(w)'
    BY <2>0 DEF TypeOK, Producer
  <2>3. Positions' /\ Consumer(w)' /\ InOrder(w)'
    BY <2>0 DEF Positions, Consumer, InOrder
  <2>4. Held(w)'
    <3>. SUFFICES ASSUME NEW i \in readPos .. writePos - 1
                  PROVE  pointers'[Slot(Mask(i))] = Item(w, i + 1)
      BY <2>0 DEF Held
    <3>1. Mask(i) # Mask(writePos)
      BY <2>0, MaskDistinct
    <3>2. /\ Slot(Mask(i)) # t
          /\ Slot(Mask(i)) \in Slots
      BY <3>1, MaskInRing, SlotInjective, SlotInRing
    <3>3. pointers[Slot(Mask(i))] = Item(w, i + 1)
      BY DEF Held
    <3>. QED
      BY <3>2, <3>3, <2>0 DEF TypeOK
  <2>5. Placed(w)'
    <3>. SUFFICES ASSUME NEW s \in Slots, pointers'[s] # NULL
                  PROVE  \E i \in 0 .. writePos : /\ pointers'[s] = Item(w, i + 1)
                                                  /\ s = Slot(Mask(i))
      BY <2>0 DEF Placed, Stored, TypeOK
    <3>1. CASE s = t
      BY <3>1, <2>0 DEF TypeOK
    <3>2. CASE s # t
      <4>1. pointers'[s] = pointers[s]
        BY <3>2, <2>0 DEF TypeOK
      <4>2. PICK i \in 0 .. writePos - 1 : /\ pointers[s] = Item(w, i + 1)
                                           /\ s = Slot(Mask(i))
        BY <4>1 DEF Placed, Stored
      <4>. QED
        BY <4>1, <4>2
    <3>. QED
      BY <3>1, <3>2
  <2>. QED
    BY <2>1, <2>2, <2>3, <2>4, <2>5
<1>4. CASE PutAdvance(w)
  <2>. USE <1>4 DEF PutAdvance, putV, getV, Inv
  <2>1. TypeOK'
    BY DEF TypeOK
  <2>2. Producer(w)'
    BY DEF TypeOK, Producer
  <2>3. Positions' /\ Consumer(w)' /\ InOrder(w)'
    BY DEF Positions, Consumer, InOrder, Producer
  <2>4. Held(w)'
    BY DEF Held, Producer
  <2>5. Placed(w)'
    BY DEF Placed, Stored, TypeOK
  <2>. QED
    BY <2>1, <2>2, <2>3, <2>4, <2>5
<1>. QED
  BY <1>1, <1>2, <1>3, <1>4 DEF Put

(* A step of get keeps the invariant. *)
LEMMA GetKeepsInv ==
  ASSUME NEW w, Producers = {w}, Inv(w), Get
  PROVE  Inv(w)'
<1>. USE PositionTypes
<1>1. CASE GetLoad
  <2>. USE <1>1 DEF GetLoad, ring, putV, Inv
  <2>1. TypeOK'
    BY MaskInRing DEF TypeOK
  <2>2. Consumer(w)'
    BY DEF Consumer
  <2>3. Positions' /\ Producer(w)' /\ Held(w)' /\ Placed(w)' /\ InOrder(w)'
    BY DEF Positions, Producer, Held, Placed, Stored, InOrder
  <2>. QED
    BY <2>1, <2>2, <2>3
<1>2. CASE GetCheck
  <2>. USE <1>2 DEF GetCheck, ring, putV, Inv
  <2>1. TypeOK'
    BY DEF TypeOK
  <2>2. Consumer(w)'
    BY DEF Consumer, Positions, Empty
  <2>3. Positions' /\ Producer(w)' /\ Held(w)' /\ Placed(w)' /\ InOrder(w)'
    BY DEF Positions, Producer, Held, Placed, Stored, InOrder
  <2>. QED
    BY <2>1, <2>2, <2>3
<1>3. CASE GetRead
  <2>. USE <1>3 DEF GetRead, ring, putV, Inv
  <2>1. TypeOK'
    BY SlotInRing DEF TypeOK
  <2>2. Consumer(w)'
    BY DEF Consumer, Held
  <2>3. Positions' /\ Producer(w)' /\ Held(w)' /\ Placed(w)' /\ InOrder(w)'
    BY DEF Positions, Producer, Held, Placed, Stored, InOrder
  <2>. QED
    BY <2>1, <2>2, <2>3
<1>4. CASE GetAdvance
  <2>. USE <1>4 DEF GetAdvance, putV, Inv
  <2>0. /\ readPos' = readPos + 1 /\ writePos' = writePos
        /\ readPos < writePos
        /\ getData = Item(w, readPos + 1)
        /\ readPos + 1 \in 1 .. MaxPuts
    BY DEF Consumer, Producer
  <2>1. received' = Append(received, Item(w, readPos + 1)) /\ Item(w, readPos + 1) \in Items
    BY <2>0, ItemType
  <2>2. TypeOK'
    BY <2>0, <2>1 DEF TypeOK
  <2>3. Positions' /\ Producer(w)' /\ Consumer(w)' /\ Held(w)' /\ Placed(w)'
    BY <2>0 DEF Positions, Producer, Consumer, Held, Placed, Stored
  <2>4. InOrder(w)'
    <3>1. received \in Seq(Items) /\ received = [n \in 1 .. readPos |-> Item(w, n)]
      BY DEF TypeOK, InOrder
    <3>2. Len(received) = readPos
      BY <3>1
    <3>3. readPos \in Nat
      BY DEF Inv
    <3>4. received' = [n \in 1 .. readPos + 1 |->
                         IF n = readPos + 1 THEN Item(w, readPos + 1) ELSE received[n]]
      BY ONLY <3>1, <3>2, <3>3, <2>1, AppendAsFunction
    <3>5. received' = [n \in 1 .. readPos + 1 |-> Item(w, n)]
      BY ONLY <3>1, <3>3, <3>4
    <3>. QED
      BY <3>5, <2>0 DEF InOrder
  <2>. QED
    BY <2>2, <2>3, <2>4
<1>. QED
  BY <1>1, <1>2, <1>3, <1>4 DEF Get

(* The invariant holds in every state of a ring with one producer. *)
THEOREM Invariance == ASSUME NEW w, Producers = {w} PROVE Spec => []Inv(w)
<1>1. Init => Inv(w)
  BY InvInit
<1>2. Inv(w) /\ [Next]_vars => Inv(w)'
  <2>. SUFFICES ASSUME Inv(w), [Next]_vars PROVE Inv(w)'
    OBVIOUS
  <2>1. CASE Get
    BY <2>1, GetKeepsInv
  <2>2. CASE \E p \in Producers : Put(p)
    BY <2>2, PutKeepsInv
  <2>3. CASE UNCHANGED vars
    BY <2>3 DEF vars, ring, putV, getV, Inv, TypeOK, Positions, Producer, Consumer, Held,
                Placed, Stored, InOrder
  <2>. QED
    BY <2>1, <2>2, <2>3 DEF Next
<1>. QED
  BY <1>1, <1>2, PTL DEF Spec
-----------------------------------------------------------------------------
(* What follows from the invariant. *)

(* Put and get keep every variable in its type, for one producer.          *)
THEOREM TypeCorrect == ASSUME NEW w, Producers = {w} PROVE Spec => []TypeOK
<1>1. Inv(w) => TypeOK
  BY DEF Inv
<1>. QED
  BY <1>1, Invariance, PTL

(* The consumer is handed every pointer once and in the order of the puts. *)
THEOREM Delivery == ASSUME NEW w, Producers = {w} PROVE Spec => []DeliveredInOrder
<1>1. Inv(w) => DeliveredInOrder
  <2>. SUFFICES ASSUME Inv(w) PROVE DeliveredInOrder
    OBVIOUS
  <2>1. readPos \in Nat /\ received = [n \in 1 .. readPos |-> Item(w, n)]
    BY PositionTypes DEF Inv, InOrder
  <2>2. \A i, j \in DOMAIN received : received[i] = received[j] => i = j
    BY <2>1, ItemDistinct
  <2>3. ASSUME NEW i \in DOMAIN received, NEW n \in 1 .. received[i][2] - 1
        PROVE  \E j \in 1 .. i - 1 : received[j] = Item(received[i][1], n)
    <3>1. i \in 1 .. readPos /\ received[i][1] = w /\ received[i][2] = i
      BY <2>1 DEF Item
    <3>2. n \in 1 .. i - 1 /\ received[n] = Item(w, n)
      BY <2>1, <2>3, <3>1
    <3>. QED
      BY <3>1, <3>2
  <2>. QED
    BY <2>2, <2>3 DEF DeliveredInOrder
<1>. QED
  BY <1>1, Invariance, PTL

(* A slot that a put writes over holds nothing, or a pointer the consumer  *)
(* has been handed: two positions that share a slot are a round apart, and *)
(* the wait of put keeps less than a round between writer and reader.      *)
THEOREM NotCovered == ASSUME NEW w, Producers = {w} PROVE Spec => WriteNotCovered
<1>1. Inv(w) /\ [Next]_vars =>
        [\A s \in Slots : pointers'[s] # pointers[s] =>
           pointers[s] = NULL \/ WasRead(pointers[s])]_vars
  <2>. SUFFICES ASSUME Inv(w), [Next]_vars, NEW s \in Slots, pointers'[s] # pointers[s],
                       pointers[s] # NULL
                PROVE  WasRead(pointers[s])
    BY Zenon
  <2>1. PutStore(w)
    BY DEF Next, vars, ring, putV, getV, Put, PutLoad, PutWait, PutAdvance,
           Get, GetLoad, GetCheck, GetRead, GetAdvance
  <2>2. /\ writePos \in Nat /\ readPos \in Nat
        /\ writePos < readPos + (Capacity - 1) /\ Capacity \in Nat
        /\ s = Slot(Mask(writePos))
    BY <2>1, PositionTypes DEF PutStore, Inv, TypeOK, Producer
  <2>3. PICK i \in 0 .. writePos - 1 : pointers[s] = Item(w, i + 1) /\ s = Slot(Mask(i))
    BY <2>1 DEF Inv, Placed, Stored, PutStore
  <2>4. Mask(i) = Mask(writePos)
    <3>1. Mask(i) \in Slots /\ Mask(writePos) \in Slots
      BY <2>2, MaskInRing
    <3>2. Slot(Mask(i)) = Slot(Mask(writePos))
      BY <2>2, <2>3
    <3>. QED
      BY <3>1, <3>2, SlotInjective
  <2>5. writePos >= i + Capacity
    BY <2>2, <2>3, <2>4, MaskDistinct
  <2>6. i + 1 \in 1 .. readPos
    BY <2>2, <2>3, <2>5
  <2>. QED
    BY <2>2, <2>3, <2>6 DEF Inv, InOrder, WasRead
<1>. QED
  BY <1>1, Invariance, PTL DEF Spec, WriteNotCovered
-----------------------------------------------------------------------------
(* The ring refines the queue. *)

(* What the queue of the refinement holds, position by position, and that  *)
(* the completed puts of the only producer are the positions written.      *)
Mapped(w) ==
  /\ Unread = [n \in 1 .. writePos - readPos |-> Item(w, readPos + n)]
  /\ Unread \in Seq(Items)
  /\ Len(Unread) = writePos - readPos
  /\ Completed = [p \in Producers |-> writePos]

LEMMA InvMapped == ASSUME NEW w, Producers = {w} PROVE Inv(w) => Mapped(w)
<1>. SUFFICES ASSUME Inv(w) PROVE Mapped(w)
  OBVIOUS
<1>1. /\ writePos \in Nat /\ readPos \in Nat /\ writePos - readPos \in Nat
      /\ writePos <= MaxPuts /\ MaxPuts \in Nat
  BY PositionTypes DEF Inv, Positions, Producer
<1>2. ASSUME NEW n \in 1 .. writePos - readPos
      PROVE  /\ pointers[Slot(Mask(readPos + n - 1))] = Item(w, readPos + n)
             /\ Item(w, readPos + n) \in Items
  <2>1. /\ readPos + n - 1 \in readPos .. writePos - 1
        /\ readPos + n - 1 + 1 = readPos + n
        /\ readPos + n \in 1 .. MaxPuts
    BY <1>1
  <2>. QED
    BY <2>1, ItemType DEF Inv, Held
<1>3. Completed = [p \in Producers |-> writePos]
  BY PositionTypes DEF Completed, Inv, Producer
<1>4. Unread = [n \in 1 .. writePos - readPos |-> Item(w, readPos + n)]
  BY <1>2 DEF Unread
<1>5. Unread \in Seq(Items) /\ Len(Unread) = writePos - readPos
  <2>. DEFINE k == writePos - readPos  f(n) == Item(w, readPos + n)
  <2>1. k \in Nat /\ (\A n \in 1 .. k : f(n) \in Items) /\ Unread = [n \in 1 .. k |-> f(n)]
    BY <1>1, <1>2, <1>4
  <2>. HIDE DEF k, f
  <2>2. Unread \in Seq(Items) /\ Len(Unread) = k
    BY <2>1
  <2>. QED
    BY <2>2 DEF k
<1>. QED
  BY <1>3, <1>4, <1>5 DEF Mapped

(* The same in the state after a step. *)
LEMMA InvMappedNext == ASSUME NEW w, Producers = {w} PROVE Inv(w)' => Mapped(w)'
  BY InvMapped, PTL

(* The ring begins as an empty queue. *)
LEMMA QueueInit ==
  ASSUME NEW w, Producers = {w}, Init
  PROVE  Queue!Init
<1>1. Inv(w)
  BY InvInit
<1>2. Unread = << >> /\ received = << >> /\ Completed = [p \in Producers |-> 0]
  BY <1>1, InvMapped DEF Init, Mapped
<1>. QED
  BY <1>2 DEF Queue!Init

(* PutAdvance is the step at which a put takes effect. *)
LEMMA AdvancePuts ==
  ASSUME NEW w, Producers = {w}, Inv(w), Inv(w)', PutAdvance(w)
  PROVE  Queue!Put(w)
<1>1. /\ writePos \in Nat /\ readPos \in Nat /\ readPos <= writePos
      /\ writePos < readPos + (Capacity - 1) /\ Capacity \in Nat
      /\ writePos' = writePos + 1 /\ readPos' = readPos /\ received' = received
  BY PositionTypes DEF PutAdvance, Inv, Positions, Producer
<1>. DEFINE k == writePos - readPos
<1>2. /\ Unread = [n \in 1 .. k |-> Item(w, readPos + n)]
      /\ Unread \in Seq(Items) /\ Len(Unread) = k
      /\ Completed = [p \in Producers |-> writePos]
  BY InvMapped DEF Mapped
<1>3. /\ Unread' = [n \in 1 .. k + 1 |-> Item(w, readPos + n)]
      /\ Completed' = [p \in Producers |-> writePos + 1]
  <2>1. writePos' - readPos' = k + 1
    BY <1>1
  <2>2. /\ Unread' = [n \in 1 .. writePos' - readPos' |-> Item(w, readPos' + n)]
        /\ Completed' = [p \in Producers |-> writePos']
    BY InvMappedNext DEF Mapped
  <2>. QED
    BY <2>1, <2>2, <1>1
<1>4. Item(w, writePos + 1) \in Items
  BY <1>1, ItemType, PositionTypes DEF Inv, Producer, PutAdvance
<1>5. Unread' = Append(Unread, Item(w, writePos + 1))
  <2>1. k \in Nat
    BY <1>1
  <2>2. Append(Unread, Item(w, writePos + 1)) =
          [n \in 1 .. k + 1 |-> IF n = k + 1 THEN Item(w, writePos + 1) ELSE Unread[n]]
    BY <2>1, <1>2, <1>4, AppendAsFunction
  <2>3. \A n \in 1 .. k + 1 :
          (IF n = k + 1 THEN Item(w, writePos + 1) ELSE Unread[n]) = Item(w, readPos + n)
    BY <1>1, <1>2
  <2>. QED
    BY <2>2, <2>3, <1>3
<1>6. Len(Unread) < Capacity - 1
  BY <1>1, <1>2
<1>7. Completed' = [Completed EXCEPT ![w] = @ + 1] /\ Completed[w] = writePos
  BY <1>1, <1>2, <1>3
<1>. QED
  BY <1>1, <1>5, <1>6, <1>7 DEF Queue!Put, Queue!Item, Item

(* GetAdvance is the step at which a get takes effect. *)
LEMMA AdvanceGets ==
  ASSUME NEW w, Producers = {w}, Inv(w), Inv(w)', GetAdvance
  PROVE  Queue!Get
<1>1. /\ writePos \in Nat /\ readPos \in Nat /\ readPos < writePos
      /\ writePos' = writePos /\ readPos' = readPos + 1
      /\ getData = Item(w, readPos + 1) /\ getData # NULL
      /\ received' = Append(received, getData)
      /\ UNCHANGED <<putPc, count>>
  BY PositionTypes, ItemType DEF GetAdvance, putV, Inv, Positions, Producer, Consumer
<1>. DEFINE k == writePos - readPos
<1>2. /\ Unread = [n \in 1 .. k |-> Item(w, readPos + n)]
      /\ Unread \in Seq(Items) /\ Len(Unread) = k
  BY InvMapped DEF Mapped
<1>3. Unread' = [n \in 1 .. k - 1 |-> Item(w, readPos + 1 + n)]
  BY <1>1, InvMappedNext DEF Mapped
<1>4. k \in Nat /\ k >= 1 /\ Unread # << >> /\ Head(Unread) = getData
  BY <1>1, <1>2
<1>5. Unread' = Tail(Unread)
  <2>1. Tail(Unread) = [n \in 1 .. k - 1 |-> Unread[n + 1]]
    BY <1>2, <1>4
  <2>2. \A n \in 1 .. k - 1 : Unread[n + 1] = Item(w, readPos + 1 + n)
    BY <1>1, <1>2, <1>4
  <2>. QED
    BY <2>1, <2>2, <1>3
<1>6. Completed' = Completed
  BY <1>1 DEF Completed
<1>. QED
  BY <1>1, <1>4, <1>5, <1>6 DEF Queue!Get

(* With one producer the ring is a bounded first-in first-out queue: it    *)
(* loses, repeats and reorders nothing, and holds Capacity - 1 pointers.   *)
THEOREM Refinement == ASSUME NEW w, Producers = {w} PROVE Spec => ImplementsQueue
<1>1. Init => Queue!Init
  BY QueueInit
<1>2. Inv(w) /\ Inv(w)' /\ [Next]_vars => [Queue!Next]_(Queue!qvars)
  <2>. SUFFICES ASSUME Inv(w), Inv(w)', [Next]_vars PROVE [Queue!Next]_(Queue!qvars)
    OBVIOUS
  <2>. USE DEF Queue!qvars
  <2>1. CASE PutAdvance(w)
    BY <2>1, AdvancePuts DEF Queue!Next
  <2>2. CASE GetAdvance
    BY <2>2, AdvanceGets DEF Queue!Next
  <2>3. ASSUME UNCHANGED <<writePos, readPos, received>>
        PROVE  UNCHANGED <<Unread, received, Completed>>
    BY <2>3, InvMapped, InvMappedNext DEF Mapped
  <2>4. ~PutAdvance(w) /\ ~GetAdvance => UNCHANGED <<writePos, readPos, received>>
    BY DEF Next, vars, ring, putV, getV, Put, PutLoad, PutWait, PutStore,
           Get, GetLoad, GetCheck, GetRead
  <2>. QED
    BY <2>1, <2>2, <2>3, <2>4
<1>. QED
  BY <1>1, <1>2, Invariance, PTL DEF Spec, ImplementsQueue, Queue!Spec
=============================================================================
