------------------------------ MODULE PipeRing ------------------------------
(***************************************************************************)
(* The lock-free ring that carries pointers between the threads of a data  *)
(* node (src/src/lib/pipeRing.hpp).  writePos and readPos are sequentially *)
(* consistent atomics that only ever grow; the slots are plain memory.  A  *)
(* step of a thread touches at most one location that another thread       *)
(* writes when one thread puts and one gets, so the actions interleave as  *)
(* finely as the code does.                                                *)
(*                                                                         *)
(* `&' with capacity_ - 1 and with (capacity_ >> 3) - 1 are % Capacity and *)
(* % Rows: the constructor refuses a capacity that is no power of two.     *)
(* The 64-bit positions never come near their limit and are naturals.      *)
(***************************************************************************)
EXTENDS Naturals, Sequences

CONSTANTS Producers, \* the threads that call put
          Rows,      \* capacity_ >> 3
          MaxPuts,   \* bound: how many pointers one producer puts
          NULL       \* nullptr

ASSUME RingAssumption == /\ Rows \in Nat \ {0}
                         /\ MaxPuts \in Nat
                         /\ NULL \notin Producers \X Nat

Capacity == 8 * Rows

VARIABLES writePos, readPos, pointers, \* the ring
          putPc, putPos, count,        \* a producer: where it is in put, its local
                                       \* pos, the number of puts it has begun
          getPc, getPos, getData,      \* the consumer inside get
          received                     \* history: what get handed to its caller

ring  == <<writePos, readPos, pointers>>
putV  == <<putPc, putPos, count>>
getV  == <<getPc, getPos, getData>>
vars  == <<ring, putV, getV, received>>

(* The item a producer's n-th put carries: signals are freshly allocated,  *)
(* so the pointers in flight are distinct.                                 *)
Item(p, n) == <<p, n>>

(* Faulty variant: masked with capacity_ instead of capacity_ - 1. *)
MaskTooWide(pos) == pos % (Capacity + 1)

(* pos &= this->capacity_ - 1 *)
Mask(pos) == pos % Capacity

(* Faulty variant: neighbouring runs overlap in a slot. *)
SlotOverlapping(pos) == (pos % Rows) * 7 + pos \div Rows

(* real_pos: consecutive positions are spread over eight runs of Rows.     *)
Slot(pos) == (pos % Rows) * 8 + pos \div Rows

Slots == 0 .. Capacity - 1

Init == /\ writePos = 0
        /\ readPos = 0
        /\ pointers = [s \in Slots |-> NULL]
        /\ putPc = [p \in Producers |-> "idle"]
        /\ putPos = [p \in Producers |-> 0]
        /\ count = [p \in Producers |-> 0]
        /\ getPc = "idle"
        /\ getPos = 0
        /\ getData = NULL
        /\ received = << >>
-----------------------------------------------------------------------------
(* bool put(void* data) *)

(* u_int64_t pos = this->writePos; pos &= this->capacity_ - 1; *)
PutLoad(p) ==
  /\ putPc[p] = "idle"
  /\ count[p] < MaxPuts
  /\ count' = [count EXCEPT ![p] = @ + 1]
  /\ putPos' = [putPos EXCEPT ![p] = Mask(writePos)]
  /\ putPc' = [putPc EXCEPT ![p] = "wait"]
  /\ UNCHANGED <<ring, getV, received>>

(* Faulty variant: the sign is wrong, and a slot too many is filled. *)
FullTooLate == writePos = Capacity + 1 + readPos

(* Faulty variant: the reader's progress is not looked at. *)
FullForEver == writePos = Capacity - 1

(* The condition of the spinning loop; a test that fails changes nothing.  *)
Full == writePos = Capacity - 1 + readPos

PutWait(p) ==
  /\ putPc[p] = "wait"
  /\ ~Full
  /\ putPc' = [putPc EXCEPT ![p] = "store"]
  /\ UNCHANGED <<ring, putPos, count, getV, received>>

PutStore(p) ==
  /\ putPc[p] = "store"
  /\ pointers' = [pointers EXCEPT ![Slot(putPos[p])] = Item(p, count[p])]
  /\ putPc' = [putPc EXCEPT ![p] = "advance"]
  /\ UNCHANGED <<writePos, readPos, putPos, count, getV, received>>

PutAdvance(p) ==
  /\ putPc[p] = "advance"
  /\ writePos' = writePos + 1
  /\ putPc' = [putPc EXCEPT ![p] = "idle"]
  /\ UNCHANGED <<readPos, pointers, putPos, count, getV, received>>
-----------------------------------------------------------------------------
(* void* get() *)

(* u_int64_t pos = this->readPos; pos &= this->capacity_ - 1; *)
GetLoad ==
  /\ getPc = "idle"
  /\ getPos' = Mask(readPos)
  /\ getPc' = "check"
  /\ UNCHANGED <<ring, putV, getData, received>>

(* Faulty variant: one position too far. *)
EmptyTooLate == writePos + 1 = readPos

Empty == writePos = readPos

(* An empty ring answers nullptr, which the caller skips. *)
GetCheck ==
  /\ getPc = "check"
  /\ getPc' = IF Empty THEN "idle" ELSE "read"
  /\ UNCHANGED <<ring, putV, getPos, getData, received>>

GetRead ==
  /\ getPc = "read"
  /\ getData' = pointers[Slot(getPos)]
  /\ getPc' = "advance"
  /\ UNCHANGED <<ring, putV, getPos, received>>

(* readPos++ and return; the caller takes a null pointer for "no signal".  *)
GetAdvance ==
  /\ getPc = "advance"
  /\ readPos' = readPos + 1
  /\ received' = IF getData = NULL THEN received ELSE Append(received, getData)
  /\ getPc' = "idle"
  /\ UNCHANGED <<writePos, pointers, putV, getPos, getData>>
-----------------------------------------------------------------------------
Put(p) == PutLoad(p) \/ PutWait(p) \/ PutStore(p) \/ PutAdvance(p)
Get    == GetLoad \/ GetCheck \/ GetRead \/ GetAdvance

Next == Get \/ \E p \in Producers : Put(p)

Spec == Init /\ [][Next]_vars

(* Both threads run their loops until the program ends and the scheduler   *)
(* runs each of them; nothing says that a producer begins another put.     *)
Fairness == /\ WF_vars(Get)
            /\ \A p \in Producers : WF_vars(PutWait(p) \/ PutStore(p) \/ PutAdvance(p))

FairSpec == Spec /\ Fairness
-----------------------------------------------------------------------------
(* Every variable keeps its type: positions count, slots hold pointers, and *)
(* each thread is at one of the steps of put or get.                        *)
Items == {Item(p, n) : p \in Producers, n \in 1 .. MaxPuts}

TypeOK == /\ writePos \in Nat
          /\ readPos \in Nat
          /\ pointers \in [Slots -> Items \cup {NULL}]
          /\ putPc \in [Producers -> {"idle", "wait", "store", "advance"}]
          /\ putPos \in [Producers -> Slots]
          /\ count \in [Producers -> 0 .. MaxPuts]
          /\ getPc \in {"idle", "check", "read", "advance"}
          /\ getPos \in Slots
          /\ getData \in Items \cup {NULL}
          /\ received \in Seq(Items)

(* The consumer is handed every signal of a producer once, in the order in *)
(* which they were put, none left out (put, get).                          *)
DeliveredInOrder ==
  /\ \A i, j \in DOMAIN received : received[i] = received[j] => i = j
  /\ \A i \in DOMAIN received : \A n \in 1 .. received[i][2] - 1 :
        \E j \in 1 .. i - 1 : received[j] = Item(received[i][1], n)

(* "write Not covered, read covered": a slot is written over only when     *)
(* what it held has been read (put's wait, and the slot permutation).      *)
WasRead(x) == \E i \in DOMAIN received : received[i] = x

WriteNotCovered ==
  [][\A s \in Slots : pointers'[s] # pointers[s] =>
        pointers[s] = NULL \/ WasRead(pointers[s])]_vars

(* The ring implements a bounded first-in first-out queue of Capacity - 1  *)
(* pointers: a put takes effect when writePos grows, a get when readPos    *)
(* does, and between the two the queue is what the slots from readPos to   *)
(* writePos hold.                                                          *)
Unread == [i \in 1 .. writePos - readPos |->
             pointers[Slot(Mask(readPos + i - 1))]]

Completed == [p \in Producers |->
                IF putPc[p] = "idle" THEN count[p] ELSE count[p] - 1]

Queue == INSTANCE BoundedQueue
           WITH Bound <- Capacity - 1, buffer <- Unread, sent <- Completed

ImplementsQueue == Queue!Spec

(* A put that has begun is completed and its pointer reaches the consumer, *)
(* however full the ring was: neither thread can wait for the other for    *)
(* ever.                                                                   *)
EveryPutReceived ==
  \A p \in Producers : \A n \in 1 .. MaxPuts :
    (count[p] >= n) ~> WasRead(Item(p, n))
=============================================================================
