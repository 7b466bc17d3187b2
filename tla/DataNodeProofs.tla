--------------------------- MODULE DataNodeProofs ---------------------------
(***************************************************************************)
(* Proofs about the data node, first about its workers and flusher alone   *)
(* (RegionWorker), in this order:                                          *)
(*   - types, the threshold of a memtable and the time range of a block,   *)
(*     for any number of workers and regions and any ring between workers  *)
(*     and flusher (RegionInv);                                            *)
(*   - what RowsIn, a recursive function, computes (by induction);         *)
(*   - the pipe to the flusher as a queue, with one worker (RingInv), and  *)
(*     what each handler does to the contexts and the log of a region;     *)
(*   - the data node is a region store (StoreInv, StoreRefined);           *)
(*   - the SST of a region leads to all its rows (CreateInv, IndexInv,     *)
(*     IndexKeptComplete);                                                 *)
(*   - the disk keeps the order of the rows (OrderInv, DiskKeptInOrder);   *)
(* then about the whole node: the way of a signal from the server to a     *)
(* worker, for any number of workers and regions and any lengths of pipes  *)
(* and lines (NodeInv), and the workers behind it (FeedsWorkersAlways).    *)
(***************************************************************************)
EXTENDS DataNode, SequenceTheorems, WellFoundedInduction, TLAPS

-----------------------------------------------------------------------------
(* Induction over the natural numbers, and what it says of functions       *)
(* defined by recursion.  A property is stated as the set of numbers that  *)
(* have it, and the step of a recursion is a function, so that each use    *)
(* cites a fact about sets.                                                *)

(* A set of natural numbers has a least one. *)
LEMMA Least ==
  ASSUME NEW T, T \subseteq Nat, T # {}
  PROVE  \E x \in T : \A y \in T : x <= y
<1> DEFINE R == {p \in Nat \X Nat : p[1] < p[2]}
<1>1. IsWellFoundedOn(R, Nat)
  BY NatLessThanWellFounded DEF OpToRel
<1>2. \A x, y \in Nat : y < x => <<y, x>> \in R
  OBVIOUS
<1> HIDE DEF R
<1>3. PICK x \in T : \A y \in T : ~(<<y, x>> \in R)
  BY <1>1, WFMin
<1>4. \A y \in T : ~(y < x)
  BY <1>2, <1>3
<1> QED
  BY <1>4

(* What holds of 0 and of the successor of each number it holds of, holds  *)
(* of all of them.                                                         *)
LEMMA NatInSet ==
  ASSUME NEW S, 0 \in S, \A n \in Nat : n \in S => n + 1 \in S
  PROVE  \A n \in Nat : n \in S
<1> DEFINE T == {n \in Nat : n \notin S}
<1> SUFFICES ASSUME T # {} PROVE FALSE
  OBVIOUS
<1>1. T \subseteq Nat
  OBVIOUS
<1>2. PICK x \in T : \A y \in T : x <= y
  <2> HIDE DEF T
  <2> QED
    BY <1>1, Least
<1>3. x # 0
  OBVIOUS
<1>4. x - 1 \in Nat /\ x - 1 \notin T /\ (x - 1) + 1 = x
  BY <1>2, <1>3
<1> QED
  BY <1>4

(* f is what recursion over 1 .. n makes of its first value c and its step.*)
Recurs(f, n, c, step) ==
  f = [i \in 0 .. n |-> IF i = 0 THEN c ELSE step[<<i, f[i - 1]>>]]

(* There is such a function. *)
LEMMA RecursionDefines ==
  ASSUME NEW n \in Nat, NEW T, NEW c \in T, NEW step \in [(1 .. n) \X T -> T]
  PROVE  \E f \in [0 .. n -> T] : Recurs(f, n, c, step)
<1> DEFINE Upto(m, f) == f[0] = c /\ \A i \in 1 .. m : f[i] = step[<<i, f[i - 1]>>]
           S == {m \in Nat : m <= n => \E f \in [0 .. m -> T] : Upto(m, f)}
<1>1. 0 \in S
  <2>1. [i \in 0 .. 0 |-> c] \in [0 .. 0 -> T] /\ Upto(0, [i \in 0 .. 0 |-> c])
    OBVIOUS
  <2> HIDE DEF Upto
  <2> QED
    BY <2>1
<1>2. ASSUME NEW m \in Nat, m \in S
      PROVE  m + 1 \in S
  <2> SUFFICES ASSUME m + 1 <= n
               PROVE  \E f \in [0 .. m + 1 -> T] : Upto(m + 1, f)
    OBVIOUS
  <2>1. PICK g \in [0 .. m -> T] : Upto(m, g)
    BY <1>2
  <2> DEFINE x == step[<<m + 1, g[m]>>]
             f == [i \in 0 .. m + 1 |-> IF i = m + 1 THEN x ELSE g[i]]
  <2>2. x \in T
    <3>1. m + 1 \in 1 .. n /\ g[m] \in T
      OBVIOUS
    <3> QED
      BY <3>1
  <2>3. f \in [0 .. m + 1 -> T]
    BY <2>2
  <2>4. /\ f[0] = g[0] /\ f[m + 1] = x
        /\ \A i \in 1 .. m : f[i] = g[i] /\ f[i - 1] = g[i - 1]
        /\ f[(m + 1) - 1] = g[m]
    OBVIOUS
  <2>5. \A i \in 1 .. m + 1 : i \in 1 .. m \/ i = m + 1
    OBVIOUS
  <2>6. Upto(m + 1, f)
    <3> HIDE DEF f
    <3> QED
      BY <2>1, <2>4, <2>5
  <2> QED
    BY <2>3, <2>6
<1>3. n \in S
  <2> HIDE DEF S
  <2> QED
    BY <1>1, <1>2, NatInSet
<1>4. PICK f \in [0 .. n -> T] : Upto(n, f)
  BY <1>3
<1>5. \A i \in 0 .. n : f[i] = IF i = 0 THEN c ELSE step[<<i, f[i - 1]>>]
  BY <1>4
<1> QED
  BY <1>5 DEF Recurs

(* g begins with c and goes on by the step up to n, as long as its values  *)
(* are in T.                                                               *)
Follows(g, n, T, c, step) ==
  /\ g[0] = c
  /\ \A i \in 1 .. n : g[i - 1] \in T => g[i] = step[<<i, g[i - 1]>>]

(* Then all of them are. *)
LEMMA RecursionType ==
  ASSUME NEW n \in Nat, NEW T, NEW c \in T, NEW step \in [(1 .. n) \X T -> T],
         NEW g, Follows(g, n, T, c, step)
  PROVE  \A i \in 0 .. n : g[i] \in T
<1> DEFINE S == {i \in Nat : i <= n => g[i] \in T}
<1>1. 0 \in S
  BY DEF Follows
<1>2. ASSUME NEW i \in Nat, i \in S
      PROVE  i + 1 \in S
  <2> SUFFICES ASSUME i + 1 <= n
               PROVE  g[i + 1] \in T
    OBVIOUS
  <2>1. g[i] \in T /\ i + 1 \in 1 .. n /\ (i + 1) - 1 = i
    BY <1>2
  <2>2. step[<<i + 1, g[i]>>] \in T
    BY <2>1
  <2> QED
    BY <2>1, <2>2 DEF Follows
<1>3. \A i \in Nat : i \in S
  <2> HIDE DEF S
  <2> QED
    BY <1>1, <1>2, NatInSet
<1> QED
  BY <1>3

-----------------------------------------------------------------------------
(* The rows reach from time lo to time hi. *)
Spans(rows, lo, hi) ==
  /\ \E i \in 1 .. Len(rows) : rows[i][2] = lo
  /\ \E i \in 1 .. Len(rows) : rows[i][2] = hi
  /\ \A i \in 1 .. Len(rows) : lo <= rows[i][2] /\ rows[i][2] <= hi

(* What is flushed has the range of its rows, or neither.                  *)
Spanned(s) == IF s.rows = << >> THEN s.start = MaxTime /\ s.end = 0
              ELSE Spans(s.rows, s.start, s.end)

(* A memtable is within the threshold, or beyond it by its columns and     *)
(* without a second row.                                                   *)
Bounded(mem) == \/ mem.used <= Threshold
                \/ Len(mem.rows) <= 1 /\ mem.used <= Threshold + Base

(* An empty memtable counts its columns and has no time range; any other   *)
(* has the range of its rows.                                              *)
Sound(mem) ==
  /\ Bounded(mem)
  /\ IF mem.rows = << >> THEN mem = NewMemtable ELSE Spans(mem.rows, mem.min, mem.max)

(* What is on its way to a worker. *)
Arriving ==
  /\ requests \in 0 .. MaxRequests
  /\ enginePipe \in [Workers -> Seq(Requested)]
  /\ \A w \in Workers : Len(enginePipe[w]) <= PipeBound

(* While a worker waits in a put, the region of the request it handles is  *)
(* open with a new memtable, and a row that waits is no larger than the    *)
(* threshold.                                                              *)
Waiting(w) == LET r == put[w].request.region IN
  /\ Spanned(put[w].signal)
  /\ Open(w, r) /\ regions[w][r].mem = NewMemtable
  /\ put[w].request.kind = "WRITE" => put[w].request.size <= Threshold

(* What a worker holds. *)
Held(w) ==
  /\ regions[w] \in [Regions -> Contexts \cup {None}]
  /\ closedRegions[w] \in [Regions -> Contexts \cup {None}]
  /\ dropingRegions[w] \in [Regions -> Contexts \cup {None}]
  /\ \A r \in Regions :
       /\ Open(w, r) => regions[w][r].mem # None /\ Sound(regions[w][r].mem)
       /\ Closed(w, r) => closedRegions[w][r].mem = None
  /\ put[w] \in Puts \cup {None}
  /\ put[w] # None => Waiting(w)

OfWorkers == /\ DOMAIN regions = Workers /\ DOMAIN closedRegions = Workers
             /\ DOMAIN dropingRegions = Workers /\ DOMAIN put = Workers

(* What is on its way to the disk, and what is there. *)
Flushed ==
  /\ slots \in [0 .. RingSize - 1 -> Signals \cup {None}]
  /\ \A i \in 0 .. RingSize - 1 : slots[i] # None => Spanned(slots[i])
  /\ writePos \in Nat /\ readPos \in Nat /\ readPos <= writePos
  /\ flushing \in Signals \cup {None}
  /\ flushing # None => Spanned(flushing)

Stored ==
  /\ files \in [Regions -> Seq(Blocks)]
  /\ \A r \in Regions : \A i \in 1 .. Len(files[r]) : Spanned(files[r][i])
  /\ metas \in [Regions -> Seq(Seq(Blocks))]
  /\ accepted \in [Regions -> Seq(RowSet)]

RegionInv == /\ Arriving /\ OfWorkers /\ Flushed /\ Stored
             /\ \A w \in Workers : Held(w)
-----------------------------------------------------------------------------
(* Covers, without a set of times. *)
LEMMA CoversSpans ==
  ASSUME NEW b, b.rows \in Seq(RowSet), Spanned(b)
  PROVE  Covers(b)
<1>1. DOMAIN b.rows = 1 .. Len(b.rows)
  OBVIOUS
<1> QED
  BY <1>1 DEF Spanned, Spans, Covers

(* What a request is. *)
LEMMA RequestedShape ==
  ASSUME NEW q \in Requested
  PROVE  /\ q.region \in Regions
         /\ q.kind = "WRITE" => q.id \in Ids /\ q.ts \in Times /\ q.size \in Sizes
<1>1. PICK id \in Ids : q \in RequestsWith(id)
  BY DEF Requested
<1>2. q.region \in Regions
  BY <1>1 DEF RequestsWith, Write, Admin
<1>3. q.kind = "WRITE" => q.id \in Ids /\ q.ts \in Times /\ q.size \in Sizes
  BY <1>1 DEF RequestsWith, Write, Admin
<1> QED
  BY <1>2, <1>3

(* A new memtable is one. *)
LEMMA NewShape == NewMemtable \in Memtables /\ NewMemtable # None
<1>1. NewMemtable \in Memtables
  BY WorkerAssumption DEF NewMemtable, Memtables
<1> QED
  BY <1>1, NoContextAssumption

(* A new memtable has no time range and counts its columns alone. *)
LEMMA NewSound == Sound(NewMemtable)
BY WorkerAssumption DEF Bounded, Sound, NewMemtable

(* A row has a time. *)
LEMMA RowShape ==
  ASSUME NEW row \in RowSet
  PROVE  row[2] \in Nat /\ row[2] < MaxTime
<1>1. PICK id \in Ids, ts \in Times : row = <<id, ts>>
  BY DEF RowSet, Row
<1>2. row[2] = ts
  BY <1>1
<1> QED
  BY <1>2, WorkerAssumption

(* The range of a row, and of one more row.                                *)
LEMMA OneSpans ==
  ASSUME NEW row \in RowSet
  PROVE  Spans(<<row>>, row[2], row[2])
BY RowShape DEF Spans

(* One more row widens the range to its time. *)
LEMMA AppendSpans ==
  ASSUME NEW rows \in Seq(RowSet), NEW row \in RowSet, NEW lo \in Nat, NEW hi \in Nat,
         Spans(rows, lo, hi),
         NEW low, low = (IF row[2] < lo THEN row[2] ELSE lo),
         NEW high, high = (IF row[2] > hi THEN row[2] ELSE hi)
  PROVE  Spans(Append(rows, row), low, high)
<1> DEFINE new == Append(rows, row)
           n == Len(rows)
<1>1. /\ n \in Nat /\ Len(new) = n + 1 /\ new[n + 1] = row
      /\ \A i \in 1 .. n : new[i] = rows[i] /\ rows[i][2] \in Nat
  BY RowShape
<1>2. row[2] \in Nat
  BY RowShape
<1> HIDE DEF new
<1>3. \E i \in 1 .. n + 1 : new[i][2] = low
  <2>1. PICK i \in 1 .. n : rows[i][2] = lo
    BY DEF Spans
  <2>2. i \in 1 .. n + 1 /\ n + 1 \in 1 .. n + 1 /\ new[i][2] = lo /\ new[n + 1][2] = row[2]
    BY <1>1, <2>1
  <2> QED
    BY <2>2
<1>4. \E i \in 1 .. n + 1 : new[i][2] = high
  <2>1. PICK i \in 1 .. n : rows[i][2] = hi
    BY DEF Spans
  <2>2. i \in 1 .. n + 1 /\ n + 1 \in 1 .. n + 1 /\ new[i][2] = hi /\ new[n + 1][2] = row[2]
    BY <1>1, <2>1
  <2> QED
    BY <2>2
<1>5. ASSUME NEW i \in 1 .. n + 1
      PROVE  low <= new[i][2] /\ new[i][2] <= high
  <2>1. CASE i = n + 1
    BY <1>1, <1>2, <2>1
  <2>2. CASE i \in 1 .. n
    <3>1. new[i][2] \in Nat /\ lo <= new[i][2] /\ new[i][2] <= hi
      BY <1>1, <2>2 DEF Spans
    <3> QED
      BY <1>2, <3>1
  <2> QED
    BY <1>1, <2>1, <2>2
<1>6. Spans(new, low, high)
  <2> HIDE DEF n
  <2> QED
    BY <1>1, <1>3, <1>4, <1>5 DEF Spans
<1> QED
  BY <1>6 DEF new

(* A row written: the memtable and its time range. *)
LEMMA WrittenShape ==
  ASSUME NEW mem \in Memtables, Sound(mem),
         NEW q, q.id \in Ids, q.ts \in Times, q.size \in Nat,
         mem.used + q.size <= Threshold \/ (mem = NewMemtable /\ q.size <= Threshold)
  PROVE  Written(mem, q) \in Memtables /\ Written(mem, q) # None /\ Sound(Written(mem, q))
<1> DEFINE new == Written(mem, q)
           row == Row(q.id, q.ts)
<1>1. row \in RowSet /\ row[2] = q.ts
  BY DEF Row, RowSet
<1>2. /\ mem.rows \in Seq(RowSet) /\ mem.used \in Nat /\ mem.min \in Nat /\ mem.max \in Nat
  BY DEF Memtables
<1>3. /\ new.rows = Append(mem.rows, row) /\ new.used = mem.used + q.size
      /\ new.min = (IF q.ts < mem.min THEN q.ts ELSE mem.min)
      /\ new.max = (IF q.ts > mem.max THEN q.ts ELSE mem.max)
  BY DEF Written
<1>4. new \in Memtables
  <2>1. /\ Append(mem.rows, row) \in Seq(RowSet) /\ mem.used + q.size \in Nat
        /\ (IF q.ts < mem.min THEN q.ts ELSE mem.min) \in Nat
        /\ (IF q.ts > mem.max THEN q.ts ELSE mem.max) \in Nat
    <3>1. q.ts \in Nat
      BY WorkerAssumption
    <3> HIDE DEF row
    <3> QED
      BY <1>1, <1>2, <3>1
  <2> QED
    BY <2>1 DEF Written, Memtables
<1>5. new.rows # << >>
  BY <1>1, <1>2, <1>3
<1>6. Spans(new.rows, new.min, new.max)
  <2>1. CASE mem.rows = << >>
    <3>1. mem.min = MaxTime /\ mem.max = 0
      BY <2>1 DEF Sound, NewMemtable
    <3>2. q.ts \in Nat /\ q.ts < MaxTime /\ MaxTime \in Nat
      BY WorkerAssumption
    <3>3. new.min = row[2] /\ new.max = row[2] /\ new.rows = <<row>>
      <4> HIDE DEF new, row
      <4> QED
        BY <1>1, <1>3, <2>1, <3>1, <3>2
    <3> QED
      BY <1>1, <3>3, OneSpans
  <2>2. CASE mem.rows # << >>
    <3>1. Spans(mem.rows, mem.min, mem.max)
      BY <2>2 DEF Sound
    <3> HIDE DEF new, row
    <3> QED
      BY <1>1, <1>2, <1>3, <3>1, AppendSpans
  <2> QED
    BY <2>1, <2>2
<1>7. Bounded(new)
  <2>1. new.used = mem.used + q.size /\ new.used \in Nat /\ Base \in Nat /\ Threshold \in Nat
    BY <1>2, <1>3, WorkerAssumption
  <2>2. CASE mem.used + q.size <= Threshold
    BY <2>1, <2>2 DEF Bounded
  <2>3. CASE mem = NewMemtable /\ q.size <= Threshold
    <3>1. mem.rows = << >> /\ mem.used = Base
      BY <2>3 DEF NewMemtable
    <3>2. Len(new.rows) = 1
      <4> HIDE DEF new, row
      <4> QED
        BY <1>1, <1>2, <1>3, <3>1
    <3> HIDE DEF new
    <3> QED
      BY <2>1, <2>3, <3>1, <3>2 DEF Bounded
  <2> QED
    BY <2>2, <2>3
<1>8. Sound(new)
  BY <1>5, <1>6, <1>7 DEF Sound
<1> QED
  BY <1>4, <1>8, NoContextAssumption

(* A frozen memtable, as a signal. *)
LEMMA SignalShape ==
  ASSUME NEW r \in Regions, NEW ctx \in Contexts, ctx.mem # None,
         Sound(ctx.mem)
  PROVE  Signal(r, ctx) \in Signals /\ Spanned(Signal(r, ctx))
BY DEF Signal, Signals, Contexts, Memtables, Spanned, Sound, NewMemtable
-----------------------------------------------------------------------------
(* Initially nothing is open and nothing written. *)
LEMMA RegionInit == Init => RegionInv
<1> SUFFICES ASSUME Init
             PROVE  RegionInv
  OBVIOUS
<1> USE DEF Init
<1>1. Arriving /\ OfWorkers
  BY WorkerAssumption DEF Arriving, OfWorkers
<1>2. Flushed /\ Stored
  BY DEF Flushed, Stored
<1>3. \A w \in Workers : Held(w)
  BY DEF Held, Open, Closed
<1> QED
  BY <1>1, <1>2, <1>3 DEF RegionInv

(* A signal is taken off the pipe of a worker that waits in no put.        *)
LEMMA TakeShape ==
  ASSUME Arriving, NEW w \in Workers, Take(w), enginePipe[w] # << >>
  PROVE  Arriving' /\ put[w] = None /\ Head(enginePipe[w]) \in Requested
<1>1. enginePipe[w] \in Seq(Requested) /\ \A v \in Workers : enginePipe[v] \in Seq(Requested)
  BY DEF Arriving
<1>2. /\ requests' = requests /\ put[w] = None
      /\ enginePipe' = [enginePipe EXCEPT ![w] = Tail(@)]
  BY DEF Take
<1>3. /\ Head(enginePipe[w]) \in Requested /\ Tail(enginePipe[w]) \in Seq(Requested)
      /\ Len(Tail(enginePipe[w])) = Len(enginePipe[w]) - 1 /\ Len(enginePipe[w]) \in Nat
  BY <1>1
<1>4. \A v \in Workers : Len(enginePipe[v]) <= PipeBound
  BY DEF Arriving
<1>5. enginePipe' \in [Workers -> Seq(Requested)]
  BY <1>2, <1>3 DEF Arriving
<1>6. \A v \in Workers : enginePipe'[v] = IF v = w THEN Tail(enginePipe[w]) ELSE enginePipe[v]
  BY <1>2 DEF Arriving
<1>7. Len(enginePipe'[w]) <= PipeBound
  <2>1. Len(enginePipe'[w]) = Len(enginePipe[w]) - 1 /\ Len(enginePipe[w]) <= PipeBound
    BY <1>3, <1>4, <1>6
  <2>2. PipeBound \in Nat
    BY WorkerAssumption
  <2> QED
    BY <1>3, <2>1, <2>2
<1>8. \A v \in Workers : Len(enginePipe'[v]) <= PipeBound
  BY <1>4, <1>6, <1>7
<1> QED
  BY <1>2, <1>3, <1>5, <1>8 DEF Arriving

(* A worker changes what it holds itself and nothing of another's.         *)
LEMMA OneWorker ==
  ASSUME OfWorkers, \A v \in Workers : Held(v), NEW w \in Workers,
         \A f \in {<<regions, regions'>>, <<closedRegions, closedRegions'>>,
                   <<dropingRegions, dropingRegions'>>, <<put, put'>>} :
           /\ DOMAIN f[2] = DOMAIN f[1]
           /\ \A v \in Workers : v # w => f[2][v] = f[1][v],
         Held(w)'
  PROVE  OfWorkers' /\ \A v \in Workers : Held(v)'
<1>1. OfWorkers'
  BY DEF OfWorkers
<1>2. ASSUME NEW v \in Workers, v # w
      PROVE  Held(v)'
  <2>1. /\ regions'[v] = regions[v] /\ closedRegions'[v] = closedRegions[v]
        /\ dropingRegions'[v] = dropingRegions[v] /\ put'[v] = put[v]
    BY <1>2
  <2> QED
    BY <2>1 DEF Held, Waiting, Open, Closed
<1> QED
  BY <1>1, <1>2

(* The context of an open region, and of one that is given a memtable.     *)
LEMMA OpenShape ==
  ASSUME NEW w \in Workers, Held(w), NEW r \in Regions, Open(w, r)
  PROVE  /\ regions[w][r] \in Contexts
         /\ regions[w][r].mem \in Memtables /\ regions[w][r].mem # None
         /\ Sound(regions[w][r].mem)
BY DEF Held, Open, Contexts

(* A worker gives an open region of its own another memtable. *)
LEMMA GivenMemtable ==
  ASSUME OfWorkers, NEW w \in Workers, Held(w), NEW r \in Regions, Open(w, r),
         NEW mem \in Memtables, Sound(mem),
         regions' = [regions EXCEPT ![w][r].mem = mem]
  PROVE  /\ DOMAIN regions' = Workers
         /\ \A v \in Workers : v # w => regions'[v] = regions[v]
         /\ regions'[w] \in [Regions -> Contexts \cup {None}]
         /\ Open(w, r)' /\ regions'[w][r].mem = mem
         /\ \A x \in Regions : Open(w, x)' => /\ regions'[w][x].mem # None
                                              /\ Sound(regions'[w][x].mem)
<1>1. regions[w] \in [Regions -> Contexts \cup {None}] /\ DOMAIN regions = Workers
  BY DEF Held, OfWorkers
<1>2. regions[w][r] \in Contexts
  BY OpenShape
<1> DEFINE ctx == [regions[w][r] EXCEPT !.mem = mem]
<1>3. ctx \in Contexts /\ ctx.mem = mem /\ ctx # None /\ mem # None
  <2>1. ctx \in Contexts /\ ctx.mem = mem
    BY <1>2 DEF Contexts
  <2> QED
    BY <2>1, NoContextAssumption
<1>4. regions' = [regions EXCEPT ![w] = [regions[w] EXCEPT ![r] = ctx]]
  BY <1>1
<1> HIDE DEF ctx
<1>5. /\ regions'[w] = [regions[w] EXCEPT ![r] = ctx] /\ DOMAIN regions' = Workers
      /\ \A v \in Workers : v # w => regions'[v] = regions[v]
  BY <1>1, <1>4
<1>6. /\ regions'[w] \in [Regions -> Contexts \cup {None}] /\ regions'[w][r] = ctx
      /\ \A x \in Regions : x # r => regions'[w][x] = regions[w][x]
  BY <1>1, <1>3, <1>5
<1>7. ASSUME NEW x \in Regions, Open(w, x)'
      PROVE  regions'[w][x].mem # None /\ Sound(regions'[w][x].mem)
  BY <1>3, <1>6, <1>7 DEF Held, Open
<1> QED
  BY <1>3, <1>5, <1>6, <1>7 DEF Open
-----------------------------------------------------------------------------
(* Memtable::write, in a handler that need not flush or has flushed.       *)
LEMMA RowWritten ==
  ASSUME OfWorkers, Stored, NEW w \in Workers, Held(w), NEW q \in Requested,
         q.kind = "WRITE", Open(w, q.region), WriteRow(w, q),
         \/ Fits(w, q)
         \/ regions[w][q.region].mem = NewMemtable /\ q.size <= Threshold
  PROVE  /\ DOMAIN regions' = Workers
         /\ \A v \in Workers : v # w => regions'[v] = regions[v]
         /\ regions'[w] \in [Regions -> Contexts \cup {None}]
         /\ \A x \in Regions : Open(w, x)' => /\ regions'[w][x].mem # None
                                              /\ Sound(regions'[w][x].mem)
         /\ accepted' \in [Regions -> Seq(RowSet)]
<1> DEFINE r == q.region
           mem == Written(regions[w][r].mem, q)
<1>1. /\ r \in Regions /\ q.id \in Ids /\ q.ts \in Times /\ q.size \in Nat
  BY RequestedShape, WorkerAssumption
<1>2. mem \in Memtables /\ Sound(mem)
  <2> DEFINE old == regions[w][r].mem
  <2>1. old \in Memtables /\ Sound(old)
    BY <1>1, OpenShape
  <2>2. old.used + q.size <= Threshold \/ (old = NewMemtable /\ q.size <= Threshold)
    BY DEF Fits
  <2> HIDE DEF old, r
  <2>3. Written(old, q) \in Memtables /\ Sound(Written(old, q))
    BY <1>1, <2>1, <2>2, WrittenShape
  <2> QED
    BY <2>3 DEF old, r
<1>3. regions' = [regions EXCEPT ![w][r].mem = mem]
  BY DEF WriteRow
<1>4. accepted' \in [Regions -> Seq(RowSet)]
  <2>1. Row(q.id, q.ts) \in RowSet
    BY <1>1 DEF RowSet
  <2>2. accepted' = [accepted EXCEPT ![r] = Append(@, Row(q.id, q.ts))]
    BY DEF WriteRow
  <2> QED
    BY <1>1, <2>1, <2>2 DEF Stored
<1> HIDE DEF mem, r
<1>5. Open(w, r)
  BY DEF r
<1> QED
  BY <1>1, <1>2, <1>3, <1>4, <1>5, GivenMemtable

(* handleWrite with room in the memtable. *)
LEMMA WriteStep ==
  ASSUME RegionInv, NEW w \in Workers, NEW q, q = Head(enginePipe[w]),
         enginePipe[w] # << >>, HandleWrite(w, q)
  PROVE  RegionInv'
<1>1. Arriving /\ OfWorkers /\ Flushed /\ Stored /\ Held(w) /\ \A v \in Workers : Held(v)
  BY DEF RegionInv
<1>2. Arriving' /\ put[w] = None /\ q \in Requested
  BY <1>1, TakeShape DEF HandleWrite
<1>3. /\ q.kind = "WRITE" /\ Open(w, q.region) /\ Fits(w, q) /\ WriteRow(w, q)
      /\ UNCHANGED <<closedRegions, dropingRegions, put, slots, writePos, readPos, flushing>>
      /\ UNCHANGED <<files, metas>>
  BY DEF HandleWrite, flusherPipe, disk
<1>4. /\ DOMAIN regions' = Workers
      /\ \A v \in Workers : v # w => regions'[v] = regions[v]
      /\ regions'[w] \in [Regions -> Contexts \cup {None}]
      /\ \A x \in Regions : Open(w, x)' => /\ regions'[w][x].mem # None
                                           /\ Sound(regions'[w][x].mem)
      /\ accepted' \in [Regions -> Seq(RowSet)]
  BY <1>1, <1>2, <1>3, RowWritten
<1>5. Held(w)'
  BY <1>1, <1>2, <1>3, <1>4 DEF Held, Closed
<1>6. OfWorkers' /\ \A v \in Workers : Held(v)'
  BY <1>1, <1>3, <1>4, <1>5, OneWorker DEF OfWorkers
<1>7. Flushed' /\ Stored'
  BY <1>1, <1>3, <1>4 DEF Flushed, Stored
<1> QED
  BY <1>2, <1>6, <1>7 DEF RegionInv

(* sendFlushSignal. *)
LEMMA SendStep ==
  ASSUME RegionInv, NEW w \in Workers, NEW q, q = Head(enginePipe[w]),
         enginePipe[w] # << >>, Take(w), q.region \in Regions, Open(w, q.region),
         q.kind = "WRITE" => q.size <= Threshold, SendFlushSignal(w, q),
         UNCHANGED <<flusherPipe, flushing, disk, history>>
  PROVE  RegionInv'
<1> DEFINE r == q.region
<1>1. Arriving /\ OfWorkers /\ Flushed /\ Stored /\ Held(w) /\ \A v \in Workers : Held(v)
  BY DEF RegionInv
<1>2. Arriving' /\ put[w] = None /\ q \in Requested
  BY <1>1, TakeShape
<1> DEFINE s == Signal(r, regions[w][r])
           p == [request |-> q, signal |-> s, pos |-> writePos, stored |-> FALSE]
<1>3. /\ regions' = [regions EXCEPT ![w][r].mem = NewMemtable]
      /\ put' = [put EXCEPT ![w] = p]
      /\ UNCHANGED <<closedRegions, dropingRegions, slots, writePos, readPos, flushing>>
      /\ UNCHANGED <<files, metas, accepted>>
  BY DEF SendFlushSignal, flusherPipe, disk, history
<1>4. s \in Signals /\ Spanned(s)
  BY <1>1, OpenShape, SignalShape
<1>5. p \in Puts
  <2> HIDE DEF s
  <2> QED
    BY <1>1, <1>2, <1>4 DEF Puts, Flushed
<1>6. p.request = q /\ p.signal = s
  OBVIOUS
<1> HIDE DEF s, p
<1>7. DOMAIN put' = Workers /\ put'[w] = p /\ \A v \in Workers : v # w => put'[v] = put[v]
  BY <1>1, <1>3 DEF OfWorkers
<1>8. /\ DOMAIN regions' = Workers
      /\ \A v \in Workers : v # w => regions'[v] = regions[v]
      /\ regions'[w] \in [Regions -> Contexts \cup {None}]
      /\ regions'[w][r] # None /\ regions'[w][r].mem = NewMemtable
      /\ \A x \in Regions : Open(w, x)' => /\ regions'[w][x].mem # None
                                           /\ Sound(regions'[w][x].mem)
  <2> HIDE DEF r
  <2>1. r \in Regions /\ Open(w, r)
    BY DEF r
  <2> QED
    BY <1>1, <1>3, <2>1, NewShape, NewSound, GivenMemtable DEF Open
<1>9. Waiting(w)'
  BY <1>4, <1>6, <1>7, <1>8 DEF Waiting, Open
<1>10. Held(w)'
  BY <1>1, <1>3, <1>5, <1>7, <1>8, <1>9 DEF Held, Closed
<1>11. OfWorkers' /\ \A v \in Workers : Held(v)'
  BY <1>1, <1>3, <1>7, <1>8, <1>10, OneWorker DEF OfWorkers
<1>12. Flushed' /\ Stored'
  BY <1>1, <1>3 DEF Flushed, Stored
<1> QED
  BY <1>2, <1>11, <1>12 DEF RegionInv

(* handleWrite whose row does not fit: the memtable is handed over. *)
LEMMA WriteFullStep ==
  ASSUME RegionInv, NEW w \in Workers, NEW q, q = Head(enginePipe[w]),
         enginePipe[w] # << >>, HandleWriteFull(w, q)
  PROVE  RegionInv'
<1>1. q \in Requested /\ Held(w)
  BY TakeShape DEF RegionInv, HandleWriteFull
<1>2. q.region \in Regions
  BY <1>1, RequestedShape
<1> QED
  BY <1>2, SendStep DEF HandleWriteFull

(* CLOSE of a region with rows: the memtable is handed over. *)
LEMMA CloseFullStep ==
  ASSUME RegionInv, NEW w \in Workers, NEW q, q = Head(enginePipe[w]),
         enginePipe[w] # << >>, CloseFull(w, q)
  PROVE  RegionInv'
<1>1. q \in Requested
  BY TakeShape DEF RegionInv, CloseFull
<1>2. q.region \in Regions
  BY <1>1, RequestedShape
<1> QED
  BY <1>2, SendStep DEF CloseFull, CanClose

(* A context without memtable among the closed ones, none among the open.  *)
LEMMA Moved ==
  ASSUME OfWorkers, NEW w \in Workers, Held(w), NEW r \in Regions, Open(w, r),
         MoveToClosed(w, r)
  PROVE  /\ DOMAIN regions' = Workers /\ DOMAIN closedRegions' = Workers
         /\ \A v \in Workers : v # w => /\ regions'[v] = regions[v]
                                        /\ closedRegions'[v] = closedRegions[v]
         /\ regions'[w] \in [Regions -> Contexts \cup {None}]
         /\ closedRegions'[w] \in [Regions -> Contexts \cup {None}]
         /\ \A x \in Regions :
              /\ Open(w, x)' => /\ regions'[w][x].mem # None
                                /\ Sound(regions'[w][x].mem)
              /\ Closed(w, x)' => closedRegions'[w][x].mem = None
<1> DEFINE ctx == [regions[w][r] EXCEPT !.mem = None]
<1>1. /\ regions[w] \in [Regions -> Contexts \cup {None}] /\ DOMAIN regions = Workers
      /\ closedRegions[w] \in [Regions -> Contexts \cup {None}] /\ DOMAIN closedRegions = Workers
  BY DEF Held, OfWorkers
<1>2. ctx \in Contexts /\ ctx.mem = None
  BY OpenShape DEF Contexts
<1>3. /\ closedRegions' = [closedRegions EXCEPT ![w][r] = ctx]
      /\ regions' = [regions EXCEPT ![w][r] = None]
  BY DEF MoveToClosed
<1> HIDE DEF ctx
<1>4. /\ DOMAIN regions' = Workers /\ DOMAIN closedRegions' = Workers
      /\ \A v \in Workers : v # w => /\ regions'[v] = regions[v]
                                     /\ closedRegions'[v] = closedRegions[v]
      /\ regions'[w] = [regions[w] EXCEPT ![r] = None]
      /\ closedRegions'[w] = [closedRegions[w] EXCEPT ![r] = ctx]
  BY <1>1, <1>3
<1>5. /\ regions'[w] \in [Regions -> Contexts \cup {None}]
      /\ closedRegions'[w] \in [Regions -> Contexts \cup {None}]
  BY <1>1, <1>2, <1>4
<1>6. ASSUME NEW x \in Regions
      PROVE  /\ Open(w, x)' => regions'[w][x].mem # None /\ Sound(regions'[w][x].mem)
             /\ Closed(w, x)' => closedRegions'[w][x].mem = None
  <2>1. CASE x = r
    BY <1>1, <1>2, <1>4, <2>1 DEF Open
  <2>2. CASE x # r
    BY <1>1, <1>4, <2>2 DEF Open, Closed, Held
  <2> QED
    BY <2>1, <2>2
<1> QED
  BY <1>4, <1>5, <1>6

(* CLOSE of a region without rows. *)
LEMMA CloseEmptyStep ==
  ASSUME RegionInv, NEW w \in Workers, NEW q, q = Head(enginePipe[w]),
         enginePipe[w] # << >>, CloseEmpty(w, q)
  PROVE  RegionInv'
<1> DEFINE r == q.region
<1>1. Arriving /\ OfWorkers /\ Flushed /\ Stored /\ Held(w) /\ \A v \in Workers : Held(v)
  BY DEF RegionInv
<1>2. Arriving' /\ put[w] = None /\ q \in Requested
  BY <1>1, TakeShape DEF CloseEmpty
<1>3. /\ r \in Regions /\ Open(w, r) /\ MoveToClosed(w, r)
      /\ UNCHANGED <<dropingRegions, put, slots, writePos, readPos, flushing>>
      /\ UNCHANGED <<files, metas, accepted>>
  BY <1>2, RequestedShape DEF CloseEmpty, CanClose, flusherPipe, disk, history
<1> HIDE DEF r
<1>4. /\ DOMAIN regions' = Workers /\ DOMAIN closedRegions' = Workers
      /\ \A v \in Workers : v # w => /\ regions'[v] = regions[v]
                                     /\ closedRegions'[v] = closedRegions[v]
      /\ regions'[w] \in [Regions -> Contexts \cup {None}]
      /\ closedRegions'[w] \in [Regions -> Contexts \cup {None}]
      /\ \A x \in Regions :
           /\ Open(w, x)' => regions'[w][x].mem # None /\ Sound(regions'[w][x].mem)
           /\ Closed(w, x)' => closedRegions'[w][x].mem = None
  BY <1>1, <1>3, Moved
<1>5. Held(w)'
  BY <1>1, <1>2, <1>3, <1>4 DEF Held
<1>6. OfWorkers' /\ \A v \in Workers : Held(v)'
  BY <1>1, <1>3, <1>4, <1>5, OneWorker DEF OfWorkers
<1>7. Flushed' /\ Stored'
  BY <1>1, <1>3 DEF Flushed, Stored
<1> QED
  BY <1>2, <1>6, <1>7 DEF RegionInv

(* CREATE, OPEN, DROP, and what is only logged. *)
LEMMA CreateStep ==
  ASSUME RegionInv, NEW w \in Workers, NEW q, q = Head(enginePipe[w]),
         enginePipe[w] # << >>, Create(w, q)
  PROVE  RegionInv'
<1> DEFINE r == q.region
           ctx == [sst |-> Len(metas[r]) + 1, mem |-> None]
<1>1. Arriving /\ OfWorkers /\ Flushed /\ Stored /\ Held(w) /\ \A v \in Workers : Held(v)
  BY DEF RegionInv
<1>2. Arriving' /\ put[w] = None /\ q \in Requested
  BY <1>1, TakeShape DEF Create
<1>3. /\ r \in Regions /\ metas' = [metas EXCEPT ![r] = Append(@, << >>)]
      /\ closedRegions' = [closedRegions EXCEPT ![w][r] = ctx]
      /\ UNCHANGED <<regions, dropingRegions, put, slots, writePos, readPos, flushing>>
      /\ UNCHANGED <<files, accepted>>
  BY <1>2, RequestedShape DEF Create, flusherPipe
<1>4. ctx \in Contexts /\ ctx.mem = None
  <2>1. Len(metas[r]) + 1 \in Nat \ {0}
    <3>1. metas[r] \in Seq(Seq(Blocks))
      BY <1>1, <1>3 DEF Stored
    <3> QED
      BY <3>1
  <2> QED
    BY <2>1 DEF Contexts
<1>5. Stored'
  <2>1. metas[r] \in Seq(Seq(Blocks)) /\ << >> \in Seq(Blocks)
    BY <1>1, <1>3 DEF Stored
  <2>2. Append(metas[r], << >>) \in Seq(Seq(Blocks))
    BY <2>1
  <2>3. metas' \in [Regions -> Seq(Seq(Blocks))]
    BY <1>1, <1>3, <2>2 DEF Stored
  <2> QED
    BY <1>1, <1>3, <2>3 DEF Stored
<1> HIDE DEF r, ctx
<1>6. /\ DOMAIN closedRegions' = Workers /\ closedRegions'[w] = [closedRegions[w] EXCEPT ![r] = ctx]
      /\ \A v \in Workers : v # w => closedRegions'[v] = closedRegions[v]
  BY <1>1, <1>3 DEF OfWorkers
<1>7. Held(w)'
  BY <1>1, <1>2, <1>3, <1>4, <1>6 DEF Held, Open, Closed
<1>8. OfWorkers' /\ \A v \in Workers : Held(v)'
  BY <1>1, <1>3, <1>6, <1>7, OneWorker DEF OfWorkers
<1>9. Flushed'
  BY <1>1, <1>3 DEF Flushed
<1> QED
  BY <1>2, <1>5, <1>8, <1>9 DEF RegionInv

(* OPEN: a closed region gets a new memtable. *)
LEMMA OpenStep ==
  ASSUME RegionInv, NEW w \in Workers, NEW q, q = Head(enginePipe[w]),
         enginePipe[w] # << >>, OpenRegion(w, q)
  PROVE  RegionInv'
<1> DEFINE r == q.region
           ctx == [closedRegions[w][r] EXCEPT !.mem = NewMemtable]
<1>1. Arriving /\ OfWorkers /\ Flushed /\ Stored /\ Held(w) /\ \A v \in Workers : Held(v)
  BY DEF RegionInv
<1>2. Arriving' /\ put[w] = None /\ q \in Requested
  BY <1>1, TakeShape DEF OpenRegion
<1>3. /\ r \in Regions /\ Closed(w, r)
      /\ regions' = [regions EXCEPT ![w][r] = ctx]
      /\ closedRegions' = [closedRegions EXCEPT ![w][r] = None]
      /\ UNCHANGED <<dropingRegions, put, slots, writePos, readPos, flushing>>
      /\ UNCHANGED <<files, metas, accepted>>
  BY <1>2, RequestedShape DEF OpenRegion, CanOpen, flusherPipe, disk, history
<1>4. ctx \in Contexts /\ ctx.mem = NewMemtable
  <2>1. closedRegions[w][r] \in Contexts
    BY <1>1, <1>3 DEF Held, Closed
  <2> QED
    BY <2>1, NewShape DEF Contexts
<1> HIDE DEF r, ctx
<1>5. /\ DOMAIN regions' = Workers /\ regions'[w] = [regions[w] EXCEPT ![r] = ctx]
      /\ DOMAIN closedRegions' = Workers
      /\ closedRegions'[w] = [closedRegions[w] EXCEPT ![r] = None]
      /\ \A v \in Workers : v # w => /\ regions'[v] = regions[v]
                                     /\ closedRegions'[v] = closedRegions[v]
  BY <1>1, <1>3 DEF OfWorkers
<1>6. Held(w)'
  <2>1. regions[w] \in [Regions -> Contexts \cup {None}]
        /\ closedRegions[w] \in [Regions -> Contexts \cup {None}]
    BY <1>1 DEF Held
  <2>2. ASSUME NEW x \in Regions
        PROVE  /\ Open(w, x)' => regions'[w][x].mem # None /\ Sound(regions'[w][x].mem)
               /\ Closed(w, x)' => closedRegions'[w][x].mem = None
    <3>1. CASE x = r
      BY <1>4, <1>5, <2>1, <3>1, NewShape, NewSound DEF Closed
    <3>2. CASE x # r
      BY <1>1, <1>5, <2>1, <3>2 DEF Open, Closed, Held
    <3> QED
      BY <3>1, <3>2
  <2>3. /\ regions'[w] \in [Regions -> Contexts \cup {None}]
        /\ closedRegions'[w] \in [Regions -> Contexts \cup {None}]
    BY <1>4, <1>5, <2>1
  <2> QED
    BY <1>1, <1>2, <1>3, <2>2, <2>3 DEF Held
<1>7. OfWorkers' /\ \A v \in Workers : Held(v)'
  BY <1>1, <1>3, <1>5, <1>6, OneWorker DEF OfWorkers
<1>8. Flushed' /\ Stored'
  BY <1>1, <1>3 DEF Flushed, Stored
<1> QED
  BY <1>2, <1>7, <1>8 DEF RegionInv

(* DROP: the context of a closed region is put aside. *)
LEMMA DropStep ==
  ASSUME RegionInv, NEW w \in Workers, NEW q, q = Head(enginePipe[w]),
         enginePipe[w] # << >>, Drop(w, q)
  PROVE  RegionInv'
<1> DEFINE r == q.region
<1>1. Arriving /\ OfWorkers /\ Flushed /\ Stored /\ Held(w) /\ \A v \in Workers : Held(v)
  BY DEF RegionInv
<1>2. Arriving' /\ put[w] = None /\ q \in Requested
  BY <1>1, TakeShape DEF Drop
<1>3. /\ r \in Regions
      /\ dropingRegions' = [dropingRegions EXCEPT ![w][r] = closedRegions[w][r]]
      /\ closedRegions' = [closedRegions EXCEPT ![w][r] = None]
      /\ UNCHANGED <<regions, put, slots, writePos, readPos, flushing>>
      /\ UNCHANGED <<files, metas, accepted>>
  BY <1>2, RequestedShape DEF Drop, flusherPipe, disk, history
<1> HIDE DEF r
<1>4. /\ DOMAIN dropingRegions' = Workers /\ DOMAIN closedRegions' = Workers
      /\ dropingRegions'[w] = [dropingRegions[w] EXCEPT ![r] = closedRegions[w][r]]
      /\ closedRegions'[w] = [closedRegions[w] EXCEPT ![r] = None]
      /\ \A v \in Workers : v # w => /\ dropingRegions'[v] = dropingRegions[v]
                                     /\ closedRegions'[v] = closedRegions[v]
  BY <1>1, <1>3 DEF OfWorkers
<1>5. Held(w)'
  <2>1. /\ closedRegions[w] \in [Regions -> Contexts \cup {None}]
        /\ dropingRegions[w] \in [Regions -> Contexts \cup {None}]
        /\ \A x \in Regions : Closed(w, x) => closedRegions[w][x].mem = None
    BY <1>1 DEF Held
  <2>2. /\ closedRegions'[w] \in [Regions -> Contexts \cup {None}]
        /\ dropingRegions'[w] \in [Regions -> Contexts \cup {None}]
        /\ \A x \in Regions : Closed(w, x)' => closedRegions'[w][x].mem = None
    BY <1>3, <1>4, <2>1 DEF Closed
  <2> QED
    BY <1>1, <1>2, <1>3, <2>2 DEF Held, Open
<1>6. OfWorkers' /\ \A v \in Workers : Held(v)'
  BY <1>1, <1>3, <1>4, <1>5, OneWorker DEF OfWorkers
<1>7. Flushed' /\ Stored'
  BY <1>1, <1>3 DEF Flushed, Stored
<1> QED
  BY <1>2, <1>6, <1>7 DEF RegionInv

(* A step that leaves what workers hold, and what is stored.               *)
LEMMA HeldKept ==
  ASSUME OfWorkers, \A v \in Workers : Held(v), UNCHANGED <<contexts, put>>
  PROVE  OfWorkers' /\ \A v \in Workers : Held(v)'
BY DEF OfWorkers, Held, Waiting, Open, Closed, contexts

(* A signal that is only answered in the log. *)
LEMMA IgnoreStep ==
  ASSUME RegionInv, NEW w \in Workers, NEW q, q = Head(enginePipe[w]),
         enginePipe[w] # << >>, Ignore(w, q)
  PROVE  RegionInv'
<1>1. Arriving'
  BY TakeShape DEF RegionInv, Ignore
<1>2. UNCHANGED <<contexts, put>>
  BY DEF Ignore
<1>3. Flushed' /\ Stored'
  BY DEF RegionInv, Ignore, Flushed, Stored, flusherPipe, disk, history
<1>4. OfWorkers' /\ \A v \in Workers : Held(v)'
  BY <1>2, HeldKept DEF RegionInv
<1> QED
  BY <1>1, <1>3, <1>4 DEF RegionInv
-----------------------------------------------------------------------------
(* PipeRing::put: the signal is stored, wherever the position lies, and    *)
(* the rest of the handler follows.                                        *)
LEMMA SlotOf ==
  ASSUME NEW pos \in Nat
  PROVE  pos % RingSize \in 0 .. RingSize - 1
BY WorkerAssumption

(* PipeRing::put stores the signal, which spans its rows. *)
LEMMA PutStoreStep ==
  ASSUME RegionInv, NEW w \in Workers, PutStore(w)
  PROVE  RegionInv'
<1>1. Arriving /\ OfWorkers /\ Flushed /\ Stored /\ Held(w) /\ \A v \in Workers : Held(v)
  BY DEF RegionInv
<1>2. /\ put[w] # None /\ put' = [put EXCEPT ![w].stored = TRUE]
      /\ slots' = [slots EXCEPT ![put[w].pos % RingSize] = put[w].signal]
      /\ UNCHANGED <<regions, closedRegions, dropingRegions, writePos, readPos, flushing>>
      /\ UNCHANGED <<requests, enginePipe, files, metas, accepted>>
  BY DEF PutStore, contexts, disk, history
<1> DEFINE p == [put[w] EXCEPT !.stored = TRUE]
<1>3. /\ put[w] \in Puts /\ p \in Puts /\ p.request = put[w].request /\ p.signal = put[w].signal
      /\ put[w].pos \in Nat /\ put[w].signal \in Signals /\ Spanned(put[w].signal)
  BY <1>1, <1>2 DEF Held, Waiting, Puts
<1>4. put' = [put EXCEPT ![w] = p]
  BY <1>2
<1> HIDE DEF p
<1>5. DOMAIN put' = Workers /\ put'[w] = p /\ \A v \in Workers : v # w => put'[v] = put[v]
  BY <1>1, <1>4 DEF OfWorkers
<1>6. Held(w)'
  <2>1. Waiting(w)'
    BY <1>1, <1>2, <1>3, <1>5 DEF Held, Waiting, Open
  <2> QED
    BY <1>1, <1>2, <1>3, <1>5, <2>1 DEF Held, Open, Closed
<1>7. OfWorkers' /\ \A v \in Workers : Held(v)'
  BY <1>1, <1>2, <1>5, <1>6, OneWorker DEF OfWorkers
<1>8. Flushed'
  <2> DEFINE i == put[w].pos % RingSize
  <2>1. i \in 0 .. RingSize - 1
    BY <1>3, SlotOf
  <2> HIDE DEF i
  <2>2. slots' = [slots EXCEPT ![i] = put[w].signal]
    BY <1>2 DEF i
  <2> QED
    BY <1>1, <1>2, <1>3, <2>1, <2>2 DEF Flushed
<1>9. Arriving' /\ Stored'
  BY <1>1, <1>2 DEF Arriving, Stored
<1> QED
  BY <1>7, <1>8, <1>9 DEF RegionInv

(* PipeRing::put returns and its handler goes on. *)
LEMMA PutReturnStep ==
  ASSUME RegionInv, NEW w \in Workers, PutReturn(w)
  PROVE  RegionInv'
<1> DEFINE q == put[w].request
<1>1. Arriving /\ OfWorkers /\ Flushed /\ Stored /\ Held(w) /\ \A v \in Workers : Held(v)
  BY DEF RegionInv
<1>2. /\ put[w] # None /\ put' = [put EXCEPT ![w] = None] /\ writePos' = writePos + 1
      /\ UNCHANGED <<dropingRegions, slots, readPos, flushing>>
      /\ UNCHANGED <<requests, enginePipe, files, metas>>
  BY DEF PutReturn, disk
<1>3. /\ q \in Requested /\ Open(w, q.region) /\ regions[w][q.region].mem = NewMemtable
  BY <1>1, <1>2 DEF Held, Waiting, Puts
<1>4. DOMAIN put' = Workers /\ put'[w] = None /\ \A v \in Workers : v # w => put'[v] = put[v]
  BY <1>1, <1>2 DEF OfWorkers
<1>5. Arriving' /\ Flushed'
  BY <1>1, <1>2 DEF Arriving, Flushed
<1>6. CASE q.kind = "WRITE" /\ WriteRow(w, q) /\ UNCHANGED closedRegions
  <2>1. q.size <= Threshold
    BY <1>1, <1>2, <1>6 DEF Held, Waiting
  <2> HIDE DEF q
  <2>2. /\ DOMAIN regions' = Workers
        /\ \A v \in Workers : v # w => regions'[v] = regions[v]
        /\ regions'[w] \in [Regions -> Contexts \cup {None}]
        /\ \A x \in Regions : Open(w, x)' => /\ regions'[w][x].mem # None
                                             /\ Sound(regions'[w][x].mem)
        /\ accepted' \in [Regions -> Seq(RowSet)]
    BY <1>1, <1>3, <1>6, <2>1, RowWritten
  <2>3. Held(w)'
    BY <1>1, <1>2, <1>4, <1>6, <2>2 DEF Held, Closed
  <2>4. OfWorkers' /\ \A v \in Workers : Held(v)'
    BY <1>1, <1>2, <1>4, <1>6, <2>2, <2>3, OneWorker DEF OfWorkers
  <2>5. Stored'
    BY <1>1, <1>2, <2>2 DEF Stored
  <2> QED
    BY <1>5, <2>4, <2>5 DEF RegionInv
<1>7. CASE MoveToClosed(w, q.region) /\ UNCHANGED accepted
  <2> DEFINE r == q.region
  <2>1. r \in Regions /\ Open(w, r) /\ MoveToClosed(w, r)
    BY <1>3, <1>7, RequestedShape
  <2> HIDE DEF r
  <2>2. /\ DOMAIN regions' = Workers /\ DOMAIN closedRegions' = Workers
        /\ \A v \in Workers : v # w => /\ regions'[v] = regions[v]
                                       /\ closedRegions'[v] = closedRegions[v]
        /\ regions'[w] \in [Regions -> Contexts \cup {None}]
        /\ closedRegions'[w] \in [Regions -> Contexts \cup {None}]
        /\ \A x \in Regions :
             /\ Open(w, x)' => regions'[w][x].mem # None /\ Sound(regions'[w][x].mem)
             /\ Closed(w, x)' => closedRegions'[w][x].mem = None
    BY <1>1, <2>1, Moved
  <2>3. Held(w)'
    BY <1>1, <1>2, <1>4, <2>2 DEF Held
  <2>4. OfWorkers' /\ \A v \in Workers : Held(v)'
    BY <1>1, <1>2, <1>4, <2>2, <2>3, OneWorker DEF OfWorkers
  <2>5. Stored'
    BY <1>1, <1>2, <1>7 DEF Stored
  <2> QED
    BY <1>5, <2>4, <2>5 DEF RegionInv
<1> QED
  BY <1>6, <1>7 DEF PutReturn

(* Flusher::getSignal. *)
LEMMA GetFlushStep == RegionInv /\ GetFlush => RegionInv'
<1> SUFFICES ASSUME RegionInv, GetFlush
             PROVE  RegionInv'
  OBVIOUS
<1> DEFINE i == readPos % RingSize
<1>1. Arriving' /\ Stored' /\ OfWorkers' /\ \A v \in Workers : Held(v)'
  BY HeldKept DEF RegionInv, GetFlush, Arriving, Stored, disk, history
<1>2. Flushed
  BY DEF RegionInv
<1>3. i \in 0 .. RingSize - 1
  BY <1>2, SlotOf DEF Flushed
<1>4. /\ flushing' = slots[i] /\ writePos # readPos /\ readPos' = readPos + 1
      /\ UNCHANGED <<slots, writePos>>
  BY DEF GetFlush
<1> HIDE DEF i
<1>5. Flushed'
  BY <1>2, <1>3, <1>4 DEF Flushed
<1> QED
  BY <1>1, <1>5 DEF RegionInv

(* handleFlush: the block goes into the file and its meta into the SST.    *)
LEMMA HandleFlushStep == RegionInv /\ HandleFlush => RegionInv'
<1> SUFFICES ASSUME RegionInv, HandleFlush
             PROVE  RegionInv'
  OBVIOUS
<1> DEFINE b == Block(flushing)
           r == flushing.region
<1>1. /\ flushing # None /\ flushing' = None
      /\ files' = [files EXCEPT ![r] = Append(@, b)]
      /\ metas' = [metas EXCEPT ![r][flushing.sst] = Append(@, b)]
      /\ UNCHANGED <<requests, enginePipe, contexts, put, slots, writePos, readPos, accepted>>
  BY DEF HandleFlush, flusherPipe, history
<1>2. Arriving' /\ OfWorkers' /\ \A v \in Workers : Held(v)'
  BY <1>1, HeldKept DEF RegionInv, Arriving
<1>3. Flushed'
  BY <1>1 DEF RegionInv, Flushed
<1>4. r \in Regions /\ b \in Blocks /\ Spanned(b)
  BY <1>1 DEF RegionInv, Flushed, Block, Blocks, Signals, Spanned
<1>5. /\ files \in [Regions -> Seq(Blocks)] /\ metas \in [Regions -> Seq(Seq(Blocks))]
      /\ accepted \in [Regions -> Seq(RowSet)]
      /\ \A x \in Regions : \A i \in 1 .. Len(files[x]) : Spanned(files[x][i])
  BY DEF RegionInv, Stored
<1> HIDE DEF b, r
<1>6. files' \in [Regions -> Seq(Blocks)]
  BY <1>1, <1>4, <1>5
<1>7. \A x \in Regions : \A i \in 1 .. Len(files'[x]) : Spanned(files'[x][i])
  <2>1. files[r] \in Seq(Blocks) /\ files'[r] = Append(files[r], b)
        /\ \A x \in Regions : x # r => files'[x] = files[x]
    BY <1>1, <1>4, <1>5
  <2>2. ASSUME NEW i \in 1 .. Len(files'[r])
        PROVE  Spanned(files'[r][i])
    <3>1. files'[r][i] = b \/ (i \in 1 .. Len(files[r]) /\ files'[r][i] = files[r][i])
      BY <1>4, <2>1
    <3> QED
      BY <1>4, <1>5, <3>1
  <2> QED
    BY <1>5, <2>1, <2>2
<1>8. metas' \in [Regions -> Seq(Seq(Blocks))]
  <2> DEFINE old == metas[r]
             new == [old EXCEPT ![flushing.sst] = Append(@, b)]
  <2>1. old \in Seq(Seq(Blocks)) /\ metas' = [metas EXCEPT ![r] = new]
    BY <1>1, <1>4, <1>5
  <2>2. new \in Seq(Seq(Blocks))
    <3> DEFINE n == Len(old)
               k == flushing.sst
               v == Append(old[k], b)
    <3>1. n \in Nat /\ old \in [1 .. n -> Seq(Blocks)]
      BY <2>1
    <3>2. k \in 1 .. n => v \in Seq(Blocks)
      BY <1>4, <3>1
    <3>3. new = [old EXCEPT ![k] = v]
      OBVIOUS
    <3> HIDE DEF old, n, k, v, new
    <3>4. new \in [1 .. n -> Seq(Blocks)]
      BY <3>1, <3>2, <3>3
    <3> QED
      BY <3>1, <3>4
  <2> HIDE DEF new
  <2> QED
    BY <1>4, <1>5, <2>1, <2>2
<1>9. Stored'
  BY <1>1, <1>5, <1>6, <1>7, <1>8 DEF Stored
<1> QED
  BY <1>2, <1>3, <1>9 DEF RegionInv

(* The file does not open. *)
LEMMA FlushFailsStep == RegionInv /\ FlushFails => RegionInv'
<1> SUFFICES ASSUME RegionInv, FlushFails
             PROVE  RegionInv'
  OBVIOUS
<1>1. OfWorkers' /\ \A v \in Workers : Held(v)'
  BY HeldKept DEF RegionInv, FlushFails
<1>2. Arriving' /\ Flushed' /\ Stored'
  BY DEF RegionInv, FlushFails, Arriving, Flushed, Stored, flusherPipe, history
<1> QED
  BY <1>1, <1>2 DEF RegionInv

(* A request is handed to the worker of its region. *)
LEMMA Dispatched ==
  ASSUME Arriving, NEW q \in Requested, Dispatch(q), requests' \in 0 .. MaxRequests
  PROVE  Arriving'
<1> DEFINE o == WorkerOf(q.region)
<1>1. o \in Workers
  <2>1. q.region \in Nat
    BY RequestedShape, WorkerAssumption
  <2> QED
    BY <2>1, WorkerAssumption DEF WorkerOf, Workers
<1>2. Len(enginePipe[o]) < PipeBound /\ enginePipe' = [enginePipe EXCEPT ![o] = Append(@, q)]
  BY DEF Dispatch
<1> HIDE DEF o
<1>3. enginePipe[o] \in Seq(Requested)
  BY <1>1 DEF Arriving
<1>4. /\ enginePipe' \in [Workers -> Seq(Requested)]
      /\ enginePipe'[o] = Append(enginePipe[o], q)
      /\ \A v \in Workers : v # o => enginePipe'[v] = enginePipe[v]
  BY <1>1, <1>2, <1>3 DEF Arriving
<1>5. Len(enginePipe'[o]) <= PipeBound
  <2>1. Len(enginePipe'[o]) = Len(enginePipe[o]) + 1 /\ Len(enginePipe[o]) \in Nat
    BY <1>3, <1>4
  <2>2. PipeBound \in Nat
    BY WorkerAssumption
  <2> QED
    BY <1>2, <2>1, <2>2
<1> QED
  BY <1>4, <1>5 DEF Arriving

(* MitoEngine hands over another request. *)
LEMMA EngineStep == RegionInv /\ Engine => RegionInv'
<1> SUFFICES ASSUME RegionInv, NEW q \in NextRequests, requests < MaxRequests,
                    Dispatch(q), requests' = requests + 1,
                    UNCHANGED <<contexts, put, flusherPipe, flushing, disk, history>>
             PROVE  RegionInv'
  BY DEF Engine
<1>1. OfWorkers' /\ \A v \in Workers : Held(v)'
  BY HeldKept DEF RegionInv
<1>2. Flushed' /\ Stored'
  BY DEF RegionInv, Flushed, Stored, flusherPipe, disk, history
<1>3. Arriving
  BY DEF RegionInv
<1>4. requests + 1 \in 0 .. MaxRequests /\ requests + 1 \in Ids
  BY <1>3, WorkerAssumption DEF Arriving, Ids
<1>5. q \in Requested
  BY <1>4 DEF Requested, NextRequests
<1>6. Arriving'
  BY <1>3, <1>4, <1>5, Dispatched
<1> QED
  BY <1>1, <1>2, <1>6 DEF RegionInv
-----------------------------------------------------------------------------
(* One step of workers, flusher or engine. *)
LEMMA RegionStep == RegionInv /\ [Next]_vars => RegionInv'
<1> SUFFICES ASSUME RegionInv, [Next]_vars
             PROVE  RegionInv'
  OBVIOUS
<1>1. CASE Engine
  BY <1>1, EngineStep
<1>2. CASE Flusher
  BY <1>2, GetFlushStep, HandleFlushStep, FlushFailsStep DEF Flusher
<1>3. ASSUME NEW w \in Workers, Handle(w)
      PROVE  RegionInv'
  BY <1>3, WriteStep, WriteFullStep, CreateStep, OpenStep, CloseEmptyStep, CloseFullStep,
     DropStep, IgnoreStep DEF Handle
<1>4. ASSUME NEW w \in Workers, PutStore(w) \/ PutReturn(w)
      PROVE  RegionInv'
  BY <1>4, PutStoreStep, PutReturnStep
<1>5. CASE UNCHANGED vars
  <2>1. OfWorkers' /\ \A v \in Workers : Held(v)'
    BY <1>5, HeldKept DEF RegionInv, vars
  <2>2. Arriving' /\ Flushed' /\ Stored'
    BY <1>5 DEF RegionInv, Arriving, Flushed, Stored, vars, flusherPipe, disk, history
  <2> QED
    BY <2>1, <2>2 DEF RegionInv
<1> QED
  BY <1>1, <1>2, <1>3, <1>4, <1>5 DEF Next, Worker

(* The types, the soundness of memtables and the ranges of what is flushed *)
(* hold in every state.                                                    *)
THEOREM RegionInvAlways == Spec => []RegionInv
<1>1. Init => RegionInv
  BY RegionInit
<1>2. RegionInv /\ [Next]_vars => RegionInv'
  BY RegionStep
<1> QED
  BY <1>1, <1>2, PTL DEF Spec

(* A memtable outgrows its threshold by its columns at the most, and       *)
(* without a second row (handleWrite's two checks and the accounting of    *)
(* addRowSize).                                                            *)
THEOREM ThresholdKept == Spec => []WithinThreshold
<1>1. RegionInv => WithinThreshold
  BY DEF RegionInv, Held, Sound, Bounded, WithinThreshold
<1> QED
  BY <1>1, RegionInvAlways, PTL

(* The time range of every block on disk and of the one being written is   *)
(* that of its rows, however many workers share the pipe to the flusher    *)
(* (sendFlushSignal, Memtable::write, flushBlock).                         *)
THEOREM BlocksCovered == Spec => []BlocksCoverRows
<1>1. RegionInv => BlocksCoverRows
  <2> SUFFICES ASSUME RegionInv
               PROVE  BlocksCoverRows
    OBVIOUS
  <2>1. ASSUME NEW r \in Regions, NEW i \in DOMAIN files[r]
        PROVE  Covers(files[r][i])
    <3>1. files[r] \in Seq(Blocks)
      BY DEF RegionInv, Stored
    <3>2. i \in 1 .. Len(files[r]) /\ files[r][i] \in Blocks
      BY <3>1
    <3>3. files[r][i].rows \in Seq(RowSet)
      BY <3>2 DEF Blocks
    <3> QED
      BY <3>2, <3>3, CoversSpans DEF RegionInv, Stored
  <2>2. flushing # None => Covers(flushing)
    <3>1. flushing # None => flushing.rows \in Seq(RowSet) /\ Spanned(flushing)
      BY DEF RegionInv, Flushed, Signals
    <3> QED
      BY <3>1, CoversSpans
  <2> QED
    BY <2>1, <2>2 DEF BlocksCoverRows
<1> QED
  BY <1>1, RegionInvAlways, PTL

(* What the invariant says of types. *)
LEMMA InvTypes == RegionInv => TypeOK
<1> SUFFICES ASSUME RegionInv
             PROVE  TypeOK
  OBVIOUS
<1>1. \A w \in Workers, r \in Regions :
        /\ regions[w][r] \in Contexts \cup {None}
        /\ Open(w, r) => regions[w][r].mem # None
        /\ closedRegions[w][r] \in Contexts \cup {None}
        /\ Closed(w, r) => closedRegions[w][r].mem = None
        /\ dropingRegions[w][r] \in Contexts \cup {None}
  BY DEF RegionInv, Held
<1>2. \A w \in Workers : put[w] \in Puts \cup {None}
  BY DEF RegionInv, Held
<1> QED
  BY <1>1, <1>2 DEF RegionInv, Arriving, Flushed, Stored, TypeOK

(* Every variable keeps its type, for any number of workers.               *)
THEOREM RegionTypes == Spec => []TypeOK
BY InvTypes, RegionInvAlways, PTL
-----------------------------------------------------------------------------
(* The rows of blocks: RowsIn is what its recursion says.                  *)
Piece(b, S) == IF b \in S THEN b.rows ELSE << >>

AddRows(blocks, S) ==
  [p \in (1 .. Len(blocks)) \X Seq(RowSet) |-> p[2] \o Piece(blocks[p[1]], S)]

RowsFcn(blocks, S) ==
  CHOOSE f : f = [i \in 0 .. Len(blocks) |->
                    IF i = 0 THEN << >> ELSE f[i - 1] \o Piece(blocks[i], S)]

HaveRows(D) == \A b \in D : b.rows \in Seq(RowSet)

(* What a block adds is a sequence of rows. *)
LEMMA PieceType ==
  ASSUME NEW D, HaveRows(D), NEW b \in D, NEW S
  PROVE  Piece(b, S) \in Seq(RowSet)
BY DEF HaveRows, Piece

(* The recursive function behind RowsIn exists and satisfies its           *)
(* equations.                                                              *)
LEMMA RowsFcnDefined ==
  ASSUME NEW D, HaveRows(D), NEW blocks \in Seq(D), NEW S
  PROVE  /\ RowsIn(blocks, S) = RowsFcn(blocks, S)[Len(blocks)]
         /\ RowsFcn(blocks, S)[0] = << >>
         /\ \A i \in 1 .. Len(blocks) :
              RowsFcn(blocks, S)[i] = RowsFcn(blocks, S)[i - 1] \o Piece(blocks[i], S)
         /\ \A i \in 0 .. Len(blocks) : RowsFcn(blocks, S)[i] \in Seq(RowSet)
<1> DEFINE n == Len(blocks)
           T == Seq(RowSet)
           none == << >>
           step == AddRows(blocks, S)
           Def(f) == f = [i \in 0 .. n |->
                            IF i = 0 THEN << >> ELSE f[i - 1] \o Piece(blocks[i], S)]
<1>1. n \in Nat /\ none \in T /\ \A i \in 1 .. n : blocks[i] \in D
  OBVIOUS
<1>2. step \in [(1 .. n) \X T -> T]
  <2>1. \A p \in (1 .. n) \X T : p[2] \o Piece(blocks[p[1]], S) \in T
    <3> SUFFICES ASSUME NEW i \in 1 .. n, NEW x \in T
                 PROVE  x \o Piece(blocks[i], S) \in T
      OBVIOUS
    <3>1. Piece(blocks[i], S) \in T
      BY <1>1, PieceType
    <3> QED
      BY <3>1
  <2> QED
    BY <2>1 DEF AddRows
<1>3. PICK f \in [0 .. n -> T] : Recurs(f, n, none, step)
  <2> HIDE DEF n, T, step, none
  <2> QED
    BY <1>1, <1>2, RecursionDefines
<1>4. Def(f)
  <2>1. \A i \in 0 .. n : f[i] = IF i = 0 THEN << >> ELSE f[i - 1] \o Piece(blocks[i], S)
    <3> SUFFICES ASSUME NEW i \in 1 .. n
                 PROVE  f[i] = f[i - 1] \o Piece(blocks[i], S)
      <4>1. f[0] = << >> /\ \A i \in 0 .. n : i = 0 \/ i \in 1 .. n
        BY <1>1, <1>3 DEF Recurs
      <4> QED
        BY <4>1
    <3>1. f[i] = step[<<i, f[i - 1]>>]
      BY <1>1, <1>3 DEF Recurs
    <3>2. f[i - 1] \in T /\ <<i, f[i - 1]>> \in (1 .. n) \X T
      <4> HIDE DEF n, T
      <4> QED
        BY <1>1, <1>3
    <3> QED
      BY <3>1, <3>2 DEF AddRows
  <2> QED
    BY <2>1
<1>5. Def(RowsFcn(blocks, S))
  <2>1. RowsFcn(blocks, S) = CHOOSE g : Def(g)
    BY DEF RowsFcn
  <2> HIDE DEF Def
  <2> QED
    BY <1>4, <2>1
<1> DEFINE g == RowsFcn(blocks, S)
<1> HIDE DEF g
<1>6. g[0] = << >> /\ \A i \in 1 .. n : g[i] = g[i - 1] \o Piece(blocks[i], S)
  BY <1>5 DEF g
<1>7. \A i \in 0 .. n : g[i] \in T
  <2>1. \A i \in 1 .. n : g[i - 1] \in T => g[i] = step[<<i, g[i - 1]>>]
    BY <1>6 DEF AddRows
  <2>2. Follows(g, n, T, none, step)
    BY <1>6, <2>1 DEF Follows
  <2> HIDE DEF n, T, step, none
  <2> QED
    BY <1>1, <1>2, <2>2, RecursionType
<1>8. RowsIn(blocks, S) = g[n]
  BY DEF RowsIn, RowsFcn, Piece, g
<1> QED
  BY <1>6, <1>7, <1>8 DEF g

(* No rows of no blocks, and one more block. *)
LEMMA RowsInEmpty ==
  ASSUME NEW S
  PROVE  RowsIn(<< >>, S) = << >>
<1>1. HaveRows({}) /\ << >> \in Seq({}) /\ Len(<< >>) = 0
  BY DEF HaveRows
<1> QED
  BY <1>1, RowsFcnDefined

(* The rows of blocks are a sequence of rows. *)
LEMMA RowsInType ==
  ASSUME NEW D, HaveRows(D), NEW blocks \in Seq(D), NEW S
  PROVE  RowsIn(blocks, S) \in Seq(RowSet)
<1>1. Len(blocks) \in 0 .. Len(blocks)
  OBVIOUS
<1> QED
  BY <1>1, RowsFcnDefined

(* One more block adds its rows at the end. *)
LEMMA RowsInAppend ==
  ASSUME NEW D, HaveRows(D), NEW blocks \in Seq(D), NEW S, NEW b \in D
  PROVE  RowsIn(Append(blocks, b), S) = RowsIn(blocks, S) \o Piece(b, S)
<1> DEFINE n == Len(blocks)
           more == Append(blocks, b)
           f == RowsFcn(blocks, S)
           g == RowsFcn(more, S)
           T == Seq(RowSet)
           E == [i \in 0 .. n |-> f[i]]
           I == {i \in Nat : i <= n => f[i] = g[i]}
<1>1. /\ n \in Nat /\ more \in Seq(D) /\ Len(more) = n + 1 /\ more[n + 1] = b
      /\ \A i \in 1 .. n : more[i] = blocks[i]
  OBVIOUS
<1> HIDE DEF more
<1>2. /\ RowsIn(blocks, S) = f[n] /\ f[0] = << >>
      /\ \A i \in 1 .. n : f[i] = f[i - 1] \o Piece(blocks[i], S)
  BY RowsFcnDefined
<1>3. /\ RowsIn(more, S) = g[n + 1] /\ g[0] = << >>
      /\ \A i \in 1 .. n + 1 : g[i] = g[i - 1] \o Piece(more[i], S)
  BY <1>1, RowsFcnDefined
<1> HIDE DEF f, g
<1>4. 0 \in I
  BY <1>2, <1>3
<1>5. ASSUME NEW i \in Nat, i \in I
      PROVE  i + 1 \in I
  <2> SUFFICES ASSUME i + 1 <= n
               PROVE  f[i + 1] = g[i + 1]
    OBVIOUS
  <2>1. i + 1 \in 1 .. n /\ i + 1 \in 1 .. n + 1 /\ (i + 1) - 1 = i /\ f[i] = g[i]
    BY <1>1, <1>5
  <2> QED
    BY <1>1, <1>2, <1>3, <2>1
<1>6. n \in I
  <2> HIDE DEF I
  <2> QED
    BY <1>1, <1>4, <1>5, NatInSet
<1>7. n + 1 \in 1 .. n + 1 /\ (n + 1) - 1 = n /\ f[n] = g[n]
  BY <1>1, <1>6
<1> QED
  BY <1>1, <1>2, <1>3, <1>7 DEF more

(* The rows of a single block. *)
LEMMA RowsInOne ==
  ASSUME NEW D, HaveRows(D), NEW b \in D, NEW S
  PROVE  RowsIn(<<b>>, S) = Piece(b, S)
<1>1. << >> \in Seq(D) /\ Append(<< >>, b) = <<b>>
  OBVIOUS
<1>2. Piece(b, S) \in Seq(RowSet)
  BY PieceType
<1>3. << >> \o Piece(b, S) = Piece(b, S)
  BY <1>2, ConcatEmptySeq
<1> QED
  BY <1>1, <1>3, RowsInAppend, RowsInEmpty

(* Facts about sequences and division under a name, by which the provers   *)
(* find them where the terms are large.                                    *)
Regroup(a, b, c) == (a \o b) \o c = a \o (b \o c)

(* Concatenation associates. *)
LEMMA Regrouping ==
  ASSUME NEW T, NEW a \in Seq(T), NEW b \in Seq(T), NEW c \in Seq(T)
  PROVE  Regroup(a, b, c)
BY ConcatAssociative DEF Regroup

Push(s, t, e) == Append(s \o t, e) = s \o Append(t, e)

(* Appending to the second part appends to the whole. *)
LEMMA Pushing ==
  ASSUME NEW T, NEW s \in Seq(T), NEW t \in Seq(T), NEW e \in T
  PROVE  Push(s, t, e)
<1>1. <<e>> \in Seq(T) /\ s \o t \in Seq(T)
  BY ConcatProperties
<1>2. Append(s \o t, e) = (s \o t) \o <<e>> /\ Append(t, e) = t \o <<e>>
  BY <1>1, AppendIsConcat
<1> QED
  BY <1>1, <1>2, ConcatAssociative DEF Push

(* The rows of blocks and more blocks: those of the first, then those of   *)
(* the others.                                                             *)
LEMMA RowsInConcat ==
  ASSUME NEW D, HaveRows(D), NEW s \in Seq(D), NEW t \in Seq(D), NEW S
  PROVE  RowsIn(s \o t, S) = RowsIn(s, S) \o RowsIn(t, S)
<1> DEFINE Same(u) == RowsIn(s \o u, S) = RowsIn(s, S) \o RowsIn(u, S)
           I == {k \in Nat : \A u \in Seq(D) : Len(u) = k => Same(u)}
<1>1. RowsIn(s, S) \in Seq(RowSet)
  BY RowsInType
<1>2. 0 \in I
  <2> SUFFICES ASSUME NEW u \in Seq(D), Len(u) = 0
               PROVE  Same(u)
    OBVIOUS
  <2>1. u = << >> /\ s \o << >> = s
    BY ConcatEmptySeq
  <2>2. RowsIn(s, S) \o << >> = RowsIn(s, S)
    BY <1>1, ConcatEmptySeq
  <2> QED
    BY <2>1, <2>2, RowsInEmpty
<1>3. ASSUME NEW k \in Nat, k \in I
      PROVE  k + 1 \in I
  <2> SUFFICES ASSUME NEW u \in Seq(D), Len(u) = k + 1
               PROVE  Same(u)
    OBVIOUS
  <2>1. u # << >>
    OBVIOUS
  <2>2. PICK v \in Seq(D), e \in D : u = Append(v, e)
    BY <2>1, SequenceEmptyOrAppend
  <2>3. Len(v) = k
    BY <2>2
  <2>4. Same(v)
    BY <1>3, <2>3
  <2>5. /\ s \o v \in Seq(D) /\ Append(s \o v, e) = s \o u
        /\ RowsIn(v, S) \in Seq(RowSet) /\ Piece(e, S) \in Seq(RowSet)
    <3>1. Push(s, v, e)
      BY Pushing
    <3> QED
      BY <2>2, <3>1, RowsInType, PieceType DEF Push
  <2>6. RowsIn(s \o u, S) = RowsIn(s \o v, S) \o Piece(e, S)
    BY <2>5, RowsInAppend
  <2>7. RowsIn(u, S) = RowsIn(v, S) \o Piece(e, S)
    BY <2>2, RowsInAppend
  <2>8. (RowsIn(s, S) \o RowsIn(v, S)) \o Piece(e, S)
          = RowsIn(s, S) \o (RowsIn(v, S) \o Piece(e, S))
    <3>1. Regroup(RowsIn(s, S), RowsIn(v, S), Piece(e, S))
      BY <1>1, <2>5, Regrouping
    <3> QED
      BY <3>1 DEF Regroup
  <2> QED
    BY <2>4, <2>6, <2>7, <2>8
<1>4. Len(t) \in I
  <2> HIDE DEF I
  <2> QED
    BY <1>2, <1>3, NatInSet
<1> QED
  BY <1>4
-----------------------------------------------------------------------------
(* The pipe to the flusher, with one worker: numbers first. *)
Divides(a, m) == /\ a \div m \in Nat
                 /\ (a % m) \in 0 .. m - 1
                 /\ a = m * (a \div m) + (a % m)

(* Quotient and remainder. *)
LEMMA Division ==
  ASSUME NEW a \in Nat, NEW m \in Nat \ {0}
  PROVE  Divides(a, m)
BY DEF Divides

(* What division leaves, multiplied again. *)
LEMMA Product ==
  ASSUME NEW m \in Nat, m > 0, NEW d \in Nat, d > 0
  PROVE  m * d >= m
OBVIOUS

(* Positions less than a ring apart have slots of their own. *)
LEMMA SlotsApart ==
  ASSUME NEW a \in Nat, NEW b \in Nat, a < b, b - a < RingSize
  PROVE  a % RingSize # b % RingSize
<1> DEFINE m == RingSize
           i == a \div m
           j == b \div m
           x == a % m
           y == b % m
<1>1. m \in Nat /\ m > 1 /\ b - a < m
  BY WorkerAssumption
<1>2. Divides(a, m) /\ Divides(b, m)
  <2> HIDE DEF m
  <2> QED
    BY <1>1, Division
<1>3. i \in Nat /\ j \in Nat /\ a = m * i + x /\ b = m * j + y /\ x \in Nat /\ y \in Nat
  BY <1>1, <1>2 DEF Divides
<1>4. SUFFICES ASSUME x = y PROVE FALSE
  OBVIOUS
<1> HIDE DEF m, i, j, x, y
<1>5. CASE j <= i
  <2>1. PICK d \in Nat : i = j + d
    BY <1>3, <1>5
  <2>2. m * i = m * j + m * d /\ m * d >= 0
    BY <1>1, <1>3, <2>1
  <2> QED
    BY <1>1, <1>3, <1>4, <2>2
<1>6. CASE j > i
  <2>1. PICK d \in Nat : j = i + d /\ d > 0
    BY <1>3, <1>6
  <2>2. m * j = m * i + m * d
    BY <1>1, <1>3, <2>1
  <2>3. m * d >= m
    BY <1>1, <2>1, Product
  <2> QED
    BY <1>1, <1>3, <1>4, <2>2, <2>3
<1> QED
  BY <1>3, <1>5, <1>6
-----------------------------------------------------------------------------
(* With one worker the pipe to the flusher is a queue: the slots from the  *)
(* reader to the writer hold signals, fewer than there are slots, and a    *)
(* put stores its signal in the slot the writer will give up.              *)
RingInv ==
  /\ writePos - readPos <= RingSize - 1
  /\ \A p \in readPos .. writePos - 1 : slots[p % RingSize] \in Signals
  /\ put[0] # None =>
       /\ put[0].pos = writePos
       /\ put[0].stored => /\ writePos - readPos < RingSize - 1
                           /\ slots[writePos % RingSize] = put[0].signal

Queue == [i \in 1 .. writePos - readPos |-> slots[(readPos + i - 1) % RingSize]]
InPut == IF put[0] = None THEN << >> ELSE <<put[0].signal>>

(* One worker is worker 0, and has every region (regionIDToWorkerID). *)
LEMMA OneOnly ==
  ASSUME WorkerCount = 1
  PROVE  /\ Workers = {0}
         /\ \A r \in Regions : WorkerOf(r) = 0
<1>1. Workers = {0}
  BY DEF Workers
<1>2. ASSUME NEW r \in Regions
      PROVE  WorkerOf(r) = 0
  <2>1. r \in Nat
    BY WorkerAssumption
  <2>2. Divides(r, 1)
    BY <2>1, Division
  <2> QED
    BY <2>1, <2>2 DEF WorkerOf, Divides
<1> QED
  BY <1>1, <1>2

(* What RegionInv says of the pipe to the flusher and of the put into it.  *)
LEMMA RingTypes ==
  ASSUME WorkerCount = 1, RegionInv
  PROVE  /\ slots \in [0 .. RingSize - 1 -> Signals \cup {None}]
         /\ writePos \in Nat /\ readPos \in Nat /\ readPos <= writePos
         /\ flushing \in Signals \cup {None}
         /\ put[0] \in Puts \cup {None} /\ DOMAIN put = {0}
         /\ put[0] # None => /\ put[0].signal \in Signals /\ put[0].pos \in Nat
                             /\ put[0].stored \in BOOLEAN
         /\ RingSize \in Nat /\ RingSize > 1
<1>1. 0 \in Workers /\ Workers = {0}
  BY OneOnly
<1>2. Flushed /\ OfWorkers /\ Held(0)
  BY <1>1 DEF RegionInv
<1>3. put[0] \in Puts \cup {None} /\ DOMAIN put = {0}
  BY <1>1, <1>2 DEF Held, OfWorkers
<1>4. put[0] # None => /\ put[0].signal \in Signals /\ put[0].pos \in Nat
                       /\ put[0].stored \in BOOLEAN
  BY <1>3 DEF Puts
<1>5. RingSize \in Nat /\ RingSize > 1
  BY WorkerAssumption
<1> QED
  BY <1>2, <1>3, <1>4, <1>5 DEF Flushed

(* The signals in flight: the one being flushed, those in the pipe, the    *)
(* one being put.                                                          *)
LEMMA InFlightParts ==
  ASSUME WorkerCount = 1, RegionInv, RingInv
  PROVE  /\ InFlight(0) = (Optional(flushing) \o Queue) \o InPut
         /\ Optional(flushing) \in Seq(Signals) /\ Queue \in Seq(Signals)
         /\ Len(Queue) = writePos - readPos
         /\ InPut \in Seq(Signals) /\ InFlight(0) \in Seq(Signals)
<1>1. InFlight(0) = (Optional(flushing) \o Queue) \o InPut
  BY DEF InFlight, Queue, InPut
<1>2. Optional(flushing) \in Seq(Signals) /\ InPut \in Seq(Signals)
  BY RingTypes DEF Optional, InPut
<1>3. Queue \in Seq(Signals) /\ Len(Queue) = writePos - readPos
  <2>1. writePos - readPos \in Nat
    BY RingTypes
  <2>2. ASSUME NEW i \in 1 .. writePos - readPos
        PROVE  slots[(readPos + i - 1) % RingSize] \in Signals
    <3>1. readPos + i - 1 \in readPos .. writePos - 1
      BY RingTypes
    <3> QED
      BY <3>1 DEF RingInv
  <2> QED
    BY <2>1, <2>2 DEF Queue
<1>4. InFlight(0) \in Seq(Signals)
  BY <1>1, <1>2, <1>3, ConcatProperties
<1> QED
  BY <1>1, <1>2, <1>3, <1>4
-----------------------------------------------------------------------------
(* What a step does to the signals in flight: nothing, add one at the end, *)
(* take the first away.                                                    *)
Kept     == InFlight(0)' = InFlight(0)
Added(s) == InFlight(0)' = Append(InFlight(0), s)
Removed  == InFlight(0) = <<flushing>> \o InFlight(0)'

(* A step that leaves put, pipe and flusher alone keeps what is in flight. *)
LEMMA RingUntouched ==
  ASSUME RingInv, UNCHANGED <<put, flusherPipe, flushing>>
  PROVE  RingInv' /\ Kept
BY DEF RingInv, Kept, InFlight, flusherPipe

(* sendFlushSignal begins a put. *)
LEMMA PutBegins ==
  ASSUME WorkerCount = 1, RegionInv, RingInv, NEW s \in Signals, put[0] = None,
         put'[0] # None, put'[0].pos = writePos, put'[0].signal = s, ~put'[0].stored,
         UNCHANGED <<flusherPipe, flushing>>
  PROVE  RingInv' /\ Added(s)
<1>1. RingInv'
  BY DEF RingInv, flusherPipe
<1>2. /\ InFlight(0) = (Optional(flushing) \o Queue) \o << >>
      /\ InFlight(0)' = (Optional(flushing) \o Queue) \o <<s>>
  BY DEF InFlight, Queue, flusherPipe, Optional
<1>3. Optional(flushing) \o Queue \in Seq(Signals)
  BY InFlightParts, ConcatProperties
<1>4. (Optional(flushing) \o Queue) \o << >> = Optional(flushing) \o Queue
  BY <1>3, ConcatEmptySeq
<1>5. Append(Optional(flushing) \o Queue, s) = (Optional(flushing) \o Queue) \o <<s>>
  BY <1>3, AppendIsConcat
<1> QED
  BY <1>1, <1>2, <1>4, <1>5 DEF Added

(* PipeRing::put stores the signal in a slot no reader is waiting for.     *)
LEMMA PutStores ==
  ASSUME WorkerCount = 1, RegionInv, RingInv, PutStore(0)
  PROVE  RingInv' /\ Kept
<1> DEFINE k == writePos % RingSize
<1>1. /\ put[0] # None /\ ~put[0].stored /\ writePos # RingSize - 1 + readPos
      /\ slots' = [slots EXCEPT ![k] = put[0].signal]
      /\ put' = [put EXCEPT ![0].stored = TRUE]
      /\ UNCHANGED <<writePos, readPos, flushing>>
  BY DEF PutStore, RingFull, RingInv
<1>2. /\ put'[0] # None /\ put'[0].pos = writePos /\ put'[0].signal = put[0].signal
  <2>1. put[0] \in Puts /\ DOMAIN put = {0} /\ put[0].pos = writePos
    BY <1>1, RingTypes DEF RingInv
  <2>2. put'[0] = [put[0] EXCEPT !.stored = TRUE]
    BY <1>1, <2>1
  <2>3. put'[0] \in Puts /\ put'[0].pos = put[0].pos /\ put'[0].signal = put[0].signal
    BY <2>1, <2>2 DEF Puts
  <2> QED
    BY <2>1, <2>3, NoContextAssumption
<1>3. writePos - readPos < RingSize - 1
  <2>1. /\ writePos - readPos <= RingSize - 1 /\ writePos # RingSize - 1 + readPos
        /\ writePos \in Nat /\ readPos \in Nat /\ RingSize \in Nat
    BY <1>1, RingTypes DEF RingInv
  <2> QED
    BY <2>1
<1>4. ASSUME NEW p \in readPos .. writePos - 1
      PROVE  slots'[p % RingSize] = slots[p % RingSize]
  <2>1. p \in Nat /\ writePos \in Nat /\ p < writePos /\ writePos - p < RingSize
    BY <1>3, RingTypes
  <2>2. p % RingSize # k
    BY <2>1, SlotsApart
  <2> QED
    BY <1>1, <2>2, RingTypes
<1>5. k \in 0 .. RingSize - 1
  BY RingTypes, SlotOf
<1>6. slots'[k] = put[0].signal
  BY <1>1, <1>5, RingTypes
<1>7. RingInv'
  <2> HIDE DEF k
  <2>1. writePos' % RingSize = k
    BY <1>1 DEF k
  <2>2. \A p \in readPos .. writePos - 1 : slots'[p % RingSize] \in Signals
    BY <1>4 DEF RingInv
  <2> QED
    BY <1>1, <1>2, <1>3, <1>6, <2>1, <2>2 DEF RingInv
<1>8. Queue' = Queue
  <2>1. ASSUME NEW i \in 1 .. writePos - readPos
        PROVE  slots'[(readPos + i - 1) % RingSize] = slots[(readPos + i - 1) % RingSize]
    <3>1. readPos + i - 1 \in readPos .. writePos - 1
      BY RingTypes
    <3> QED
      BY <1>4, <3>1
  <2> QED
    BY <1>1, <2>1 DEF Queue
<1>9. InPut' = InPut
  BY <1>1, <1>2 DEF InPut
<1> QED
  BY <1>1, <1>7, <1>8, <1>9 DEF Kept, InFlight, Queue, InPut, Optional

(* PipeRing::put returns: the signal is the last of the queue.             *)
LEMMA PutReturns ==
  ASSUME WorkerCount = 1, RegionInv, RingInv, PutReturn(0)
  PROVE  RingInv' /\ Kept
<1> DEFINE s == put[0].signal
           n == writePos - readPos
<1>1. /\ put[0] # None /\ put[0].stored /\ put' = [put EXCEPT ![0] = None]
      /\ writePos' = writePos + 1
      /\ UNCHANGED <<slots, readPos, flushing>>
  BY DEF PutReturn
<1>2. put'[0] = None
  BY <1>1, RingTypes
<1>3. n < RingSize - 1 /\ slots[writePos % RingSize] = s /\ s \in Signals /\ n \in Nat
  BY <1>1, RingTypes DEF RingInv
<1>4. RingInv'
  <2>1. ASSUME NEW p \in readPos .. writePos
        PROVE  slots[p % RingSize] \in Signals
    <3>1. p \in readPos .. writePos - 1 \/ p = writePos
      BY RingTypes
    <3> QED
      BY <1>3, <3>1 DEF RingInv
  <2>2. writePos' - 1 = writePos /\ writePos' - readPos <= RingSize - 1
    BY <1>1, <1>3, RingTypes
  <2> QED
    BY <1>1, <1>2, <2>1, <2>2 DEF RingInv
<1>5. Queue' = Append(Queue, s)
  <2>1. Queue \in Seq(Signals) /\ Len(Queue) = n
    BY InFlightParts
  <2>2. Queue' = [i \in 1 .. n + 1 |-> slots[(readPos + i - 1) % RingSize]]
    <3>1. writePos' - readPos' = n + 1
      BY <1>1, RingTypes
    <3> QED
      BY <1>1, <3>1 DEF Queue
  <2>3. \A i \in 1 .. n + 1 : slots[(readPos + i - 1) % RingSize]
                                = IF i = n + 1 THEN s ELSE Queue[i]
    <3>1. readPos + (n + 1) - 1 = writePos
      BY RingTypes
    <3>2. \A i \in 1 .. n : Queue[i] = slots[(readPos + i - 1) % RingSize]
      BY DEF Queue
    <3> QED
      BY <1>3, <3>1, <3>2
  <2>4. Append(Queue, s) = [i \in 1 .. n + 1 |-> IF i = n + 1 THEN s ELSE Queue[i]]
    <3> HIDE DEF n, s
    <3> DEFINE t == Queue
    <3>1. t \in Seq(Signals) /\ Len(t) = n /\ n \in Nat /\ s \in Signals
      BY <1>3, <2>1
    <3> HIDE DEF t
    <3>2. Append(t, s) = [i \in 1 .. n + 1 |-> IF i = n + 1 THEN s ELSE t[i]]
      <4>1. \A i \in 1 .. n + 1 : Append(t, s)[i] = IF i = n + 1 THEN s ELSE t[i]
        BY <3>1
      <4>2. Append(t, s) = [i \in 1 .. n + 1 |-> Append(t, s)[i]]
        <5> DEFINE u == Append(t, s)
        <5>1. u \in Seq(Signals) /\ Len(u) = n + 1
          BY <3>1
        <5> HIDE DEF u
        <5>2. u = [i \in 1 .. n + 1 |-> u[i]]
          BY <3>1, <5>1
        <5> QED
          BY <5>2 DEF u
      <4> QED
        BY <4>1, <4>2
    <3> QED
      BY <3>2 DEF t
  <2> QED
    BY <2>2, <2>3, <2>4
<1>6. InFlight(0)' = (Optional(flushing) \o Append(Queue, s)) \o << >>
  BY <1>1, <1>2, <1>5 DEF InFlight, Queue, Optional
<1>7. InFlight(0) = (Optional(flushing) \o Queue) \o <<s>>
  BY <1>1 DEF InFlight, Queue
<1> DEFINE f == Optional(flushing)
<1>8. /\ f \in Seq(Signals) /\ Queue \in Seq(Signals) /\ f \o Queue \in Seq(Signals)
      /\ Append(Queue, s) \in Seq(Signals) /\ f \o Append(Queue, s) \in Seq(Signals)
  <2> HIDE DEF f, s
  <2>1. f \in Seq(Signals) /\ Queue \in Seq(Signals)
    BY InFlightParts DEF f
  <2> QED
    BY <1>3, <2>1, ConcatProperties
<1> HIDE DEF f, s
<1>9. (f \o Append(Queue, s)) \o << >> = f \o Append(Queue, s)
  BY <1>8, ConcatEmptySeq
<1>10. Push(f, Queue, s)
  BY <1>3, <1>8, Pushing
<1>11. Append(f \o Queue, s) = (f \o Queue) \o <<s>>
  BY <1>3, <1>8, AppendIsConcat
<1> QED
  BY <1>4, <1>6, <1>7, <1>9, <1>10, <1>11 DEF Kept, Push, f, s

(* Flusher::getSignal takes the first signal of the queue.                 *)
LEMMA FlusherTakes ==
  ASSUME WorkerCount = 1, RegionInv, RingInv, GetFlush
  PROVE  RingInv' /\ Kept /\ flushing' \in Signals
<1> DEFINE s == slots[readPos % RingSize]
           n == writePos - readPos
<1>1. /\ flushing = None /\ writePos # readPos /\ flushing' = s /\ readPos' = readPos + 1
      /\ UNCHANGED <<slots, writePos, put>>
  BY DEF GetFlush
<1>2. n \in Nat /\ n > 0 /\ readPos \in readPos .. writePos - 1 /\ s \in Signals
  BY <1>1, RingTypes DEF RingInv
<1>3. RingInv'
  <2>1. writePos - readPos' <= RingSize - 1
        /\ (writePos - readPos < RingSize - 1 => writePos - readPos' < RingSize - 1)
    BY <1>1, RingTypes DEF RingInv
  <2>2. \A p \in readPos' .. writePos - 1 : p \in readPos .. writePos - 1
    BY <1>1, RingTypes
  <2> QED
    BY <1>1, <2>1, <2>2 DEF RingInv
<1>4. Queue = <<s>> \o Queue'
  <2>1. Queue' = [i \in 1 .. n - 1 |-> slots[((readPos + 1) + i - 1) % RingSize]]
    <3>1. writePos' - readPos' = n - 1
      BY <1>1, RingTypes
    <3> QED
      BY <1>1, <3>1 DEF Queue
  <2>2. Queue = [i \in 1 .. n |-> slots[(readPos + i - 1) % RingSize]]
    BY DEF Queue
  <2>3. \A i \in 1 .. n : slots[(readPos + i - 1) % RingSize]
                            = IF i = 1 THEN s ELSE Queue'[i - 1]
    <3>1. readPos + 1 - 1 = readPos
      BY RingTypes
    <3>2. \A i \in 1 .. n : i # 1 => /\ i - 1 \in 1 .. n - 1
                                     /\ (readPos + 1) + (i - 1) - 1 = readPos + i - 1
      BY RingTypes
    <3>3. \A j \in 1 .. n - 1 : Queue'[j] = slots[((readPos + 1) + j - 1) % RingSize]
      BY <2>1
    <3> QED
      BY <3>1, <3>2, <3>3
  <2>4. Queue' \in Seq(Signals) /\ Len(Queue') = n - 1
    <3>1. ASSUME NEW i \in 1 .. n - 1
          PROVE  slots[((readPos + 1) + i - 1) % RingSize] \in Signals
      <4>1. (readPos + 1) + i - 1 \in readPos .. writePos - 1
        BY RingTypes
      <4> QED
        BY <4>1 DEF RingInv
    <3>2. n - 1 \in Nat
      BY <1>2
    <3> HIDE DEF n
    <3> QED
      BY <2>1, <3>1, <3>2
  <2>5. <<s>> \o Queue' = [i \in 1 .. n |-> IF i = 1 THEN s ELSE Queue'[i - 1]]
    <3> HIDE DEF n, s
    <3> DEFINE t == Queue'
    <3>1. t \in Seq(Signals) /\ Len(t) = n - 1
      BY <2>4
    <3> HIDE DEF t
    <3>2. <<s>> \o t = [i \in 1 .. n |-> IF i = 1 THEN s ELSE t[i - 1]]
      BY <1>2, <3>1
    <3> QED
      BY <3>2 DEF t
  <2> QED
    BY <2>2, <2>3, <2>5
<1>5. Queue \in Seq(Signals)
  BY InFlightParts
<1>6. << >> \o Queue = Queue
  BY <1>5, ConcatEmptySeq
<1>7. Kept
  <2>1. s # None
    BY <1>2, NoContextAssumption
  <2>2. InFlight(0) = (<< >> \o Queue) \o InPut
    BY <1>1 DEF InFlight, Queue, InPut, Optional
  <2>3. InFlight(0)' = (<<s>> \o Queue') \o InPut
    BY <1>1, <2>1 DEF InFlight, Queue, InPut, Optional
  <2> QED
    BY <1>4, <1>6, <2>2, <2>3 DEF Kept
<1> QED
  BY <1>1, <1>2, <1>3, <1>7

(* The flusher is done with a signal, whether it could write the block or  *)
(* not.                                                                    *)
LEMMA FlusherDone ==
  ASSUME WorkerCount = 1, RegionInv, RingInv, flushing # None, flushing' = None,
         UNCHANGED <<put, flusherPipe>>
  PROVE  RingInv' /\ Removed /\ InFlight(0)' \in Seq(Signals)
<1>1. RingInv'
  BY DEF RingInv, flusherPipe
<1>2. flushing \in Signals /\ Queue \in Seq(Signals) /\ InPut \in Seq(Signals)
      /\ <<flushing>> \in Seq(Signals)
  BY RingTypes, InFlightParts
<1>3. InFlight(0) = (<<flushing>> \o Queue) \o InPut
  BY DEF InFlight, Queue, InPut, Optional
<1>4. InFlight(0)' = (<< >> \o Queue) \o InPut
  BY DEF InFlight, Queue, InPut, Optional, flusherPipe
<1>5. << >> \o Queue = Queue
  BY <1>2, ConcatEmptySeq
<1>6. Regroup(<<flushing>>, Queue, InPut)
  BY <1>2, Regrouping
<1>7. Queue \o InPut \in Seq(Signals)
  BY <1>2, ConcatProperties
<1> QED
  BY <1>1, <1>3, <1>4, <1>5, <1>6, <1>7 DEF Removed, Regroup
-----------------------------------------------------------------------------
(* Initially nothing is in flight. *)
LEMMA RingInit == Init => RingInv
<1> SUFFICES ASSUME Init
             PROVE  RingInv
  OBVIOUS
<1>1. 0 \in Workers /\ RingSize \in Nat /\ RingSize > 1
  BY WorkerAssumption DEF Workers
<1>2. put[0] = None /\ writePos = 0 /\ readPos = 0
  BY <1>1 DEF Init
<1> QED
  BY <1>1, <1>2 DEF RingInv

(* Signals and blocks carry rows. *)
LEMMA RowsOfData == HaveRows(Signals) /\ HaveRows(Blocks)
BY DEF HaveRows, Signals, Blocks

(* What the rows in flight become.                                         *)
LEMMA AddedRows ==
  ASSUME WorkerCount = 1, RegionInv, RingInv, NEW s \in Signals, Added(s), NEW S
  PROVE  RowsIn(InFlight(0)', S) = RowsIn(InFlight(0), S) \o Piece(s, S)
<1>1. InFlight(0) \in Seq(Signals) /\ InFlight(0)' = Append(InFlight(0), s)
  BY InFlightParts DEF Added
<1> QED
  BY <1>1, RowsInAppend, RowsOfData

(* The rows in flight without those of the signal the flusher had. *)
LEMMA RemovedRows ==
  ASSUME Removed, InFlight(0)' \in Seq(Signals), flushing \in Signals, NEW S
  PROVE  RowsIn(InFlight(0), S) = Piece(flushing, S) \o RowsIn(InFlight(0)', S)
<1>1. <<flushing>> \in Seq(Signals) /\ InFlight(0) = <<flushing>> \o InFlight(0)'
  BY DEF Removed
<1>2. RowsIn(<<flushing>> \o InFlight(0)', S) = RowsIn(<<flushing>>, S) \o RowsIn(InFlight(0)', S)
  <2> DEFINE s == <<flushing>>
             t == InFlight(0)'
  <2>1. s \in Seq(Signals) /\ t \in Seq(Signals)
    BY <1>1
  <2> HIDE DEF s, t
  <2>2. RowsIn(s \o t, S) = RowsIn(s, S) \o RowsIn(t, S)
    BY <2>1, RowsInConcat, RowsOfData
  <2> QED
    BY <2>2 DEF s, t
<1>3. RowsIn(<<flushing>>, S) = Piece(flushing, S)
  BY RowsInOne, RowsOfData
<1> QED
  BY <1>1, <1>2, <1>3

(* The rows in flight for a region, after a step. *)
LEMMA FrozenNext == \A r : Frozen(0, r)' = RowsIn(InFlight(0)', SignalsOf(r))
BY DEF Frozen

(* The three parts of a log. *)
LEMMA LogParts ==
  ASSUME WorkerCount = 1, RegionInv, RingInv, NEW r \in Regions
  PROVE  /\ RowsOf(files[r]) \in Seq(RowSet)
         /\ Frozen(0, r) \in Seq(RowSet)
         /\ MemRows(0, r) \in Seq(RowSet)
         /\ Log(0, r) = (RowsOf(files[r]) \o Frozen(0, r)) \o MemRows(0, r)
<1>1. files[r] \in Seq(Blocks) /\ InFlight(0) \in Seq(Signals)
  BY InFlightParts DEF RegionInv, Stored
<1>2. RowsOf(files[r]) \in Seq(RowSet) /\ Frozen(0, r) \in Seq(RowSet)
  BY <1>1, RowsInType, RowsOfData DEF RowsOf, Frozen
<1>3. MemRows(0, r) \in Seq(RowSet)
  <2>1. Held(0)
    BY OneOnly DEF RegionInv
  <2>2. Open(0, r) => regions[0][r].mem \in Memtables
    BY <2>1, OneOnly, OpenShape
  <2> QED
    BY <2>2 DEF MemRows, Memtables
<1> QED
  BY <1>2, <1>3 DEF Log
-----------------------------------------------------------------------------
(* What a worker has of a region. *)
View(r) == <<regions[0][r], closedRegions[0][r], dropingRegions[0][r]>>

(* A region whose contexts stay keeps its status, its memtable and its     *)
(* SST.                                                                    *)
LEMMA SameView ==
  ASSUME WorkerCount = 1, NEW r \in Regions, View(r)' = View(r)
  PROVE  /\ Status(r)' = Status(r) /\ MemRows(0, r)' = MemRows(0, r)
         /\ Context(0, r)' = Context(0, r) /\ (Exists(r)' <=> Exists(r))
<1>1. WorkerOf(r) = 0 /\ Workers = {0}
  BY OneOnly
<1>2. /\ regions'[0][r] = regions[0][r] /\ closedRegions'[0][r] = closedRegions[0][r]
      /\ dropingRegions'[0][r] = dropingRegions[0][r]
  BY DEF View
<1> QED
  BY <1>1, <1>2 DEF Status, MemRows, Context, Exists, Open, Closed

(* A step that leaves the contexts alone leaves every region's. *)
LEMMA SameViews ==
  ASSUME UNCHANGED contexts
  PROVE  \A r \in Regions : View(r)' = View(r)
BY DEF contexts, View

(* A region is given a memtable. *)
LEMMA MemtableOf ==
  ASSUME WorkerCount = 1, RegionInv, NEW r \in Regions, Open(0, r),
         NEW mem \in Memtables, regions' = [regions EXCEPT ![0][r].mem = mem],
         UNCHANGED <<closedRegions, dropingRegions>>
  PROVE  /\ \A x \in Regions : x # r => View(x)' = View(x)
         /\ Open(0, r)' /\ regions'[0][r].mem = mem /\ regions'[0][r].sst = regions[0][r].sst
         /\ Status(r)' = Status(r) /\ Context(0, r)'.sst = Context(0, r).sst
         /\ MemRows(0, r)' = mem.rows
<1>1. /\ Workers = {0} /\ WorkerOf(r) = 0 /\ Held(0) /\ DOMAIN regions = {0}
      /\ regions[0] \in [Regions -> Contexts \cup {None}]
  BY OneOnly DEF RegionInv, OfWorkers, Held
<1>2. regions[0][r] \in Contexts
  BY <1>1, OpenShape
<1> DEFINE ctx == [regions[0][r] EXCEPT !.mem = mem]
<1>3. ctx \in Contexts /\ ctx.mem = mem /\ ctx.sst = regions[0][r].sst
  BY <1>2 DEF Contexts
<1>4. regions' = [regions EXCEPT ![0] = [regions[0] EXCEPT ![r] = ctx]]
  BY <1>1
<1> HIDE DEF ctx
<1>5. regions'[0] = [regions[0] EXCEPT ![r] = ctx]
  BY <1>1, <1>4
<1>6. regions'[0][r] = ctx /\ \A x \in Regions : x # r => regions'[0][x] = regions[0][x]
  BY <1>1, <1>5
<1>7. Open(0, r)'
  BY <1>3, <1>6, NoContextAssumption DEF Open
<1> QED
  BY <1>1, <1>3, <1>6, <1>7 DEF View, Status, Context, MemRows, Open, Closed

(* A row is written to the memtable of its region.                         *)
LEMMA WriteRowEffect ==
  ASSUME WorkerCount = 1, RegionInv, NEW q \in Requested, q.kind = "WRITE",
         Open(0, q.region), WriteRow(0, q), UNCHANGED <<closedRegions, dropingRegions>>
  PROVE  LET r == q.region IN
         /\ \A x \in Regions : x # r => View(x)' = View(x) /\ accepted'[x] = accepted[x]
         /\ Open(0, r)' /\ Status(r)' = Status(r) /\ Context(0, r)'.sst = Context(0, r).sst
         /\ Row(q.id, q.ts) \in RowSet
         /\ MemRows(0, r)' = Append(MemRows(0, r), Row(q.id, q.ts))
         /\ accepted'[r] = Append(accepted[r], Row(q.id, q.ts))
<1> DEFINE r == q.region
           mem == Written(regions[0][r].mem, q)
<1>1. r \in Regions /\ q.id \in Ids /\ q.ts \in Times /\ q.size \in Sizes
  BY RequestedShape
<1>2. Row(q.id, q.ts) \in RowSet
  BY <1>1 DEF RowSet
<1>3. /\ regions' = [regions EXCEPT ![0][r].mem = mem]
      /\ accepted' = [accepted EXCEPT ![r] = Append(@, Row(q.id, q.ts))]
  BY DEF WriteRow
<1>4. regions[0][r].mem \in Memtables
  <2>1. Held(0)
    BY OneOnly DEF RegionInv
  <2> QED
    BY <1>1, <2>1, OneOnly, OpenShape
<1>5. mem \in Memtables /\ mem.rows = Append(regions[0][r].mem.rows, Row(q.id, q.ts))
  <2> DEFINE m == regions[0][r].mem
             row == Row(q.id, q.ts)
  <2>1. /\ m.rows \in Seq(RowSet) /\ m.used \in Nat /\ m.min \in Nat /\ m.max \in Nat
        /\ row \in RowSet /\ q.size \in Nat /\ q.ts \in Nat
    BY <1>1, <1>2, <1>4, WorkerAssumption DEF Memtables
  <2> HIDE DEF m, row
  <2>2. /\ Append(m.rows, row) \in Seq(RowSet) /\ m.used + q.size \in Nat
        /\ (IF q.ts < m.min THEN q.ts ELSE m.min) \in Nat
        /\ (IF q.ts > m.max THEN q.ts ELSE m.max) \in Nat
    BY <2>1
  <2> QED
    BY <2>2 DEF Written, Memtables, m, row
<1>6. MemRows(0, r) = regions[0][r].mem.rows
  BY DEF MemRows
<1>7. /\ accepted'[r] = Append(accepted[r], Row(q.id, q.ts))
      /\ \A x \in Regions : x # r => accepted'[x] = accepted[x]
  BY <1>1, <1>3 DEF RegionInv, Stored
<1> HIDE DEF mem
<1> QED
  BY <1>1, <1>2, <1>3, <1>5, <1>6, <1>7, MemtableOf

(* sendFlushSignal: the rows of the memtable are in flight.                *)
LEMMA SendEffect ==
  ASSUME WorkerCount = 1, RegionInv, RingInv, NEW q \in Requested, put[0] = None,
         Open(0, q.region), SendFlushSignal(0, q), UNCHANGED <<flusherPipe, flushing>>
  PROVE  LET r == q.region
             s == Signal(r, regions[0][r]) IN
         /\ RingInv' /\ Added(s) /\ s \in Signals
         /\ s.region = r /\ s.sst = Context(0, r).sst /\ s.rows = MemRows(0, r)
         /\ put'[0] # None /\ put'[0].request = q
         /\ \A x \in Regions : x # r => View(x)' = View(x)
         /\ Open(0, r)' /\ Status(r)' = Status(r) /\ Context(0, r)'.sst = Context(0, r).sst
         /\ MemRows(0, r)' = << >>
<1> DEFINE r == q.region
           s == Signal(r, regions[0][r])
           p == [request |-> q, signal |-> s, pos |-> writePos, stored |-> FALSE]
<1>1. Held(0) /\ 0 \in Workers /\ r \in Regions
  BY OneOnly, RequestedShape DEF RegionInv
<1>2. /\ regions[0][r] \in Contexts /\ regions[0][r].mem \in Memtables
  BY <1>1, OpenShape
<1>3. /\ s \in Signals /\ s.region = r /\ s.sst = regions[0][r].sst
      /\ s.rows = regions[0][r].mem.rows
  BY <1>1, <1>2 DEF Signal, Signals, Contexts, Memtables
<1>4. /\ regions' = [regions EXCEPT ![0][r].mem = NewMemtable]
      /\ put' = [put EXCEPT ![0] = p] /\ UNCHANGED <<closedRegions, dropingRegions>>
  BY DEF SendFlushSignal
<1> HIDE DEF s
<1>5. /\ p.request = q /\ p.signal = s /\ p.pos = writePos /\ ~p.stored /\ p # None
  <2>1. p \in Puts
    BY <1>3, RingTypes DEF Puts
  <2> QED
    BY <2>1, NoContextAssumption
<1> HIDE DEF p
<1>6. put'[0] = p
  BY <1>4, RingTypes
<1>7. RingInv' /\ Added(s)
  BY <1>3, <1>5, <1>6, PutBegins
<1>8. NewMemtable.rows = << >>
  BY DEF NewMemtable
<1> HIDE DEF r
<1>9. /\ \A x \in Regions : x # r => View(x)' = View(x)
      /\ Open(0, r)' /\ Status(r)' = Status(r) /\ Context(0, r)'.sst = Context(0, r).sst
      /\ MemRows(0, r)' = << >>
  <2>1. Open(0, r) /\ NewMemtable \in Memtables
    BY NewShape DEF r
  <2> QED
    BY <1>1, <1>4, <1>8, <2>1, MemtableOf
<1>10. MemRows(0, r) = regions[0][r].mem.rows /\ Context(0, r) = regions[0][r]
  BY DEF MemRows, Context, r
<1> QED
  BY <1>3, <1>5, <1>6, <1>7, <1>9, <1>10 DEF r, s

(* A region's context moves to the closed ones, its memtable being empty.  *)
LEMMA CloseEffect ==
  ASSUME WorkerCount = 1, RegionInv, NEW r \in Regions, Open(0, r),
         regions[0][r].mem.rows = << >>, MoveToClosed(0, r), UNCHANGED dropingRegions
  PROVE  /\ \A x \in Regions : x # r => View(x)' = View(x)
         /\ ~Open(0, r)' /\ Closed(0, r)' /\ Context(0, r)'.sst = Context(0, r).sst
         /\ Status(r) = "open" /\ Status(r)' = "closed"
         /\ MemRows(0, r)' = MemRows(0, r)
<1>1. /\ Workers = {0} /\ WorkerOf(r) = 0 /\ Held(0)
      /\ DOMAIN regions = {0} /\ DOMAIN closedRegions = {0}
      /\ regions[0] \in [Regions -> Contexts \cup {None}]
      /\ closedRegions[0] \in [Regions -> Contexts \cup {None}]
  BY OneOnly DEF RegionInv, OfWorkers, Held
<1>2. regions[0][r] \in Contexts
  BY <1>1, OpenShape
<1> DEFINE ctx == [regions[0][r] EXCEPT !.mem = None]
<1>3. ctx \in Contexts /\ ctx.sst = regions[0][r].sst
  BY <1>2 DEF Contexts
<1>4. /\ closedRegions' = [closedRegions EXCEPT ![0][r] = ctx]
      /\ regions' = [regions EXCEPT ![0][r] = None]
  BY DEF MoveToClosed
<1> HIDE DEF ctx
<1>5. /\ regions'[0] = [regions[0] EXCEPT ![r] = None]
      /\ closedRegions'[0] = [closedRegions[0] EXCEPT ![r] = ctx]
  BY <1>1, <1>4
<1>6. /\ regions'[0][r] = None /\ closedRegions'[0][r] = ctx
      /\ \A x \in Regions : x # r => /\ regions'[0][x] = regions[0][x]
                                     /\ closedRegions'[0][x] = closedRegions[0][x]
  BY <1>1, <1>5
<1>7. ctx # None
  BY <1>3, NoContextAssumption
<1>8. ~Open(0, r)' /\ Closed(0, r)'
  BY <1>6, <1>7 DEF Open, Closed
<1>9. Status(r) = "open" /\ Status(r)' = "closed"
  BY <1>1, <1>8 DEF Status
<1>10. MemRows(0, r)' = << >> /\ MemRows(0, r) = << >>
  BY <1>8 DEF MemRows
<1>11. \A x \in Regions : x # r => View(x)' = View(x)
  BY <1>6 DEF View
<1>12. Context(0, r)' = ctx /\ Context(0, r) = regions[0][r]
  BY <1>6, <1>8 DEF Context
<1> QED
  BY <1>3, <1>8, <1>9, <1>10, <1>11, <1>12
-----------------------------------------------------------------------------
(* No region is open and closed, and what is to be created neither exists  *)
(* nor is to be created twice.                                             *)
ToCreate(r, i) == enginePipe[0][i].kind = "CREATE" /\ enginePipe[0][i].region = r

CreateInv == \A r \in Regions :
  /\ ~(Open(0, r) /\ Closed(0, r))
  /\ \A i \in 1 .. Len(enginePipe[0]) : ToCreate(r, i) =>
       /\ ~Exists(r)
       /\ \A j \in 1 .. Len(enginePipe[0]) : ToCreate(r, j) => j = i

(* Initially no region exists. *)
LEMMA CreateInit == Init => CreateInv
<1> SUFFICES ASSUME Init
             PROVE  CreateInv
  OBVIOUS
<1>1. 0 \in Workers
  BY WorkerAssumption DEF Workers
<1>2. enginePipe[0] = << >> /\ \A r \in Regions : ~Open(0, r)
  BY <1>1 DEF Init, Open
<1> QED
  BY <1>2 DEF CreateInv

(* What is left of the pipe of a worker that took the head.                *)
LEMMA PipeTaken ==
  ASSUME WorkerCount = 1, RegionInv, NEW q, Take(0), enginePipe[0] # << >>,
         q = Head(enginePipe[0])
  PROVE  /\ put[0] = None /\ q \in Requested /\ requests' = requests
         /\ Len(enginePipe'[0]) = Len(enginePipe[0]) - 1 /\ Len(enginePipe[0]) \in Nat
         /\ enginePipe[0][1] = q
         /\ \A i \in 1 .. Len(enginePipe'[0]) : /\ enginePipe'[0][i] = enginePipe[0][i + 1]
                                               /\ i + 1 \in 1 .. Len(enginePipe[0])
         /\ 1 \in 1 .. Len(enginePipe[0])
<1>1. 0 \in Workers /\ Arriving
  BY OneOnly DEF RegionInv
<1>2. enginePipe[0] \in Seq(Requested) /\ put[0] = None /\ q \in Requested
  BY <1>1, TakeShape DEF Arriving
<1>3. enginePipe'[0] = Tail(enginePipe[0]) /\ requests' = requests
  BY <1>1 DEF Take, Arriving
<1> DEFINE s == enginePipe[0]
<1>4. s \in Seq(Requested) /\ s # << >>
  BY <1>2
<1> HIDE DEF s
<1>5. /\ Len(Tail(s)) = Len(s) - 1 /\ Len(s) \in Nat /\ s[1] = Head(s)
      /\ \A i \in 1 .. Len(Tail(s)) : Tail(s)[i] = s[i + 1] /\ i + 1 \in 1 .. Len(s)
      /\ 1 \in 1 .. Len(s)
  BY <1>4
<1> QED
  BY <1>2, <1>3, <1>5 DEF s

(* The worker takes a signal: only a CREATE makes a region exist. *)
LEMMA CreateTaken ==
  ASSUME WorkerCount = 1, RegionInv, CreateInv, NEW q, Take(0), enginePipe[0] # << >>,
         q = Head(enginePipe[0]),
         \A r \in Regions : ~(Open(0, r)' /\ Closed(0, r)'),
         \A r \in Regions : Exists(r)' => Exists(r) \/ (q.kind = "CREATE" /\ q.region = r)
  PROVE  CreateInv'
<1> DEFINE s == enginePipe[0]
           t == enginePipe'[0]
<1>1. /\ s[1] = q /\ 1 \in 1 .. Len(s)
      /\ \A i \in 1 .. Len(t) : t[i] = s[i + 1] /\ i + 1 \in 1 .. Len(s)
  BY PipeTaken
<1>2. ASSUME NEW r \in Regions, NEW i \in 1 .. Len(t), ToCreate(r, i)'
      PROVE  /\ ~Exists(r)'
             /\ \A j \in 1 .. Len(t) : ToCreate(r, j)' => j = i
  <2>1. \A j \in 1 .. Len(t) : /\ ToCreate(r, j)' <=> ToCreate(r, j + 1)
                               /\ j + 1 \in 1 .. Len(s)
    BY <1>1 DEF ToCreate
  <2>2. Len(t) \in Nat
    BY PipeTaken
  <2> HIDE DEF s, t
  <2>3. ToCreate(r, i + 1) /\ i + 1 \in 1 .. Len(s) /\ i + 1 # 1
    BY <1>2, <2>1, <2>2
  <2>4. /\ ~Exists(r)
        /\ \A j \in 1 .. Len(s) : ToCreate(r, j) => j = i + 1
    BY <2>3 DEF CreateInv, s
  <2>5. ~ToCreate(r, 1)
    BY <1>1, <2>3, <2>4
  <2>6. ~(q.kind = "CREATE" /\ q.region = r)
    BY <1>1, <2>5 DEF ToCreate, s
  <2>7. \A j \in 1 .. Len(t) : ToCreate(r, j)' => j = i
    <3>1. \A j \in 1 .. Len(t) : ToCreate(r, j)' => j + 1 = i + 1
      BY <2>1, <2>4
    <3> QED
      BY <2>2, <3>1
  <2> QED
    BY <2>4, <2>6, <2>7
<1> QED
  BY <1>2 DEF CreateInv
-----------------------------------------------------------------------------
(* A step that makes no region exist keeps what is to be created. *)
LEMMA CreateKept ==
  ASSUME CreateInv, UNCHANGED enginePipe,
         \A r \in Regions : /\ Exists(r)' => Exists(r)
                            /\ ~(Open(0, r)' /\ Closed(0, r)')
  PROVE  CreateInv'
BY DEF CreateInv, ToCreate

(* Unless clients create regions again, the engine hands over no creation  *)
(* of a region that exists or is to be created.                            *)
LEMMA CreateHandedOver ==
  ASSUME WorkerCount = 1, ~Recreate, RegionInv, CreateInv, Engine
  PROVE  CreateInv'
<1> PICK q \in NextRequests : /\ requests < MaxRequests
                              /\ q.kind = "CREATE" => ~Existing(q.region)
                              /\ Dispatch(q)
                              /\ UNCHANGED <<contexts, put, flusherPipe, flushing, disk, history>>
  BY DEF Engine
<1> DEFINE s == enginePipe[0]
<1>1. Arriving /\ Workers = {0}
  BY OneOnly DEF RegionInv
<1> PICK n \in Nat : n = Len(s)
  BY <1>1 DEF Arriving
<1>2. q \in Requested /\ q.region \in Regions
  <2>1. requests + 1 \in Ids
    BY <1>1, WorkerAssumption DEF Arriving, Ids
  <2>2. q \in Requested
    BY <2>1 DEF Requested, NextRequests
  <2> QED
    BY <2>2, RequestedShape
<1>3. WorkerOf(q.region) = 0
  BY <1>2, OneOnly
<1>4. enginePipe'[0] = Append(s, q) /\ s \in Seq(Requested)
  BY <1>1, <1>3 DEF Dispatch, Arriving
<1>5. /\ n \in Nat /\ Len(enginePipe'[0]) = n + 1 /\ enginePipe'[0][n + 1] = q
      /\ \A i \in 1 .. n : enginePipe'[0][i] = enginePipe[0][i]
  BY <1>2, <1>4
<1>6. \A r \in Regions : (Open(0, r)' <=> Open(0, r)) /\ (Closed(0, r)' <=> Closed(0, r))
  BY DEF Open, Closed, contexts
<1>7. \A r \in Regions : Exists(r)' <=> Exists(r)
  BY <1>1, <1>6 DEF Exists
<1>8. q.kind = "CREATE" => /\ ~Exists(q.region)
                           /\ \A i \in 1 .. n : ~ToCreate(q.region, i)
  <2>1. DOMAIN s = 1 .. n
    BY <1>4
  <2> QED
    BY <1>1, <2>1 DEF Existing, ToCreate
<1>9. ASSUME NEW r \in Regions
      PROVE  /\ \A i \in 1 .. n : ToCreate(r, i)' <=> ToCreate(r, i)
             /\ ToCreate(r, n + 1)' <=> (q.kind = "CREATE" /\ q.region = r)
  <2>1. \A i \in 1 .. n : ToCreate(r, i)' <=> ToCreate(r, i)
    BY <1>5 DEF ToCreate
  <2>2. ToCreate(r, n + 1)' <=> (q.kind = "CREATE" /\ q.region = r)
    BY <1>5 DEF ToCreate
  <2> QED
    BY <2>1, <2>2
<1>10. /\ \A r \in Regions : ~(Open(0, r) /\ Closed(0, r))
       /\ \A r \in Regions : \A i \in 1 .. n : ToCreate(r, i) =>
            ~Exists(r) /\ \A j \in 1 .. n : ToCreate(r, j) => j = i
  BY DEF CreateInv
<1> HIDE DEF s
<1>11. ASSUME NEW r \in Regions, NEW i \in 1 .. n + 1, ToCreate(r, i)'
       PROVE  /\ ~Exists(r)'
              /\ \A j \in 1 .. n + 1 : ToCreate(r, j)' => j = i
  <2>1. CASE i \in 1 .. n
    <3>1. ~Exists(r) /\ \A j \in 1 .. n : ToCreate(r, j) => j = i
      BY <1>9, <1>10, <1>11, <2>1
    <3>2. ~(q.kind = "CREATE" /\ q.region = r)
      BY <1>8, <1>9, <1>11, <2>1
    <3> QED
      BY <1>5, <1>7, <1>9, <3>1, <3>2
  <2>2. CASE i = n + 1
    <3>1. q.kind = "CREATE" /\ q.region = r
      BY <1>9, <1>11, <2>2
    <3>2. ~Exists(r) /\ \A j \in 1 .. n : ~ToCreate(r, j)
      BY <1>8, <3>1
    <3> QED
      BY <1>5, <1>7, <1>9, <2>2, <3>2
  <2> QED
    BY <1>5, <2>1, <2>2
<1> QED
  BY <1>5, <1>6, <1>10, <1>11 DEF CreateInv
-----------------------------------------------------------------------------
(* CREATE, OPEN and DROP, of the contexts a worker has.                    *)
LEMMA CreateEffect ==
  ASSUME WorkerCount = 1, RegionInv, NEW q \in Requested, Create(0, q)
  PROVE  LET r == q.region IN
         /\ r \in Regions
         /\ \A x \in Regions : x # r => View(x)' = View(x)
         /\ Open(0, r)' <=> Open(0, r)
         /\ Open(0, r) => Status(r)' = Status(r)
         /\ ~Open(0, r) => /\ Status(r) \in {"absent", "dropped", "closed"}
                           /\ Status(r)' = "closed"
                           /\ Closed(0, r)' /\ Context(0, r)'.sst = Len(metas[r]) + 1
         /\ MemRows(0, r)' = MemRows(0, r)
<1> DEFINE r == q.region
           ctx == [sst |-> Len(metas[r]) + 1, mem |-> None]
<1>1. r \in Regions /\ WorkerOf(r) = 0 /\ Workers = {0}
  BY RequestedShape, OneOnly
<1>2. /\ closedRegions' = [closedRegions EXCEPT ![0][r] = ctx]
      /\ UNCHANGED <<regions, dropingRegions>>
  BY DEF Create
<1>3. closedRegions[0] \in [Regions -> Contexts \cup {None}] /\ DOMAIN closedRegions = {0}
  BY <1>1 DEF RegionInv, OfWorkers, Held
<1>4. ctx.sst = Len(metas[r]) + 1 /\ ctx \in Contexts
  <2>1. metas[r] \in Seq(Seq(Blocks))
    BY <1>1 DEF RegionInv, Stored
  <2>2. Len(metas[r]) + 1 \in Nat \ {0}
    BY <2>1
  <2> QED
    BY <2>2 DEF Contexts
<1> HIDE DEF ctx
<1>5. closedRegions'[0][r] = ctx
      /\ \A x \in Regions : x # r => closedRegions'[0][x] = closedRegions[0][x]
  <2>1. closedRegions'[0] = [closedRegions[0] EXCEPT ![r] = ctx]
    BY <1>2, <1>3
  <2> QED
    BY <1>1, <1>3, <2>1
<1>6. ctx # None
  BY <1>4, NoContextAssumption
<1>7. (Open(0, r)' <=> Open(0, r)) /\ Closed(0, r)'
  BY <1>2, <1>5, <1>6 DEF Open, Closed
<1>8. Open(0, r) => Status(r)' = Status(r)
  BY <1>1, <1>7 DEF Status
<1>9. ~Open(0, r) => /\ Status(r) \in {"absent", "dropped", "closed"}
                     /\ Status(r)' = "closed"
  BY <1>1, <1>7 DEF Status
<1>10. MemRows(0, r)' = MemRows(0, r)
  BY <1>2, <1>7 DEF MemRows
<1>11. ~Open(0, r) => Context(0, r)' = ctx
  BY <1>5, <1>7 DEF Context
<1>12. \A x \in Regions : x # r => View(x)' = View(x)
  BY <1>2, <1>5 DEF View
<1> QED
  BY <1>1, <1>4, <1>7, <1>8, <1>9, <1>10, <1>11, <1>12

(* What a worker creates did not exist. *)
LEMMA CreatedFirst ==
  ASSUME WorkerCount = 1, RegionInv, CreateInv, NEW q, Create(0, q),
         enginePipe[0] # << >>, q = Head(enginePipe[0])
  PROVE  q \in Requested /\ q.region \in Regions /\ ~Exists(q.region)
<1>1. q \in Requested /\ enginePipe[0][1] = q /\ 1 \in 1 .. Len(enginePipe[0])
  BY PipeTaken DEF Create
<1>2. q.region \in Regions
  BY <1>1, RequestedShape
<1>3. ToCreate(q.region, 1)
  BY <1>1 DEF ToCreate, Create, CanCreate
<1> QED
  BY <1>1, <1>2, <1>3 DEF CreateInv

(* OPEN moves the context back, with a new memtable and the SST it had. *)
LEMMA OpenEffect ==
  ASSUME WorkerCount = 1, RegionInv, NEW q \in Requested, OpenRegion(0, q)
  PROVE  LET r == q.region IN
         /\ r \in Regions
         /\ \A x \in Regions : x # r => View(x)' = View(x)
         /\ Status(r) = "closed" /\ Status(r)' = "open"
         /\ Exists(r) /\ Open(0, r)' /\ ~Closed(0, r)' /\ Context(0, r)'.sst = Context(0, r).sst
         /\ MemRows(0, r)' = MemRows(0, r)
<1> DEFINE r == q.region
           ctx == [closedRegions[0][r] EXCEPT !.mem = NewMemtable]
<1>1. r \in Regions /\ WorkerOf(r) = 0 /\ Workers = {0}
  BY RequestedShape, OneOnly
<1>2. ~Open(0, r) /\ Closed(0, r)
  BY DEF OpenRegion, CanOpen
<1>3. /\ regions' = [regions EXCEPT ![0][r] = ctx]
      /\ closedRegions' = [closedRegions EXCEPT ![0][r] = None]
      /\ UNCHANGED dropingRegions
  BY DEF OpenRegion
<1>4. /\ regions[0] \in [Regions -> Contexts \cup {None}] /\ DOMAIN regions = {0}
      /\ closedRegions[0] \in [Regions -> Contexts \cup {None}] /\ DOMAIN closedRegions = {0}
  BY <1>1 DEF RegionInv, OfWorkers, Held
<1>5. closedRegions[0][r] \in Contexts
  BY <1>1, <1>2, <1>4 DEF Closed
<1>6. ctx \in Contexts /\ ctx.sst = closedRegions[0][r].sst /\ ctx.mem = NewMemtable
  BY <1>5, NewShape DEF Contexts
<1> HIDE DEF ctx
<1>7. /\ regions'[0] = [regions[0] EXCEPT ![r] = ctx]
      /\ closedRegions'[0] = [closedRegions[0] EXCEPT ![r] = None]
  BY <1>3, <1>4
<1>8. /\ regions'[0][r] = ctx /\ closedRegions'[0][r] = None
      /\ \A x \in Regions : x # r => /\ regions'[0][x] = regions[0][x]
                                     /\ closedRegions'[0][x] = closedRegions[0][x]
  BY <1>1, <1>4, <1>7
<1>9. Open(0, r)' /\ ~Closed(0, r)'
  BY <1>6, <1>8, NoContextAssumption DEF Open, Closed
<1>10. Status(r) = "closed" /\ Status(r)' = "open"
  BY <1>1, <1>2, <1>9 DEF Status
<1>11. MemRows(0, r)' = << >> /\ MemRows(0, r) = << >>
  BY <1>2, <1>6, <1>8, <1>9 DEF MemRows, NewMemtable
<1>12. Context(0, r)' = ctx /\ Context(0, r) = closedRegions[0][r] /\ Exists(r)
  BY <1>1, <1>2, <1>8, <1>9 DEF Context, Exists
<1>13. \A x \in Regions : x # r => View(x)' = View(x)
  BY <1>3, <1>8 DEF View
<1> QED
  BY <1>1, <1>6, <1>9, <1>10, <1>11, <1>12, <1>13

(* DROP takes the context out of the worker's regions. *)
LEMMA DropEffect ==
  ASSUME WorkerCount = 1, RegionInv, NEW q \in Requested, Drop(0, q)
  PROVE  LET r == q.region IN
         /\ r \in Regions
         /\ \A x \in Regions : x # r => View(x)' = View(x)
         /\ Status(r) = "closed" /\ Status(r)' = "dropped"
         /\ ~Open(0, r)' /\ ~Closed(0, r)'
         /\ MemRows(0, r)' = MemRows(0, r)
<1> DEFINE r == q.region
           ctx == closedRegions[0][r]
<1>1. r \in Regions /\ WorkerOf(r) = 0 /\ Workers = {0}
  BY RequestedShape, OneOnly
<1>2. ~Open(0, r) /\ Closed(0, r)
  BY DEF Drop, CanDrop
<1>3. /\ dropingRegions' = [dropingRegions EXCEPT ![0][r] = ctx]
      /\ closedRegions' = [closedRegions EXCEPT ![0][r] = None]
      /\ UNCHANGED regions
  BY DEF Drop
<1>4. /\ closedRegions[0] \in [Regions -> Contexts \cup {None}] /\ DOMAIN closedRegions = {0}
      /\ dropingRegions[0] \in [Regions -> Contexts \cup {None}] /\ DOMAIN dropingRegions = {0}
  BY <1>1 DEF RegionInv, OfWorkers, Held
<1>5. ctx # None
  BY <1>2 DEF Closed
<1> HIDE DEF ctx
<1>6. /\ dropingRegions'[0] = [dropingRegions[0] EXCEPT ![r] = ctx]
      /\ closedRegions'[0] = [closedRegions[0] EXCEPT ![r] = None]
  BY <1>3, <1>4
<1>7. /\ dropingRegions'[0][r] = ctx /\ closedRegions'[0][r] = None
      /\ \A x \in Regions : x # r => /\ dropingRegions'[0][x] = dropingRegions[0][x]
                                     /\ closedRegions'[0][x] = closedRegions[0][x]
  BY <1>1, <1>4, <1>6
<1>8. ~Open(0, r)' /\ ~Closed(0, r)'
  BY <1>2, <1>3, <1>7 DEF Open, Closed
<1>9. Status(r) = "closed" /\ Status(r)' = "dropped"
  BY <1>1, <1>2, <1>5, <1>7, <1>8 DEF Status
<1>10. MemRows(0, r)' = << >> /\ MemRows(0, r) = << >>
  BY <1>2, <1>8 DEF MemRows
<1>11. \A x \in Regions : x # r => View(x)' = View(x)
  BY <1>3, <1>7 DEF View
<1> QED
  BY <1>1, <1>8, <1>9, <1>10, <1>11
-----------------------------------------------------------------------------
(* The logs of the abstract store.                                         *)
LEMMA LogKept ==
  ASSUME NEW r \in Regions, files'[r] = files[r], MemRows(0, r)' = MemRows(0, r),
         Frozen(0, r)' = Frozen(0, r)
  PROVE  Log(0, r)' = Log(0, r)
BY DEF Log

(* With the signals the rows in flight stay. *)
LEMMA FrozenKept ==
  ASSUME Kept
  PROVE  \A r : Frozen(0, r)' = Frozen(0, r)
BY DEF Kept, Frozen

(* A row more in the memtable is a row more in the log.                    *)
LEMMA LogGrows ==
  ASSUME WorkerCount = 1, RegionInv, RingInv, NEW r \in Regions, NEW row \in RowSet,
         files'[r] = files[r], Frozen(0, r)' = Frozen(0, r),
         MemRows(0, r)' = Append(MemRows(0, r), row)
  PROVE  Log(0, r)' = Append(Log(0, r), row)
<1> DEFINE A == RowsOf(files[r]) \o Frozen(0, r)
           M == MemRows(0, r)
<1>1. A \in Seq(RowSet) /\ M \in Seq(RowSet) /\ Log(0, r) = A \o M
  BY LogParts, ConcatProperties
<1>2. Log(0, r)' = A \o Append(M, row)
  BY DEF Log
<1> HIDE DEF A, M
<1>3. Push(A, M, row)
  BY <1>1, Pushing
<1> QED
  BY <1>1, <1>2, <1>3 DEF Push

(* Freezing a memtable moves its rows. *)
LEMMA LogFrozen ==
  ASSUME WorkerCount = 1, RegionInv, RingInv, NEW r \in Regions, NEW s \in Signals,
         Added(s), s.region = r, s.rows = MemRows(0, r), MemRows(0, r)' = << >>,
         \A x \in Regions : x # r => View(x)' = View(x), UNCHANGED files
  PROVE  \A x \in Regions : Log(0, x)' = Log(0, x)
<1> TAKE x \in Regions
<1> DEFINE A == RowsOf(files[x])
           B == Frozen(0, x)
           M == MemRows(0, x)
<1>1. A \in Seq(RowSet) /\ B \in Seq(RowSet) /\ M \in Seq(RowSet) /\ Log(0, x) = (A \o B) \o M
  BY LogParts
<1>2. Frozen(0, x)' = B \o Piece(s, SignalsOf(x))
  BY AddedRows, FrozenNext DEF Frozen
<1>3. CASE x = r
  <2>1. Piece(s, SignalsOf(x)) = M
    BY <1>3 DEF Piece, SignalsOf
  <2>2. Log(0, x)' = (A \o (B \o M)) \o << >>
    BY <1>2, <1>3, <2>1 DEF Log
  <2> HIDE DEF A, B, M
  <2>3. Regroup(A, B, M) /\ (A \o B) \o M \in Seq(RowSet)
    BY <1>1, Regrouping, ConcatProperties
  <2>4. ((A \o B) \o M) \o << >> = (A \o B) \o M
    BY <2>3, ConcatEmptySeq
  <2> QED
    BY <1>1, <2>2, <2>3, <2>4 DEF Regroup
<1>4. CASE x # r
  <2>1. Piece(s, SignalsOf(x)) = << >>
    BY <1>4 DEF Piece, SignalsOf
  <2>2. B \o << >> = B
    BY <1>1, ConcatEmptySeq
  <2>3. MemRows(0, x)' = MemRows(0, x)
    BY <1>4, SameView
  <2> QED
    BY <1>2, <2>1, <2>2, <2>3, LogKept
<1> QED
  BY <1>3, <1>4

(* A block written moves the rows of its signal.                           *)
LEMMA LogFlushed ==
  ASSUME WorkerCount = 1, RegionInv, RingInv, HandleFlush
  PROVE  RingInv' /\ \A x \in Regions : Log(0, x)' = Log(0, x)
<1> DEFINE r == flushing.region
           b == Block(flushing)
           m == flushing.rows
<1>1. /\ flushing # None /\ flushing' = None /\ files' = [files EXCEPT ![r] = Append(@, b)]
      /\ UNCHANGED <<contexts, put, flusherPipe>>
  BY DEF HandleFlush
<1>2. flushing \in Signals /\ r \in Regions /\ m \in Seq(RowSet)
      /\ b \in Blocks /\ b.rows = m
  BY <1>1, RingTypes DEF Signals, Block, Blocks
<1>3. RingInv' /\ Removed /\ InFlight(0)' \in Seq(Signals)
  BY <1>1, FlusherDone
<1>4. ASSUME NEW x \in Regions
      PROVE  Log(0, x)' = Log(0, x)
  <2> DEFINE A == RowsOf(files[x])
             B == Frozen(0, x)
             C == RowsIn(InFlight(0)', SignalsOf(x))
  <2>1. A \in Seq(RowSet) /\ B \in Seq(RowSet)
    BY LogParts
  <2>2. MemRows(0, x)' = MemRows(0, x)
    BY <1>1, SameViews, SameView
  <2>3. C \in Seq(RowSet)
    <3> DEFINE t == InFlight(0)'
    <3>1. t \in Seq(Signals)
      BY <1>3
    <3> HIDE DEF t
    <3>2. RowsIn(t, SignalsOf(x)) \in Seq(RowSet)
      BY <3>1, RowsInType, RowsOfData
    <3> QED
      BY <3>2 DEF t
  <2>4. Frozen(0, x)' = C /\ B = Piece(flushing, SignalsOf(x)) \o C
    BY <1>2, <1>3, FrozenNext, RemovedRows DEF Frozen
  <2>5. files[x] \in Seq(Blocks) /\ files \in [Regions -> Seq(Blocks)]
    BY DEF RegionInv, Stored
  <2>6. CASE x = r
    <3>1. Piece(flushing, SignalsOf(x)) = m /\ Piece(b, Blocks) = m
      BY <1>2, <2>6 DEF Piece, SignalsOf
    <3> HIDE DEF b
    <3>2. files'[x] = Append(files[x], b)
      BY <1>1, <1>2, <2>5, <2>6
    <3>3. RowsOf(files'[x]) = A \o m
      <4>1. b \in Blocks /\ HaveRows(Blocks)
        BY <1>2, RowsOfData
      <4> HIDE DEF m
      <4>2. RowsIn(Append(files[x], b), Blocks) = RowsIn(files[x], Blocks) \o Piece(b, Blocks)
        BY <2>5, <4>1, RowsInAppend
      <4> QED
        BY <3>1, <3>2, <4>2 DEF RowsOf
    <3>4. Log(0, x)' = ((A \o m) \o C) \o MemRows(0, x)
      BY <2>2, <2>4, <3>3 DEF Log
    <3>5. Log(0, x) = (A \o (m \o C)) \o MemRows(0, x)
      BY <2>4, <3>1 DEF Log
    <3> HIDE DEF A, C, m
    <3>6. Regroup(A, m, C)
      BY <1>2, <2>1, <2>3, Regrouping
    <3> QED
      BY <3>4, <3>5, <3>6 DEF Regroup
  <2>7. CASE x # r
    <3>1. Piece(flushing, SignalsOf(x)) = << >>
      BY <2>7 DEF Piece, SignalsOf
    <3>2. << >> \o C = C
      <4> HIDE DEF C
      <4> QED
        BY <2>3, ConcatEmptySeq
    <3>3. files'[x] = files[x]
      BY <1>1, <2>5, <2>7
    <3> QED
      BY <2>2, <2>4, <3>1, <3>2, <3>3, LogKept
  <2> QED
    BY <2>6, <2>7
<1> QED
  BY <1>3, <1>4
-----------------------------------------------------------------------------
SameLogs == \A r \in Regions : Log(0, r)' = Log(0, r)

StoreStep == [Store!Next]_(Store!svars)

(* Steps the store takes. *)
LEMMA StoreStutters ==
  ASSUME WorkerCount = 1, SameLogs, \A r \in Regions : Status(r)' = Status(r)
  PROVE  StoreStep
<1>1. \A r \in Regions : Log(WorkerOf(r), r)' = Log(WorkerOf(r), r)
  BY OneOnly DEF SameLogs
<1>2. [r \in Regions |-> Log(WorkerOf(r), r)]' = [r \in Regions |-> Log(WorkerOf(r), r)]
  BY <1>1
<1> QED
  BY <1>2 DEF StoreStep, Store!svars

(* A step that changes the status of one region and no log. *)
LEMMA StoreMoves ==
  ASSUME WorkerCount = 1, SameLogs, NEW r \in Regions, NEW from, NEW to,
         Status(r) \in from, Status(r)' = to,
         \A x \in Regions : x # r => Status(x)' = Status(x)
  PROVE  Store!Move(r, from, to)
<1>1. \A x \in Regions : Log(WorkerOf(x), x)' = Log(WorkerOf(x), x)
  BY OneOnly DEF SameLogs
<1>2. [x \in Regions |-> Log(WorkerOf(x), x)]' = [x \in Regions |-> Log(WorkerOf(x), x)]
  BY <1>1
<1>3. [x \in Regions |-> Status(x)]' = [[x \in Regions |-> Status(x)] EXCEPT ![r] = to]
  OBVIOUS
<1> QED
  BY <1>2, <1>3 DEF Store!Move

(* A step that appends a row to the log of an open region. *)
LEMMA StoreWrites ==
  ASSUME WorkerCount = 1, NEW r \in Regions, NEW row \in RowSet,
         Status(r) = "open", \A x \in Regions : Status(x)' = Status(x),
         Log(0, r)' = Append(Log(0, r), row),
         \A x \in Regions : x # r => Log(0, x)' = Log(0, x)
  PROVE  StoreStep
<1>1. \A x \in Regions : WorkerOf(x) = 0
  BY OneOnly
<1>2. [x \in Regions |-> Log(WorkerOf(x), x)]'
        = [[x \in Regions |-> Log(WorkerOf(x), x)] EXCEPT ![r] = Append(@, row)]
  BY <1>1
<1>3. Store!Write(r, row)
  BY <1>2 DEF Store!Write
<1> QED
  BY <1>3 DEF StoreStep, Store!Next
-----------------------------------------------------------------------------
FailuresCounted == failures \in 0 .. MaxFailures

(* Flushes that fail are counted. *)
LEMMA FailuresStep ==
  ASSUME FailuresCounted, [Next]_vars
  PROVE  FailuresCounted'
<1>1. UNCHANGED failures \/ (failures < MaxFailures /\ failures' = failures + 1)
  BY ZenonT(30)
  DEF Next, vars, Engine, Flusher, Worker, Handle, HandleWrite, HandleWriteFull, Create,
     OpenRegion, CloseEmpty, CloseFull, Drop, Ignore, PutStore, PutReturn, GetFlush,
     HandleFlush, FlushFails, disk
<1> QED
  BY <1>1, WorkerAssumption DEF FailuresCounted

StoreInv == RegionInv /\ RingInv /\ FailuresCounted

(* A row written to the memtable is a row written to the store. *)
LEMMA WriteRefines ==
  ASSUME WorkerCount = 1, StoreInv, NEW q \in Requested, q.kind = "WRITE",
         Open(0, q.region), WriteRow(0, q), RingInv', Kept,
         UNCHANGED <<closedRegions, dropingRegions, files>>
  PROVE  StoreStep
<1> DEFINE r == q.region
           row == Row(q.id, q.ts)
<1>1. r \in Regions /\ WorkerOf(r) = 0 /\ RegionInv /\ RingInv
  BY RequestedShape, OneOnly DEF StoreInv
<1>2. /\ \A x \in Regions : x # r => View(x)' = View(x)
      /\ Open(0, r)' /\ Status(r)' = Status(r) /\ row \in RowSet
      /\ MemRows(0, r)' = Append(MemRows(0, r), row)
  BY <1>1, WriteRowEffect
<1>3. Open(0, r)
  OBVIOUS
<1>4. \A x \in Regions : Frozen(0, x)' = Frozen(0, x)
  BY FrozenKept
<1> HIDE DEF r, row
<1>5. Log(0, r)' = Append(Log(0, r), row)
  BY <1>1, <1>2, <1>4, LogGrows
<1>6. \A x \in Regions : x # r => Log(0, x)' = Log(0, x)
  BY <1>2, <1>4, SameView, LogKept
<1>7. \A x \in Regions : x # r => Status(x)' = Status(x)
  BY <1>2, SameView
<1>8. Status(r) = "open"
  BY <1>1, <1>3 DEF Status
<1> QED
  BY <1>1, <1>2, <1>5, <1>6, <1>7, <1>8, StoreWrites

(* The steps of the worker, of its put and of the flusher.                 *)
LEMMA HandleWriteRefines ==
  ASSUME WorkerCount = 1, StoreInv, NEW q, q = Head(enginePipe[0]), enginePipe[0] # << >>,
         HandleWrite(0, q)
  PROVE  RingInv' /\ StoreStep
<1>1. q \in Requested /\ RegionInv /\ RingInv
  BY PipeTaken DEF StoreInv, HandleWrite
<1>2. RingInv' /\ Kept
  BY <1>1, RingUntouched DEF HandleWrite
<1>3. StoreStep
  BY <1>1, <1>2, WriteRefines DEF HandleWrite, disk
<1> QED
  BY <1>2, <1>3

(* Handing a memtable over is no step of the store. *)
LEMMA SendRefines ==
  ASSUME WorkerCount = 1, StoreInv, NEW q, q = Head(enginePipe[0]), enginePipe[0] # << >>,
         HandleWriteFull(0, q) \/ CloseFull(0, q)
  PROVE  RingInv' /\ StoreStep
<1> DEFINE r == q.region
           s == Signal(r, regions[0][r])
<1>1. Take(0) /\ RegionInv /\ RingInv
  BY DEF StoreInv, HandleWriteFull, CloseFull
<1>2. q \in Requested /\ put[0] = None
  BY <1>1, PipeTaken
<1>3. r \in Regions
  BY <1>2, RequestedShape
<1>4. /\ Open(0, r) /\ SendFlushSignal(0, q)
      /\ UNCHANGED <<flusherPipe, flushing>> /\ UNCHANGED files
  BY DEF HandleWriteFull, CloseFull, CanClose, disk
<1>5. /\ RingInv' /\ Added(s) /\ s \in Signals
      /\ s.region = r /\ s.rows = MemRows(0, r)
      /\ \A x \in Regions : x # r => View(x)' = View(x)
      /\ Open(0, r)' /\ Status(r)' = Status(r) /\ MemRows(0, r)' = << >>
  BY <1>1, <1>2, <1>4, SendEffect
<1> HIDE DEF r, s
<1>6. SameLogs
  BY <1>1, <1>3, <1>4, <1>5, LogFrozen DEF SameLogs
<1>7. \A x \in Regions : x # r => Status(x)' = Status(x)
  BY <1>5, SameView
<1> QED
  BY <1>5, <1>6, <1>7, StoreStutters

(* CREATE is the Create of the store. *)
LEMMA CreateRefines ==
  ASSUME WorkerCount = 1, StoreInv, NEW q, q = Head(enginePipe[0]), enginePipe[0] # << >>,
         Create(0, q)
  PROVE  RingInv' /\ StoreStep
<1> DEFINE r == q.region
<1>1. /\ RegionInv /\ RingInv /\ UNCHANGED <<put, flusherPipe, flushing>>
      /\ UNCHANGED files /\ q \in Requested
  BY PipeTaken DEF StoreInv, Create
<1>2. RingInv' /\ Kept
  BY <1>1, RingUntouched
<1>3. /\ r \in Regions
      /\ \A x \in Regions : x # r => View(x)' = View(x)
      /\ Open(0, r) => Status(r)' = Status(r)
      /\ ~Open(0, r) => /\ Status(r) \in {"absent", "dropped", "closed"}
                        /\ Status(r)' = "closed"
      /\ MemRows(0, r)' = MemRows(0, r)
  BY <1>1, CreateEffect
<1> HIDE DEF r
<1>4. SameLogs
  <2>1. \A x \in Regions : MemRows(0, x)' = MemRows(0, x)
    BY <1>3, SameView
  <2> QED
    BY <1>1, <1>2, <2>1, FrozenKept, LogKept DEF SameLogs
<1>5. \A x \in Regions : x # r => Status(x)' = Status(x)
  BY <1>3, SameView
<1>6. CASE Status(r)' = Status(r)
  BY <1>2, <1>4, <1>5, <1>6, StoreStutters
<1>7. CASE Status(r) \in {"absent", "dropped"} /\ Status(r)' = "closed"
  <2>1. Store!Create(r)
    BY <1>3, <1>4, <1>5, <1>7, StoreMoves DEF Store!Create
  <2> QED
    BY <1>2, <1>3, <2>1 DEF StoreStep, Store!Next
<1> QED
  BY <1>3, <1>6, <1>7

(* OPEN is the Open of the store. *)
LEMMA OpenRefines ==
  ASSUME WorkerCount = 1, StoreInv, NEW q, q = Head(enginePipe[0]), enginePipe[0] # << >>,
         OpenRegion(0, q)
  PROVE  RingInv' /\ StoreStep
<1> DEFINE r == q.region
<1>1. Take(0) /\ RegionInv /\ RingInv
  BY DEF StoreInv, OpenRegion
<1>2. UNCHANGED <<put, flusherPipe, flushing>> /\ UNCHANGED files /\ q \in Requested
  BY <1>1, PipeTaken DEF OpenRegion, disk
<1>3. RingInv' /\ Kept
  BY <1>1, <1>2, RingUntouched
<1>4. /\ r \in Regions
      /\ \A x \in Regions : x # r => View(x)' = View(x)
      /\ Status(r) = "closed" /\ Status(r)' = "open"
      /\ MemRows(0, r)' = MemRows(0, r)
  BY <1>1, <1>2, OpenEffect
<1> HIDE DEF r
<1>5. SameLogs
  <2>1. \A x \in Regions : MemRows(0, x)' = MemRows(0, x)
    BY <1>4, SameView
  <2> QED
    BY <1>2, <1>3, <2>1, FrozenKept, LogKept DEF SameLogs
<1>6. \A x \in Regions : x # r => Status(x)' = Status(x)
  BY <1>4, SameView
<1>7. Store!Open(r)
  BY <1>4, <1>5, <1>6, StoreMoves DEF Store!Open
<1> QED
  BY <1>3, <1>4, <1>7 DEF StoreStep, Store!Next

(* DROP is the Drop of the store. *)
LEMMA DropRefines ==
  ASSUME WorkerCount = 1, StoreInv, NEW q, q = Head(enginePipe[0]), enginePipe[0] # << >>,
         Drop(0, q)
  PROVE  RingInv' /\ StoreStep
<1> DEFINE r == q.region
<1>1. Take(0) /\ RegionInv /\ RingInv
  BY DEF StoreInv, Drop
<1>2. UNCHANGED <<put, flusherPipe, flushing>> /\ UNCHANGED files /\ q \in Requested
  BY <1>1, PipeTaken DEF Drop, disk
<1>3. RingInv' /\ Kept
  BY <1>1, <1>2, RingUntouched
<1>4. /\ r \in Regions
      /\ \A x \in Regions : x # r => View(x)' = View(x)
      /\ Status(r) = "closed" /\ Status(r)' = "dropped"
      /\ MemRows(0, r)' = MemRows(0, r)
  BY <1>1, <1>2, DropEffect
<1> HIDE DEF r
<1>5. SameLogs
  <2>1. \A x \in Regions : MemRows(0, x)' = MemRows(0, x)
    BY <1>4, SameView
  <2> QED
    BY <1>2, <1>3, <2>1, FrozenKept, LogKept DEF SameLogs
<1>6. \A x \in Regions : x # r => Status(x)' = Status(x)
  BY <1>4, SameView
<1>7. Store!Drop(r)
  BY <1>4, <1>5, <1>6, StoreMoves DEF Store!Drop
<1> QED
  BY <1>3, <1>4, <1>7 DEF StoreStep, Store!Next
-----------------------------------------------------------------------------
(* A region that closes without rows in its memtable is a Close of the     *)
(* store.                                                                  *)
LEMMA MoveRefines ==
  ASSUME WorkerCount = 1, StoreInv, NEW r \in Regions, Open(0, r),
         regions[0][r].mem.rows = << >>, MoveToClosed(0, r), Kept,
         UNCHANGED <<dropingRegions, files>>
  PROVE  StoreStep
<1>1. RegionInv /\ RingInv
  BY DEF StoreInv
<1>2. /\ \A x \in Regions : x # r => View(x)' = View(x)
      /\ ~Open(0, r)' /\ Closed(0, r)'
      /\ Status(r) = "open" /\ Status(r)' = "closed"
      /\ MemRows(0, r)' = MemRows(0, r)
  BY <1>1, CloseEffect
<1>3. SameLogs
  <2>1. \A x \in Regions : MemRows(0, x)' = MemRows(0, x)
    BY <1>2, SameView
  <2> QED
    BY <2>1, FrozenKept, LogKept DEF SameLogs
<1>4. \A x \in Regions : x # r => Status(x)' = Status(x)
  BY <1>2, SameView
<1>5. Store!Close(r)
  BY <1>2, <1>3, <1>4, StoreMoves DEF Store!Close
<1> QED
  BY <1>5 DEF StoreStep, Store!Next

(* CLOSE of a region without rows closes at once. *)
LEMMA CloseEmptyRefines ==
  ASSUME WorkerCount = 1, StoreInv, NEW q, q = Head(enginePipe[0]), enginePipe[0] # << >>,
         CloseEmpty(0, q)
  PROVE  RingInv' /\ StoreStep
<1> DEFINE r == q.region
<1>1. Take(0) /\ RegionInv /\ RingInv
  BY DEF StoreInv, CloseEmpty
<1>2. /\ UNCHANGED <<put, flusherPipe, flushing>> /\ q \in Requested
      /\ UNCHANGED <<dropingRegions, files>>
      /\ Open(0, r) /\ regions[0][r].mem.rows = << >> /\ MoveToClosed(0, r)
  BY <1>1, PipeTaken DEF CloseEmpty, CanClose, HasRows, disk
<1>3. r \in Regions
  BY <1>2, RequestedShape
<1>4. RingInv' /\ Kept
  BY <1>1, <1>2, RingUntouched
<1> HIDE DEF r
<1>5. StoreStep
  BY <1>2, <1>3, <1>4, MoveRefines
<1> QED
  BY <1>4, <1>5

(* Steps that change neither contexts nor files nor what is in flight.     *)
LEMMA StillRefines ==
  ASSUME WorkerCount = 1, StoreInv, Kept, UNCHANGED <<contexts, files>>
  PROVE  StoreStep
<1>1. \A r \in Regions : View(r)' = View(r)
  BY SameViews
<1>2. \A r \in Regions : Status(r)' = Status(r) /\ MemRows(0, r)' = MemRows(0, r)
  BY <1>1, SameView
<1>3. SameLogs
  BY <1>2, FrozenKept, LogKept DEF SameLogs
<1> QED
  BY <1>2, <1>3, StoreStutters

(* A signal that is only answered is no step of the store. *)
LEMMA IgnoreRefines ==
  ASSUME WorkerCount = 1, StoreInv, NEW q, q = Head(enginePipe[0]), enginePipe[0] # << >>,
         Ignore(0, q)
  PROVE  RingInv' /\ StoreStep
<1>1. /\ Take(0) /\ RegionInv /\ RingInv
      /\ UNCHANGED <<put, flusherPipe, flushing>> /\ UNCHANGED <<contexts, files>>
  BY DEF StoreInv, Ignore, disk
<1>2. RingInv' /\ Kept
  BY <1>1, RingUntouched
<1> QED
  BY <1>1, <1>2, StillRefines

(* The put is no step of the store until it returns: then the row is       *)
(* written or the region closed.                                           *)
LEMMA PutRefines ==
  ASSUME WorkerCount = 1, StoreInv, PutStore(0) \/ PutReturn(0)
  PROVE  RingInv' /\ StoreStep
<1>1. RegionInv /\ RingInv
  BY DEF StoreInv
<1>2. CASE PutStore(0)
  <2>1. RingInv' /\ Kept
    BY <1>1, <1>2, PutStores
  <2>2. UNCHANGED <<contexts, files>>
    BY <1>2 DEF PutStore, disk
  <2> QED
    BY <2>1, <2>2, StillRefines
<1>3. CASE PutReturn(0)
  <2> DEFINE q == put[0].request
             r == q.region
  <2>1. RingInv' /\ Kept
    BY <1>1, <1>3, PutReturns
  <2>2. UNCHANGED <<dropingRegions, files>> /\ put[0] # None
    BY <1>3 DEF PutReturn, disk
  <2>3. /\ q \in Requested /\ Open(0, r) /\ regions[0][r].mem.rows = << >> /\ r \in Regions
    <3>1. Held(0)
      BY <1>1, OneOnly DEF RegionInv
    <3>2. q \in Requested /\ Open(0, r) /\ regions[0][r].mem = NewMemtable
      BY <2>2, <3>1 DEF Held, Waiting, Puts
    <3> QED
      BY <3>2, RequestedShape DEF NewMemtable
  <2>4. \/ q.kind = "WRITE" /\ WriteRow(0, q) /\ UNCHANGED closedRegions
        \/ MoveToClosed(0, r)
    BY <1>3 DEF PutReturn
  <2> HIDE DEF q, r
  <2>5. StoreStep
    <3>1. CASE q.kind = "WRITE" /\ WriteRow(0, q) /\ UNCHANGED closedRegions
      BY <2>1, <2>2, <2>3, <3>1, WriteRefines DEF r
    <3>2. CASE MoveToClosed(0, r)
      BY <2>1, <2>2, <2>3, <3>2, MoveRefines
    <3> QED
      BY <2>4, <3>1, <3>2
  <2> QED
    BY <2>1, <2>5
<1> QED
  BY <1>2, <1>3

(* The flusher, if it does not fail, moves rows the store has. *)
LEMMA FlusherRefines ==
  ASSUME WorkerCount = 1, MaxFailures = 0, StoreInv, Flusher
  PROVE  RingInv' /\ StoreStep
<1>1. RegionInv /\ RingInv
  BY DEF StoreInv
<1>2. UNCHANGED contexts
  BY DEF Flusher, GetFlush, HandleFlush, FlushFails
<1>3. CASE GetFlush
  <2>1. RingInv' /\ Kept
    BY <1>1, <1>3, FlusherTakes
  <2>2. UNCHANGED files
    BY <1>3 DEF GetFlush, disk
  <2> QED
    BY <1>2, <2>1, <2>2, StillRefines
<1>4. CASE HandleFlush
  <2>1. RingInv' /\ SameLogs
    BY <1>1, <1>4, LogFlushed DEF SameLogs
  <2>2. \A r \in Regions : Status(r)' = Status(r)
    BY <1>2, SameViews, SameView
  <2> QED
    BY <2>1, <2>2, StoreStutters
<1>5. ~FlushFails
  BY DEF StoreInv, FailuresCounted, FlushFails
<1> QED
  BY <1>3, <1>4, <1>5 DEF Flusher

(* A request handed over is no step of the store yet. *)
LEMMA EngineRefines ==
  ASSUME WorkerCount = 1, StoreInv, Engine
  PROVE  RingInv' /\ StoreStep
<1>1. RegionInv /\ RingInv
  BY DEF StoreInv
<1>2. UNCHANGED <<put, flusherPipe, flushing>> /\ UNCHANGED <<contexts, files>>
  BY DEF Engine, disk
<1>3. RingInv' /\ Kept
  BY <1>1, <1>2, RingUntouched
<1> QED
  BY <1>2, <1>3, StillRefines

(* Every step keeps the invariant and is a step of the store or none. *)
LEMMA StoreInvStep ==
  ASSUME WorkerCount = 1, MaxFailures = 0, StoreInv, [Next]_vars
  PROVE  StoreInv' /\ StoreStep
<1>1. RegionInv' /\ FailuresCounted'
  BY RegionStep, FailuresStep DEF StoreInv
<1>2. CASE Engine
  BY <1>1, <1>2, EngineRefines DEF StoreInv
<1>3. CASE Flusher
  BY <1>1, <1>3, FlusherRefines DEF StoreInv
<1>4. CASE Handle(0)
  <2> DEFINE q == Head(enginePipe[0])
  <2>1. /\ enginePipe[0] # << >>
        /\ \/ HandleWrite(0, q) \/ HandleWriteFull(0, q) \/ Create(0, q)
           \/ OpenRegion(0, q) \/ CloseEmpty(0, q) \/ CloseFull(0, q)
           \/ Drop(0, q) \/ Ignore(0, q)
    BY <1>4 DEF Handle
  <2> HIDE DEF q
  <2>2. RingInv' /\ StoreStep
    BY <2>1, HandleWriteRefines, SendRefines, CreateRefines, OpenRefines, CloseEmptyRefines,
       DropRefines, IgnoreRefines DEF q
  <2> QED
    BY <1>1, <2>2 DEF StoreInv
<1>5. CASE PutStore(0) \/ PutReturn(0)
  BY <1>1, <1>5, PutRefines DEF StoreInv
<1>6. CASE UNCHANGED vars
  <2>1. /\ RingInv /\ UNCHANGED <<put, flusherPipe, flushing>>
        /\ UNCHANGED <<contexts, files>>
    BY <1>6 DEF StoreInv, vars, disk
  <2>2. RingInv' /\ Kept
    BY <2>1, RingUntouched
  <2> QED
    BY <1>1, <2>1, <2>2, StillRefines DEF StoreInv
<1> QED
  BY <1>2, <1>3, <1>4, <1>5, <1>6, OneOnly DEF Next, Worker

(* Initially no signal is in flight. *)
LEMMA InFlightInit ==
  ASSUME WorkerCount = 1, Init
  PROVE  InFlight(0) = << >>
<1>1. Queue = << >> /\ InPut = << >> /\ Optional(flushing) = << >>
  <2>1. writePos - readPos = 0 /\ put[0] = None /\ RegionInv /\ RingInv
    BY RegionInit, RingInit, OneOnly DEF Init
  <2> QED
    BY <2>1, InFlightParts DEF Init, InPut, Optional
<1>2. InFlight(0) = (<< >> \o << >>) \o << >>
  BY <1>1, RegionInit, RingInit, InFlightParts
<1>3. << >> \o << >> = << >>
  OBVIOUS
<1> QED
  BY <1>2, <1>3

(* Initially the store is empty. *)
LEMMA StoreInit ==
  ASSUME WorkerCount = 1, Init
  PROVE  StoreInv /\ Store!Init
<1>1. RegionInv /\ RingInv
  BY RegionInit, RingInit
<1>2. FailuresCounted
  BY WorkerAssumption DEF Init, FailuresCounted
<1>3. ASSUME NEW r \in Regions
      PROVE  Status(r) = "absent" /\ Log(0, r) = << >> /\ WorkerOf(r) = 0
  <2>1. Workers = {0} /\ WorkerOf(r) = 0
    BY OneOnly
  <2>2. ~Open(0, r) /\ ~Closed(0, r) /\ dropingRegions[0][r] = None
    BY <2>1 DEF Init, Open, Closed
  <2>3. MemRows(0, r) = << >>
    BY <2>2 DEF MemRows
  <2>4. InFlight(0) = << >>
    BY InFlightInit
  <2>5. Frozen(0, r) = << >> /\ RowsOf(files[r]) = << >>
    BY <2>4, RowsInEmpty DEF Init, Frozen, RowsOf
  <2>6. Log(0, r) = (<< >> \o << >>) \o << >>
    BY <2>3, <2>5 DEF Log
  <2> QED
    BY <2>1, <2>2, <2>6 DEF Status
<1>4. Store!Init
  BY <1>3 DEF Store!Init
<1> QED
  BY <1>1, <1>2, <1>4 DEF StoreInv

(* With one worker and flushes that do not fail, the data node is a region *)
(* store: CREATE, OPEN, CLOSE and DROP (handleStatus) move a region        *)
(* between absent, closed, open and dropped, handleWrite appends its row   *)
(* to the log of an open region, at once or when the put of                *)
(* sendFlushSignal returns, and neither the put nor the flusher            *)
(* (handleFlush, SST::appendMemtable) loses, repeats or reorders a row of  *)
(* a log.  Both assumptions are needed: two workers overwrite each other's *)
(* signals in the pipe (the run RegionTwoWorkers), and a flush that fails  *)
(* drops its rows.                                                         *)
THEOREM StoreRefined ==
  ASSUME WorkerCount = 1, MaxFailures = 0
  PROVE  Spec => ImplementsStore
<1>1. Init => StoreInv /\ Store!Init
  BY StoreInit
<1>2. StoreInv /\ [Next]_vars => StoreInv' /\ StoreStep
  BY StoreInvStep
<1> QED
  BY <1>1, <1>2, PTL DEF Spec, ImplementsStore, Store!Spec, StoreStep
-----------------------------------------------------------------------------
(* A step that changes the contexts of one region: what it owes CreateInv. *)
LEMMA OneChanges ==
  ASSUME WorkerCount = 1, CreateInv, NEW r \in Regions, NEW C \in BOOLEAN,
         \A x \in Regions : x # r => View(x)' = View(x),
         ~(Open(0, r)' /\ Closed(0, r)'), Exists(r)' => Exists(r) \/ C
  PROVE  \A x \in Regions : /\ ~(Open(0, x)' /\ Closed(0, x)')
                            /\ Exists(x)' => Exists(x) \/ (C /\ r = x)
<1> TAKE x \in Regions
<1>1. CASE x = r
  BY <1>1
<1>2. CASE x # r
  <2>1. (Exists(x)' <=> Exists(x)) /\ View(x)' = View(x)
    BY <1>2, SameView
  <2> QED
    BY <2>1 DEF CreateInv, View, Open, Closed
<1> QED
  BY <1>1, <1>2

(* The signals a worker handles, as far as regions begin to exist.         *)
LEMMA CreateHandled ==
  ASSUME WorkerCount = 1, RegionInv, RingInv, CreateInv, Handle(0)
  PROVE  CreateInv'
<1> PICK q : q = Head(enginePipe[0])
  OBVIOUS
<1>1. /\ enginePipe[0] # << >> /\ Take(0)
      /\ \/ HandleWrite(0, q) \/ HandleWriteFull(0, q) \/ Create(0, q)
         \/ OpenRegion(0, q) \/ CloseEmpty(0, q) \/ CloseFull(0, q)
         \/ Drop(0, q) \/ Ignore(0, q)
  BY DEF Handle, HandleWrite, HandleWriteFull, Create, OpenRegion, CloseEmpty, CloseFull,
     Drop, Ignore
<1>2. q \in Requested /\ put[0] = None
  BY <1>1, PipeTaken
<1> DEFINE r == q.region
<1>3. r \in Regions
  BY <1>2, RequestedShape
<1>4. ~(Open(0, r) /\ Closed(0, r)) /\ (Exists(r) <=> Open(0, r) \/ Closed(0, r))
  BY <1>3, OneOnly DEF CreateInv, Exists
<1> SUFFICES \/ UNCHANGED contexts
             \/ /\ \A x \in Regions : x # r => View(x)' = View(x)
                /\ ~(Open(0, r)' /\ Closed(0, r)')
                /\ Exists(r)' => Exists(r) \/ q.kind = "CREATE"
  <2>1. CASE UNCHANGED contexts
    <3>1. \A x \in Regions : (Exists(x)' <=> Exists(x)) /\ View(x)' = View(x)
      BY <2>1, SameViews, SameView
    <3>2. \A x \in Regions : ~(Open(0, x)' /\ Closed(0, x)')
      BY <3>1 DEF CreateInv, View, Open, Closed
    <3> QED
      BY <1>1, <3>1, <3>2, CreateTaken
  <2>2. CASE /\ \A x \in Regions : x # r => View(x)' = View(x)
             /\ ~(Open(0, r)' /\ Closed(0, r)')
             /\ Exists(r)' => Exists(r) \/ q.kind = "CREATE"
    <3>1. \A x \in Regions : /\ ~(Open(0, x)' /\ Closed(0, x)')
                             /\ Exists(x)' => Exists(x) \/ (q.kind = "CREATE" /\ r = x)
      BY <1>3, <2>2, OneChanges
    <3> QED
      BY <1>1, <3>1, CreateTaken
  <2> QED
    BY <2>1, <2>2
<1>5. CASE HandleWrite(0, q)
  <2>1. /\ q.kind = "WRITE" /\ Open(0, r) /\ WriteRow(0, q)
        /\ UNCHANGED <<closedRegions, dropingRegions>>
    BY <1>5 DEF HandleWrite
  <2>2. \A x \in Regions : x # r => View(x)' = View(x)
    BY <1>2, <2>1, WriteRowEffect
  <2> QED
    BY <1>4, <2>1, <2>2 DEF Closed
<1>6. CASE HandleWriteFull(0, q) \/ CloseFull(0, q)
  <2>1. /\ Open(0, r) /\ SendFlushSignal(0, q) /\ UNCHANGED <<flusherPipe, flushing>>
    BY <1>6 DEF HandleWriteFull, CloseFull, CanClose
  <2>2. \A x \in Regions : x # r => View(x)' = View(x)
    BY <1>2, <2>1, SendEffect
  <2>3. UNCHANGED closedRegions
    BY <2>1 DEF SendFlushSignal
  <2> QED
    BY <1>4, <2>1, <2>2, <2>3 DEF Closed
<1>7. CASE Create(0, q)
  <2>1. ~Exists(r)
    BY <1>1, <1>7, CreatedFirst
  <2>2. /\ \A x \in Regions : x # r => View(x)' = View(x)
        /\ Open(0, r)' <=> Open(0, r)
    BY <1>2, <1>7, CreateEffect
  <2>3. q.kind = "CREATE"
    BY <1>7 DEF Create, CanCreate
  <2> QED
    BY <1>4, <2>1, <2>2, <2>3
<1>8. CASE OpenRegion(0, q)
  <2>1. /\ \A x \in Regions : x # r => View(x)' = View(x)
        /\ Exists(r) /\ ~Closed(0, r)'
    BY <1>2, <1>8, OpenEffect
  <2> QED
    BY <2>1
<1>9. CASE CloseEmpty(0, q)
  <2>1. /\ Open(0, r) /\ regions[0][r].mem.rows = << >>
        /\ MoveToClosed(0, r) /\ UNCHANGED dropingRegions
    BY <1>9 DEF CloseEmpty, CanClose, HasRows
  <2>2. /\ \A x \in Regions : x # r => View(x)' = View(x)
        /\ ~Open(0, r)'
    BY <1>3, <2>1, CloseEffect
  <2> QED
    BY <1>4, <2>1, <2>2
<1>10. CASE Drop(0, q)
  <2>1. /\ \A x \in Regions : x # r => View(x)' = View(x)
        /\ ~Open(0, r)' /\ ~Closed(0, r)'
    BY <1>2, <1>10, DropEffect
  <2>2. ~Exists(r)'
    BY <2>1, OneOnly DEF Exists
  <2> QED
    BY <2>1, <2>2
<1>11. CASE Ignore(0, q)
  BY <1>11 DEF Ignore
<1> QED
  BY <1>1, <1>5, <1>6, <1>7, <1>8, <1>9, <1>10, <1>11

(* The put returns to CLOSE, and the region moves.                         *)
LEMMA CreateReturned ==
  ASSUME WorkerCount = 1, RegionInv, RingInv, CreateInv, PutReturn(0)
  PROVE  CreateInv'
<1> PICK q, r : q = put[0].request /\ r = q.region
  OBVIOUS
<1>1. put[0] # None /\ UNCHANGED dropingRegions /\ UNCHANGED enginePipe
  BY DEF PutReturn
<1>2. q \in Requested /\ Open(0, r) /\ regions[0][r].mem.rows = << >> /\ r \in Regions
  <2>1. Held(0)
    BY OneOnly DEF RegionInv
  <2>2. q \in Requested /\ Open(0, r) /\ regions[0][r].mem = NewMemtable
    BY <1>1, <2>1 DEF Held, Waiting, Puts
  <2> QED
    BY <2>2, RequestedShape DEF NewMemtable
<1>3. \/ q.kind = "WRITE" /\ WriteRow(0, q) /\ UNCHANGED closedRegions
      \/ MoveToClosed(0, r)
  BY DEF PutReturn
<1>4. Exists(r) /\ ~Closed(0, r)
  BY <1>2, OneOnly DEF Exists, CreateInv
<1>5. /\ \A x \in Regions : x # r => View(x)' = View(x)
      /\ ~(Open(0, r)' /\ Closed(0, r)')
  <2>1. CASE q.kind = "WRITE" /\ WriteRow(0, q) /\ UNCHANGED closedRegions
    <3>1. \A x \in Regions : x # r => View(x)' = View(x)
      BY <1>1, <1>2, <2>1, WriteRowEffect
    <3> QED
      BY <1>4, <2>1, <3>1 DEF Closed
  <2>2. CASE MoveToClosed(0, r)
    BY <1>1, <1>2, <2>2, CloseEffect
  <2> QED
    BY <1>3, <2>1, <2>2
<1>6. \A x \in Regions : /\ ~(Open(0, x)' /\ Closed(0, x)')
                         /\ Exists(x)' => Exists(x) \/ (FALSE /\ r = x)
  BY <1>2, <1>4, <1>5, OneChanges
<1> QED
  BY <1>1, <1>6, CreateKept

(* Unless clients create regions again, every step keeps the invariant.    *)
LEMMA CreateInvStep ==
  ASSUME WorkerCount = 1, ~Recreate, RegionInv, RingInv, CreateInv, [Next]_vars
  PROVE  CreateInv'
<1>1. CASE Engine
  BY <1>1, CreateHandedOver
<1>2. CASE Handle(0)
  BY <1>2, CreateHandled
<1>3. CASE PutReturn(0)
  BY <1>3, CreateReturned
<1>4. CASE Flusher \/ PutStore(0) \/ UNCHANGED vars
  <2>1. UNCHANGED contexts /\ UNCHANGED enginePipe
    BY <1>4 DEF Flusher, GetFlush, HandleFlush, FlushFails, PutStore, vars
  <2>2. \A x \in Regions : (Exists(x)' <=> Exists(x)) /\ View(x)' = View(x)
    BY <2>1, SameViews, SameView
  <2>3. \A x \in Regions : ~(Open(0, x)' /\ Closed(0, x)')
    BY <2>2 DEF CreateInv, View, Open, Closed
  <2> QED
    BY <2>1, <2>2, <2>3, CreateKept
<1> QED
  BY <1>1, <1>2, <1>3, <1>4, OneOnly DEF Next, Worker
-----------------------------------------------------------------------------
(* What the index of a region leads to, from its k-th SST.                 *)
InFlightFor(r, k) == RowsIn(InFlight(0), SignalsFor(r, k))
Reached(r, k) == (RowsOf(metas[r][k]) \o InFlightFor(r, k)) \o MemRows(0, r)
Accepted(r) == SubSeq(accepted[r], born[r] + 1, Len(accepted[r]))

(* An existing region has the last of its SSTs, through which all its rows *)
(* are reached; nothing is in flight for an SST still to be made.          *)
IndexInv(r) ==
  /\ born[r] \in 0 .. Len(accepted[r])
  /\ \A k \in Nat : k > Len(metas[r]) => InFlightFor(r, k) = << >>
  /\ Exists(r) => /\ Context(0, r).sst = Len(metas[r])
                  /\ Reached(r, Len(metas[r])) = Accepted(r)

(* The rest of a sequence that grows, grows. *)
LEMMA SubSeqAppend ==
  ASSUME NEW S, NEW s \in Seq(S), NEW e \in S, NEW b \in 0 .. Len(s)
  PROVE  SubSeq(Append(s, e), b + 1, Len(Append(s, e))) = Append(SubSeq(s, b + 1, Len(s)), e)
<1> DEFINE n == Len(s)
           t == SubSeq(s, b + 1, n)
           u == SubSeq(Append(s, e), b + 1, n + 1)
<1>1. n \in Nat /\ Append(s, e) \in Seq(S) /\ Len(Append(s, e)) = n + 1
  OBVIOUS
<1>10. b \in Nat /\ b <= n /\ n \in Nat
  OBVIOUS
<1>2. t \in Seq(S) /\ Len(t) = n - b /\ \A i \in 1 .. n - b : t[i] = s[b + i]
  BY <1>1
<1>3. u \in Seq(S) /\ Len(u) = (n + 1) - b
      /\ \A i \in 1 .. (n + 1) - b : u[i] = Append(s, e)[b + i]
  BY <1>1
<1>4. \A i \in 1 .. n : Append(s, e)[i] = s[i]
  BY <1>1
<1>5. Append(s, e)[n + 1] = e
  BY <1>1
<1> HIDE DEF t, u, n
<1> DEFINE v == Append(t, e)
<1>6. v \in Seq(S) /\ Len(v) = (n - b) + 1 /\ v[(n - b) + 1] = e
      /\ \A i \in 1 .. n - b : v[i] = t[i]
  BY <1>1, <1>2
<1> HIDE DEF v
<1>7. \A i \in 1 .. (n + 1) - b : u[i] = v[i]
  <2> TAKE i \in 1 .. (n + 1) - b
  <2>1. CASE i \in 1 .. n - b
    <3>1. b + i \in 1 .. n
      BY <1>10, <2>1
    <3> QED
      BY <1>2, <1>3, <1>4, <1>6, <2>1, <3>1
  <2>2. CASE i = (n - b) + 1
    <3>1. b + i = n + 1
      BY <1>10, <2>2
    <3> QED
      BY <1>3, <1>5, <1>6, <2>2, <3>1
  <2> QED
    BY <1>10, <2>1, <2>2
<1>8. (n + 1) - b = (n - b) + 1
  BY <1>10
<1>9. u = v
  BY <1>3, <1>6, <1>7, <1>8, SeqEqual
<1> QED
  BY <1>1, <1>9 DEF u, v, t, n

(* The parts of what is reached. *)
LEMMA ReachedParts ==
  ASSUME WorkerCount = 1, RegionInv, RingInv, NEW r \in Regions, NEW k \in 1 .. Len(metas[r])
  PROVE  /\ RowsOf(metas[r][k]) \in Seq(RowSet)
         /\ InFlightFor(r, k) \in Seq(RowSet)
         /\ MemRows(0, r) \in Seq(RowSet)
<1>1. metas[r] \in Seq(Seq(Blocks)) /\ InFlight(0) \in Seq(Signals)
  BY InFlightParts DEF RegionInv, Stored
<1>2. metas[r][k] \in Seq(Blocks)
  BY <1>1
<1> QED
  BY <1>1, <1>2, LogParts, RowsInType, RowsOfData DEF RowsOf, InFlightFor

(* The context of an existing region has an SST. *)
LEMMA LastSST ==
  ASSUME WorkerCount = 1, RegionInv, NEW r \in Regions, Exists(r), IndexInv(r)
  PROVE  Len(metas[r]) \in 1 .. Len(metas[r])
<1>1. Held(0)
  BY OneOnly DEF RegionInv
<1>2. Context(0, r) \in Contexts
  BY <1>1, OneOnly DEF Held, Context, Exists, Open, Closed
<1>3. Len(metas[r]) \in Nat \ {0}
  BY <1>2 DEF Contexts, IndexInv
<1> QED
  BY <1>3

(* Nothing about the region changes but perhaps where its context is.      *)
LEMMA IndexKept ==
  ASSUME NEW r \in Regions, IndexInv(r), Kept,
         metas'[r] = metas[r], accepted'[r] = accepted[r], born'[r] = born[r],
         MemRows(0, r)' = MemRows(0, r),
         Exists(r)' => Exists(r) /\ Context(0, r)'.sst = Context(0, r).sst
  PROVE  IndexInv(r)'
<1>1. \A k : InFlightFor(r, k)' = InFlightFor(r, k)
  BY DEF Kept, InFlightFor
<1>2. \A k : Reached(r, k)' = Reached(r, k)
  BY <1>1 DEF Reached
<1>3. Accepted(r)' = Accepted(r)
  BY DEF Accepted
<1>4. Reached(r, Len(metas[r]))' = Reached(r, Len(metas[r]))
  <2>1. (Len(metas[r]))' = Len(metas[r])
    OBVIOUS
  <2> QED
    BY <1>1, <2>1 DEF Reached
<1> QED
  BY <1>1, <1>3, <1>4 DEF IndexInv

(* A row is written. *)
LEMMA IndexGrows ==
  ASSUME WorkerCount = 1, RegionInv, RingInv, NEW r \in Regions, NEW row \in RowSet,
         IndexInv(r), Open(0, r), Kept, UNCHANGED <<metas, born>>,
         accepted'[r] = Append(accepted[r], row),
         MemRows(0, r)' = Append(MemRows(0, r), row),
         Context(0, r)'.sst = Context(0, r).sst
  PROVE  IndexInv(r)'
<1> PICK n : n = Len(metas[r])
  OBVIOUS
<1> DEFINE A == RowsOf(metas[r][n])
           B == InFlightFor(r, n)
           M == MemRows(0, r)
<1>1. Exists(r)
  BY OneOnly DEF Exists
<1>2. A \in Seq(RowSet) /\ B \in Seq(RowSet) /\ M \in Seq(RowSet)
  BY <1>1, LastSST, ReachedParts
<1>3. /\ \A k : InFlightFor(r, k)' = InFlightFor(r, k)
      /\ (Len(metas[r]))' = n
  BY DEF Kept, InFlightFor
<1>4. Reached(r, Len(metas[r]))' = (A \o B) \o Append(M, row)
  BY <1>3 DEF Reached
<1>5. (A \o B) \o M = Accepted(r)
  BY <1>1 DEF IndexInv, Reached
<1> HIDE DEF A, B, M
<1>6. Push(A \o B, M, row)
  BY <1>2, ConcatProperties, Pushing
<1>7. accepted[r] \in Seq(RowSet) /\ born[r] \in 0 .. Len(accepted[r])
  BY DEF RegionInv, Stored, IndexInv
<1>8. Accepted(r)' = Append(Accepted(r), row)
  <2>1. Accepted(r)' = SubSeq(Append(accepted[r], row), born[r] + 1, Len(Append(accepted[r], row)))
    BY DEF Accepted
  <2> QED
    BY <1>7, <2>1, SubSeqAppend DEF Accepted
<1>9. Reached(r, Len(metas[r]))' = Accepted(r)'
  BY <1>4, <1>5, <1>6, <1>8 DEF Push
<1>10. (born[r] \in 0 .. Len(accepted[r]))'
  BY <1>7
<1> QED
  BY <1>1, <1>3, <1>9, <1>10 DEF IndexInv
-----------------------------------------------------------------------------
(* A memtable is frozen. *)
LEMMA IndexFrozen ==
  ASSUME WorkerCount = 1, RegionInv, RingInv, NEW x \in Regions, IndexInv(x),
         NEW r \in Regions, NEW s \in Signals, Added(s), s.region = r,
         UNCHANGED <<metas, accepted, born>>,
         x # r => View(x)' = View(x),
         x = r => /\ Exists(x) /\ s.sst = Context(0, x).sst /\ s.rows = MemRows(0, x)
                  /\ Context(0, x)'.sst = Context(0, x).sst /\ MemRows(0, x)' = << >>
  PROVE  IndexInv(x)'
<1>1. \A k : InFlightFor(x, k)' = InFlightFor(x, k) \o Piece(s, SignalsFor(x, k))
  BY AddedRows DEF InFlightFor
<1>2. Accepted(x)' = Accepted(x) /\ (born[x] \in 0 .. Len(accepted[x]))'
  BY DEF Accepted, IndexInv
<1>3. \A k : InFlightFor(x, k) \in Seq(RowSet)
  BY InFlightParts, RowsInType, RowsOfData DEF InFlightFor
<1>4. \A k : Piece(s, SignalsFor(x, k)) = << >> => InFlightFor(x, k)' = InFlightFor(x, k)
  BY <1>1, <1>3, ConcatEmptySeq
<1> PICK n : n = Len(metas[x])
  OBVIOUS
<1> DEFINE A == RowsOf(metas[x][n])
           B == InFlightFor(x, n)
           M == MemRows(0, x)
<1>5. CASE x # r
  <2>1. \A k : Piece(s, SignalsFor(x, k)) = << >>
    BY <1>5 DEF Piece, SignalsFor, SignalsOf
  <2>2. \A k : InFlightFor(x, k)' = InFlightFor(x, k)
    BY <1>4, <2>1
  <2>3. /\ MemRows(0, x)' = M /\ Context(0, x)' = Context(0, x)
        /\ (Exists(x)' <=> Exists(x))
    BY <1>5, SameView
  <2>4. Reached(x, Len(metas[x]))' = Reached(x, Len(metas[x]))
    <3>1. (Len(metas[x]))' = n
      OBVIOUS
    <3> QED
      BY <2>2, <2>3, <3>1 DEF Reached
  <2> QED
    BY <1>2, <2>2, <2>3, <2>4 DEF IndexInv
<1>6. CASE x = r
  <2>1. Exists(x) /\ s.sst = n /\ s.rows = M /\ (Len(metas[x]))' = n
        /\ Context(0, x)'.sst = n /\ MemRows(0, x)' = << >>
    BY <1>6 DEF IndexInv
  <2>2. Piece(s, SignalsFor(x, n)) = M
    BY <1>6, <2>1 DEF Piece, SignalsFor, SignalsOf
  <2>3. ASSUME NEW k \in Nat, k > Len(metas'[x])
        PROVE  InFlightFor(x, k)' = << >>
    <3>1. k # n /\ k > Len(metas[x])
      <4>1. n \in Nat
        BY <2>1, LastSST
      <4> QED
        BY <2>3, <4>1
    <3>2. Piece(s, SignalsFor(x, k)) = << >>
      BY <2>1, <3>1 DEF Piece, SignalsFor
    <3> QED
      BY <1>4, <3>1, <3>2 DEF IndexInv
  <2>4. A \in Seq(RowSet) /\ B \in Seq(RowSet) /\ M \in Seq(RowSet)
    BY <2>1, LastSST, ReachedParts
  <2>5. Reached(x, Len(metas[x]))' = (A \o (B \o M)) \o << >>
    BY <1>1, <2>1, <2>2 DEF Reached
  <2>6. (A \o B) \o M = Accepted(x)
    BY <2>1 DEF IndexInv, Reached
  <2> HIDE DEF A, B, M
  <2>7. Regroup(A, B, M) /\ (A \o B) \o M \in Seq(RowSet)
    BY <2>4, Regrouping, ConcatProperties
  <2>8. ((A \o B) \o M) \o << >> = (A \o B) \o M
    BY <2>7, ConcatEmptySeq
  <2>9. Reached(x, Len(metas[x]))' = Accepted(x)'
    BY <1>2, <2>5, <2>6, <2>7, <2>8 DEF Regroup
  <2> QED
    BY <1>2, <2>1, <2>3, <2>9 DEF IndexInv
<1> QED
  BY <1>5, <1>6

(* A block is written, and its meta added to its SST.                      *)
LEMMA IndexFlushed ==
  ASSUME WorkerCount = 1, RegionInv, RingInv, NEW x \in Regions, IndexInv(x), HandleFlush
  PROVE  IndexInv(x)'
<1> DEFINE r == flushing.region
           j == flushing.sst
           b == Block(flushing)
           m == flushing.rows
<1>1. /\ flushing # None /\ flushing' = None
      /\ metas' = [metas EXCEPT ![r][j] = Append(@, b)]
      /\ UNCHANGED <<contexts, put, flusherPipe>> /\ UNCHANGED <<accepted, born>>
  BY DEF HandleFlush, history
<1>2. /\ flushing \in Signals /\ r \in Regions /\ m \in Seq(RowSet)
      /\ b \in Blocks /\ b.rows = m
  BY <1>1, RingTypes DEF Signals, Block, Blocks
<1>3. Removed /\ InFlight(0)' \in Seq(Signals)
  BY <1>1, FlusherDone
<1>4. \A k : /\ InFlightFor(x, k)' \in Seq(RowSet)
             /\ InFlightFor(x, k) = Piece(flushing, SignalsFor(x, k)) \o InFlightFor(x, k)'
  <2> TAKE k
  <2> DEFINE t == InFlight(0)'
  <2>1. InFlightFor(x, k)' = RowsIn(t, SignalsFor(x, k))
    BY DEF InFlightFor
  <2>2. InFlightFor(x, k) = Piece(flushing, SignalsFor(x, k)) \o RowsIn(t, SignalsFor(x, k))
    BY <1>2, <1>3, RemovedRows DEF InFlightFor
  <2>3. t \in Seq(Signals)
    BY <1>3
  <2> HIDE DEF t
  <2>4. RowsIn(t, SignalsFor(x, k)) \in Seq(RowSet)
    BY <2>3, RowsInType, RowsOfData
  <2> QED
    BY <2>1, <2>2, <2>4
<1>5. /\ MemRows(0, x)' = MemRows(0, x) /\ Context(0, x)' = Context(0, x)
      /\ (Exists(x)' <=> Exists(x))
  BY <1>1, SameViews, SameView
<1>6. Accepted(x)' = Accepted(x) /\ (born[x] \in 0 .. Len(accepted[x]))'
  BY <1>1 DEF Accepted, IndexInv
<1>7. metas \in [Regions -> Seq(Seq(Blocks))] /\ metas[x] \in Seq(Seq(Blocks))
  BY DEF RegionInv, Stored
<1> HIDE DEF r, j, b, m
<1>8. /\ Len(metas'[x]) = Len(metas[x])
      /\ \A k \in 1 .. Len(metas[x]) :
           metas'[x][k] = IF x = r /\ k = j THEN Append(metas[x][k], b) ELSE metas[x][k]
  <2>1. metas'[x] = IF x = r THEN [metas[x] EXCEPT ![j] = Append(@, b)] ELSE metas[x]
    BY <1>1, <1>2, <1>7
  <2> DEFINE s == metas[x]
             t == [s EXCEPT ![j] = Append(@, b)]
  <2>2. Len(t) = Len(s) /\ \A k \in 1 .. Len(s) : t[k] = IF k = j THEN Append(s[k], b) ELSE s[k]
    <3>1. s \in Seq(Seq(Blocks))
      BY <1>7
    <3> HIDE DEF s
    <3>2. DOMAIN t = 1 .. Len(s) /\ Len(s) \in Nat
      BY <3>1
    <3>3. t \in Seq(Seq(Blocks))
      <4> DEFINE n == Len(s)
                 v == Append(s[j], b)
      <4>1. n \in Nat /\ s \in [1 .. n -> Seq(Blocks)]
        BY <3>1
      <4>2. j \in 1 .. n => v \in Seq(Blocks)
        BY <1>2, <4>1
      <4>3. t = [s EXCEPT ![j] = v]
        OBVIOUS
      <4> HIDE DEF n, v, t
      <4>4. t \in [1 .. n -> Seq(Blocks)]
        BY <4>1, <4>2, <4>3
      <4> QED
        BY <4>1, <4>4
    <3>4. Len(t) = Len(s)
      <4> HIDE DEF t
      <4>1. DOMAIN t = 1 .. Len(t) /\ Len(t) \in Nat
        BY <3>3
      <4> QED
        BY <3>2, <4>1
    <3> QED
      BY <3>1, <3>4
  <2> HIDE DEF t
  <2> QED
    BY <2>1, <2>2 DEF t
<1>9. ASSUME NEW k \in Nat, k > Len(metas[x])
      PROVE  InFlightFor(x, k)' = << >>
  <2>1. InFlightFor(x, k) = << >>
    BY <1>9 DEF IndexInv
  <2> DEFINE p == Piece(flushing, SignalsFor(x, k))
             i == InFlightFor(x, k)'
  <2>2. p \o i = << >> /\ i \in Seq(RowSet) /\ p \in Seq(RowSet)
    BY <1>2, <1>4, <2>1 DEF Piece, m
  <2> HIDE DEF p, i
  <2>3. i = << >>
    BY <2>2, ConcatEqualIffEmpty
  <2> QED
    BY <2>3 DEF i
<1>10. ASSUME Exists(x)
       PROVE  Reached(x, Len(metas[x]))' = Accepted(x)'
  <2> PICK n : n = Len(metas[x])
    OBVIOUS
  <2> DEFINE A == RowsOf(metas[x][n])
             B == InFlightFor(x, n)
             C == InFlightFor(x, n)'
             M == MemRows(0, x)
  <2>1. n \in 1 .. Len(metas[x]) /\ A \in Seq(RowSet) /\ C \in Seq(RowSet)
    BY <1>4, <1>10, LastSST, ReachedParts
  <2>2. B = Piece(flushing, SignalsFor(x, n)) \o C /\ (A \o B) \o M = Accepted(x)
    BY <1>4, <1>10 DEF IndexInv, Reached
  <2>3. Reached(x, Len(metas[x]))' = (RowsOf(metas'[x][n]) \o C) \o M
    BY <1>5, <1>8 DEF Reached, InFlightFor
  <2>4. RowsOf(metas'[x][n]) \o C = A \o B
    <3>1. metas[x][n] \in Seq(Blocks)
      BY <1>7, <2>1
    <3>2. CASE x = r /\ n = j
      <4>1. Piece(flushing, SignalsFor(x, n)) = m /\ Piece(b, Blocks) = m
        BY <1>2, <3>2 DEF Piece, SignalsFor, SignalsOf, r, j, m
      <4>2. RowsOf(metas'[x][n]) = A \o m
        <5>1. metas'[x][n] = Append(metas[x][n], b)
          BY <1>8, <2>1, <3>2
        <5>2. RowsIn(Append(metas[x][n], b), Blocks) = RowsIn(metas[x][n], Blocks) \o m
          <6> DEFINE s == metas[x][n]
          <6>1. s \in Seq(Blocks) /\ b \in Blocks /\ Piece(b, Blocks) = m
            BY <1>2, <3>1, <4>1
          <6> HIDE DEF s
          <6>2. RowsIn(Append(s, b), Blocks) = RowsIn(s, Blocks) \o m
            BY <6>1, RowsInAppend, RowsOfData
          <6> QED
            BY <6>2 DEF s
        <5> QED
          BY <5>1, <5>2 DEF RowsOf
      <4> HIDE DEF A, C
      <4>3. Regroup(A, m, C)
        BY <1>2, <2>1, Regrouping
      <4> QED
        BY <2>2, <4>1, <4>2, <4>3 DEF Regroup
    <3>3. CASE ~(x = r /\ n = j)
      <4>1. Piece(flushing, SignalsFor(x, n)) = << >>
        BY <3>3 DEF Piece, SignalsFor, SignalsOf, r, j
      <4>2. << >> \o C = C
        <5> HIDE DEF C
        <5> QED
          BY <2>1, ConcatEmptySeq
      <4>3. metas'[x][n] = metas[x][n]
        BY <1>8, <2>1, <3>3
      <4> QED
        BY <2>2, <4>1, <4>2, <4>3
    <3> QED
      BY <3>2, <3>3
  <2> QED
    BY <1>6, <2>2, <2>3, <2>4
<1> QED
  BY <1>5, <1>6, <1>8, <1>9, <1>10 DEF IndexInv
-----------------------------------------------------------------------------
IndexAll == DOMAIN born = Regions /\ \A r \in Regions : IndexInv(r)

(* A row written is reached through the SST of its region. *)
LEMMA IndexWrites ==
  ASSUME WorkerCount = 1, StoreInv, IndexAll, NEW q \in Requested, q.kind = "WRITE",
         Open(0, q.region), WriteRow(0, q), Kept,
         UNCHANGED <<closedRegions, dropingRegions, metas, born>>
  PROVE  IndexAll'
<1> DEFINE r == q.region
           row == Row(q.id, q.ts)
<1>1. r \in Regions /\ RegionInv /\ RingInv /\ Open(0, r)
  BY RequestedShape DEF StoreInv
<1>2. /\ \A x \in Regions : x # r => View(x)' = View(x) /\ accepted'[x] = accepted[x]
      /\ Context(0, r)'.sst = Context(0, r).sst /\ row \in RowSet
      /\ MemRows(0, r)' = Append(MemRows(0, r), row)
      /\ accepted'[r] = Append(accepted[r], row)
  BY <1>1, WriteRowEffect
<1> HIDE DEF r, row
<1>3. IndexInv(r)'
  BY <1>1, <1>2, IndexGrows DEF IndexAll
<1>4. ASSUME NEW x \in Regions, x # r
      PROVE  IndexInv(x)'
  BY <1>2, <1>4, SameView, IndexKept DEF IndexAll
<1> QED
  BY <1>3, <1>4 DEF IndexAll

(* A region that closes keeps its SST. *)
LEMMA IndexMoves ==
  ASSUME WorkerCount = 1, StoreInv, IndexAll, NEW r \in Regions, Open(0, r),
         regions[0][r].mem.rows = << >>, MoveToClosed(0, r), Kept,
         UNCHANGED <<dropingRegions, metas, accepted, born>>
  PROVE  IndexAll'
<1>1. RegionInv /\ RingInv /\ Exists(r)
  BY OneOnly DEF StoreInv, Exists
<1>2. /\ \A x \in Regions : x # r => View(x)' = View(x)
      /\ Context(0, r)'.sst = Context(0, r).sst
      /\ MemRows(0, r)' = MemRows(0, r)
  BY <1>1, CloseEffect
<1>3. IndexInv(r)'
  BY <1>1, <1>2, IndexKept DEF IndexAll
<1>4. ASSUME NEW x \in Regions, x # r
      PROVE  IndexInv(x)'
  BY <1>2, <1>4, SameView, IndexKept DEF IndexAll
<1> QED
  BY <1>3, <1>4 DEF IndexAll

(* A step that changes no context, no SST and nothing in flight. *)
LEMMA IndexStill ==
  ASSUME WorkerCount = 1, IndexAll, Kept, UNCHANGED <<contexts, metas, accepted, born>>
  PROVE  IndexAll'
BY SameViews, SameView, IndexKept DEF IndexAll

(* A memtable handed over is reached through the signal that carries it. *)
LEMMA IndexSends ==
  ASSUME WorkerCount = 1, StoreInv, IndexAll, NEW q \in Requested, put[0] = None,
         Open(0, q.region), SendFlushSignal(0, q),
         UNCHANGED <<flusherPipe, flushing>>, UNCHANGED <<metas, accepted, born>>
  PROVE  IndexAll'
<1> DEFINE r == q.region
           s == Signal(r, regions[0][r])
<1>1. r \in Regions /\ RegionInv /\ RingInv /\ Exists(r)
  BY RequestedShape, OneOnly DEF StoreInv, Exists
<1>2. /\ RingInv' /\ Added(s) /\ s \in Signals
      /\ s.region = r /\ s.sst = Context(0, r).sst /\ s.rows = MemRows(0, r)
      /\ \A x \in Regions : x # r => View(x)' = View(x)
      /\ Context(0, r)'.sst = Context(0, r).sst /\ MemRows(0, r)' = << >>
  BY <1>1, SendEffect
<1> HIDE DEF r, s
<1>3. ASSUME NEW x \in Regions
      PROVE  IndexInv(x)'
  BY <1>1, <1>2, IndexFrozen DEF IndexAll
<1> QED
  BY <1>3 DEF IndexAll

(* CREATE begins an SST of its own, whether or not the region had others.  *)
LEMMA IndexCreates ==
  ASSUME WorkerCount = 1, StoreInv, CreateInv, IndexAll, NEW q, q = Head(enginePipe[0]),
         enginePipe[0] # << >>, Create(0, q)
  PROVE  IndexAll'
<1> DEFINE r == q.region
           n == Len(metas[r])
<1>1. RegionInv /\ RingInv
  BY DEF StoreInv
<1>2. /\ r \in Regions /\ ~Exists(r)
      /\ \A x \in Regions : x # r => View(x)' = View(x)
      /\ ~Open(0, r)' /\ Closed(0, r)' /\ Context(0, r)'.sst = n + 1
  <2>1. q \in Requested /\ r \in Regions /\ ~Exists(r)
    BY <1>1, CreatedFirst
  <2>2. ~Open(0, r)
    BY <2>1, OneOnly DEF Exists
  <2> QED
    BY <1>1, <2>1, <2>2, CreateEffect
<1>3. /\ metas' = [metas EXCEPT ![r] = Append(@, << >>)]
      /\ born' = [born EXCEPT ![r] = IF Exists(r) THEN @ ELSE Len(accepted[r])]
      /\ UNCHANGED <<put, flusherPipe, flushing>> /\ UNCHANGED accepted
  BY DEF Create
<1>4. Kept
  BY <1>1, <1>3, RingUntouched
<1>5. /\ metas \in [Regions -> Seq(Seq(Blocks))] /\ accepted \in [Regions -> Seq(RowSet)]
  BY <1>1 DEF RegionInv, Stored
<1>6. metas[r] \in Seq(Seq(Blocks)) /\ n \in Nat /\ accepted[r] \in Seq(RowSet)
  BY <1>2, <1>5
<1>7. /\ metas'[r] = Append(metas[r], << >>)
      /\ \A x \in Regions : x # r => metas'[x] = metas[x]
  BY <1>2, <1>3, <1>5
<1>8. Len(metas'[r]) = n + 1 /\ metas'[r][n + 1] = << >>
  <2> DEFINE s == metas[r]
             e == << >>
  <2>1. s \in Seq(Seq(Blocks)) /\ e \in Seq(Blocks)
    BY <1>6
  <2> HIDE DEF s, e
  <2>2. Len(Append(s, e)) = Len(s) + 1 /\ Append(s, e)[Len(s) + 1] = e
    BY <2>1
  <2> QED
    BY <1>7, <2>2 DEF s, e
<1>9. born'[r] = Len(accepted[r]) /\ DOMAIN born' = Regions
      /\ \A x \in Regions : x # r => born'[x] = born[x]
  BY <1>2, <1>3 DEF IndexAll
<1> HIDE DEF r
<1> PICK k : k = n + 1
  OBVIOUS
<1>10. \A i : InFlightFor(r, i)' = InFlightFor(r, i)
  BY <1>4 DEF Kept, InFlightFor
<1>11. IndexInv(r)'
  <2>1. \A i \in Nat : i > k => InFlightFor(r, i)' = << >>
    BY <1>2, <1>6, <1>10 DEF IndexAll, IndexInv
  <2>2. InFlightFor(r, k)' = << >>
    BY <1>2, <1>6, <1>10 DEF IndexAll, IndexInv
  <2>3. Reached(r, Len(metas[r]))' = << >>
    <3>1. MemRows(0, r)' = << >>
      BY <1>2 DEF MemRows
    <3>2. RowsOf(metas'[r][k]) = << >>
      BY <1>8, RowsInEmpty DEF RowsOf
    <3>3. Reached(r, Len(metas[r]))' = (<< >> \o << >>) \o << >>
      BY <1>8, <2>2, <3>1, <3>2 DEF Reached
    <3>4. << >> \o << >> = << >>
      OBVIOUS
    <3> QED
      BY <3>3, <3>4
  <2>4. Accepted(r)' = << >>
    <3> PICK a \in Seq(RowSet) : a = accepted[r]
      BY <1>6
    <3>1. Accepted(r)' = SubSeq(a, Len(a) + 1, Len(a))
      BY <1>3, <1>9 DEF Accepted
    <3> QED
      BY <3>1
  <2>5. (born[r] \in 0 .. Len(accepted[r]))'
    BY <1>3, <1>6, <1>9
  <2> QED
    BY <1>2, <1>8, <2>1, <2>3, <2>4, <2>5 DEF IndexInv
<1>12. ASSUME NEW x \in Regions, x # r
       PROVE  IndexInv(x)'
  BY <1>2, <1>3, <1>4, <1>7, <1>9, <1>12, SameView, IndexKept DEF IndexAll
<1> QED
  BY <1>9, <1>11, <1>12 DEF IndexAll

(* The signals a worker handles. *)
LEMMA IndexHandles ==
  ASSUME WorkerCount = 1, StoreInv, CreateInv, IndexAll, Handle(0)
  PROVE  IndexAll'
<1> PICK q : q = Head(enginePipe[0])
  OBVIOUS
<1>1. RegionInv /\ RingInv
  BY DEF StoreInv
<1>2. /\ enginePipe[0] # << >> /\ Take(0)
      /\ \/ HandleWrite(0, q) \/ HandleWriteFull(0, q) \/ Create(0, q)
         \/ OpenRegion(0, q) \/ CloseEmpty(0, q) \/ CloseFull(0, q)
         \/ Drop(0, q) \/ Ignore(0, q)
  BY DEF Handle, HandleWrite, HandleWriteFull, Create, OpenRegion, CloseEmpty, CloseFull,
     Drop, Ignore
<1>3. q \in Requested /\ put[0] = None
  BY <1>1, <1>2, PipeTaken
<1> DEFINE r == q.region
<1>4. r \in Regions
  BY <1>3, RequestedShape
<1>5. UNCHANGED <<put, flusherPipe, flushing>> => Kept
  BY <1>1, RingUntouched
<1>6. CASE HandleWrite(0, q)
  BY <1>3, <1>5, <1>6, IndexWrites DEF HandleWrite, disk
<1>7. CASE HandleWriteFull(0, q) \/ CloseFull(0, q)
  BY <1>3, <1>7, IndexSends DEF HandleWriteFull, CloseFull, CanClose, disk, history
<1>8. CASE Create(0, q)
  BY <1>2, <1>8, IndexCreates
<1>9. CASE OpenRegion(0, q)
  <2>1. /\ UNCHANGED <<put, flusherPipe, flushing>> /\ UNCHANGED <<metas, accepted, born>>
    BY <1>9 DEF OpenRegion, disk, history
  <2>2. /\ \A x \in Regions : x # r => View(x)' = View(x)
        /\ Exists(r) /\ Context(0, r)'.sst = Context(0, r).sst
        /\ MemRows(0, r)' = MemRows(0, r)
    BY <1>1, <1>3, <1>9, OpenEffect
  <2> HIDE DEF r
  <2>3. IndexInv(r)'
    BY <1>4, <1>5, <2>1, <2>2, IndexKept DEF IndexAll
  <2>4. ASSUME NEW x \in Regions, x # r
        PROVE  IndexInv(x)'
    BY <1>5, <2>1, <2>2, <2>4, SameView, IndexKept DEF IndexAll
  <2> QED
    BY <2>1, <2>3, <2>4 DEF IndexAll
<1>10. CASE CloseEmpty(0, q)
  <2> HIDE DEF r
  <2>1. /\ UNCHANGED <<put, flusherPipe, flushing>>
        /\ UNCHANGED <<dropingRegions, metas, accepted, born>>
        /\ Open(0, r) /\ regions[0][r].mem.rows = << >> /\ MoveToClosed(0, r)
    BY <1>10 DEF CloseEmpty, CanClose, HasRows, disk, history, r
  <2> QED
    BY <1>4, <1>5, <2>1, IndexMoves
<1>11. CASE Drop(0, q)
  <2>1. /\ UNCHANGED <<put, flusherPipe, flushing>> /\ UNCHANGED <<metas, accepted, born>>
    BY <1>11 DEF Drop, disk, history
  <2>2. /\ \A x \in Regions : x # r => View(x)' = View(x)
        /\ ~Open(0, r)' /\ ~Closed(0, r)' /\ MemRows(0, r)' = MemRows(0, r)
    BY <1>1, <1>3, <1>11, DropEffect
  <2> HIDE DEF r
  <2>3. ~Exists(r)'
    BY <2>2, OneOnly DEF Exists
  <2>4. IndexInv(r)'
    BY <1>4, <1>5, <2>1, <2>2, <2>3, IndexKept DEF IndexAll
  <2>5. ASSUME NEW x \in Regions, x # r
        PROVE  IndexInv(x)'
    BY <1>5, <2>1, <2>2, <2>5, SameView, IndexKept DEF IndexAll
  <2> QED
    BY <2>1, <2>4, <2>5 DEF IndexAll
<1>12. CASE Ignore(0, q)
  BY <1>5, <1>12, IndexStill DEF Ignore, disk, history
<1> QED
  BY <1>2, <1>6, <1>7, <1>8, <1>9, <1>10, <1>11, <1>12

(* Every step keeps the invariant. *)
LEMMA IndexStep ==
  ASSUME WorkerCount = 1, MaxFailures = 0, StoreInv, CreateInv, IndexAll, [Next]_vars
  PROVE  IndexAll'
<1>1. RegionInv /\ RingInv
  BY DEF StoreInv
<1>2. UNCHANGED <<put, flusherPipe, flushing>> => Kept
  BY <1>1, RingUntouched
<1>3. CASE Engine \/ UNCHANGED vars
  BY <1>2, <1>3, IndexStill DEF Engine, vars, disk, history
<1>4. CASE Handle(0)
  BY <1>4, IndexHandles
<1>5. CASE PutStore(0)
  BY <1>1, <1>5, PutStores, IndexStill DEF PutStore, disk, history
<1>6. CASE PutReturn(0)
  <2> DEFINE q == put[0].request
             r == q.region
  <2>1. put[0] # None /\ UNCHANGED <<dropingRegions, metas, born>> /\ Kept
    BY <1>1, <1>6, PutReturns DEF PutReturn, disk
  <2>2. q \in Requested /\ Open(0, r) /\ regions[0][r].mem.rows = << >> /\ r \in Regions
    <3>1. Held(0)
      BY <1>1, OneOnly DEF RegionInv
    <3>2. q \in Requested /\ Open(0, r) /\ regions[0][r].mem = NewMemtable
      BY <2>1, <3>1 DEF Held, Waiting, Puts
    <3> QED
      BY <3>2, RequestedShape DEF NewMemtable
  <2>3. \/ q.kind = "WRITE" /\ WriteRow(0, q) /\ UNCHANGED closedRegions
        \/ MoveToClosed(0, r) /\ UNCHANGED accepted
    BY <1>6 DEF PutReturn
  <2> HIDE DEF q, r
  <2>4. CASE q.kind = "WRITE" /\ WriteRow(0, q) /\ UNCHANGED closedRegions
    BY <2>1, <2>2, <2>4, IndexWrites DEF r
  <2>5. CASE MoveToClosed(0, r) /\ UNCHANGED accepted
    BY <2>1, <2>2, <2>5, IndexMoves
  <2> QED
    BY <2>3, <2>4, <2>5
<1>7. CASE GetFlush
  BY <1>1, <1>7, FlusherTakes, IndexStill DEF GetFlush, disk, history
<1>8. CASE HandleFlush
  <2>1. UNCHANGED born
    BY <1>8 DEF HandleFlush, history
  <2> QED
    BY <1>1, <1>8, <2>1, IndexFlushed DEF IndexAll
<1>9. ~FlushFails
  BY DEF StoreInv, FailuresCounted, FlushFails
<1> QED
  BY <1>3, <1>4, <1>5, <1>6, <1>7, <1>8, <1>9, OneOnly DEF Next, Worker, Flusher

(* Initially no region exists. *)
LEMMA IndexInit ==
  ASSUME WorkerCount = 1, Init
  PROVE  IndexAll
<1>1. StoreInv
  BY StoreInit
<1>2. InFlight(0) = << >>
  BY InFlightInit
<1>3. ASSUME NEW r \in Regions
      PROVE  IndexInv(r)
  <2>1. ~Exists(r)
    BY DEF Init, Exists, Open, Closed
  <2>2. \A k : InFlightFor(r, k) = << >>
    BY <1>2, RowsInEmpty DEF InFlightFor
  <2>3. born[r] = 0 /\ accepted[r] = << >>
    BY DEF Init
  <2> QED
    BY <2>1, <2>2, <2>3 DEF IndexInv
<1> QED
  BY <1>3 DEF Init, IndexAll

(* The SST of a region that is open or closed leads to every row accepted  *)
(* since the region was created, in order: through the metas of its blocks *)
(* (SSTBlockMeta::flushBlock), the signals on their way to it and the      *)
(* memtable, across flushes, closings and openings (sendFlushSignal,       *)
(* handleStatus).  Clients that create a region again are excluded, as a   *)
(* second CREATE gives the region an SST that knows no earlier block, and  *)
(* so are failing flushes and a second worker, which lose rows.            *)
THEOREM IndexKeptComplete ==
  ASSUME WorkerCount = 1, MaxFailures = 0, ~Recreate
  PROVE  Spec => []IndexReachesRows
<1>1. Init => StoreInv /\ CreateInv /\ IndexAll
  BY StoreInit, CreateInit, IndexInit
<1>2. StoreInv /\ CreateInv /\ IndexAll /\ [Next]_vars
        => StoreInv' /\ CreateInv' /\ IndexAll'
  BY StoreInvStep, CreateInvStep, IndexStep DEF StoreInv
<1>3. StoreInv /\ IndexAll => IndexReachesRows
  <2> SUFFICES ASSUME IndexAll, NEW r \in Regions, Exists(r)
               PROVE  LET sst == Context(0, r).sst
                      IN  RowsOf(metas[r][sst]) \o InFlightFor(r, sst) \o MemRows(0, r)
                          = Accepted(r)
    BY OneOnly DEF IndexReachesRows, InFlightFor, Accepted
  <2> QED
    BY DEF IndexAll, IndexInv, Reached
<1> QED
  BY <1>1, <1>2, <1>3, PTL DEF Spec
-----------------------------------------------------------------------------
(* Rows in the order of the requests that wrote them.                      *)
Ascending(rows) == \A i, j \in 1 .. Len(rows) : i < j => rows[i][1] < rows[j][1]

Before(rows, later) == \A i \in 1 .. Len(rows), j \in 1 .. Len(later) :
                         rows[i][1] < later[j][1]

Under(rows, n) == \A i \in 1 .. Len(rows) : rows[i][1] < n

(* Where the elements of u = s \o t come from. *)
Joined(u, s, t) ==
  /\ \A i \in 1 .. Len(s) : i \in 1 .. Len(u) /\ u[i] = s[i]
  /\ \A j \in 1 .. Len(t) : Len(s) + j \in 1 .. Len(u) /\ u[Len(s) + j] = t[j]
  /\ \A i \in 1 .. Len(u) : i \in 1 .. Len(s) \/ \E j \in 1 .. Len(t) : i = Len(s) + j

(* The elements of a concatenation are those of its parts. *)
LEMMA Joining ==
  ASSUME NEW s \in Seq(RowSet), NEW t \in Seq(RowSet)
  PROVE  Joined(s \o t, s, t)
<1> DEFINE u == s \o t
<1> PICK a \in Nat, b \in Nat : a = Len(s) /\ b = Len(t)
  OBVIOUS
<1>1. /\ Len(u) = a + b
      /\ \A i \in 1 .. a : u[i] = s[i]
      /\ \A j \in 1 .. b : u[a + j] = t[j]
  OBVIOUS
<1> HIDE DEF u
<1>2. ASSUME NEW i \in 1 .. a + b, i \notin 1 .. a
      PROVE  \E j \in 1 .. b : i = a + j
  <2>1. i - a \in 1 .. b /\ i = a + (i - a)
    BY <1>2
  <2> QED
    BY <2>1
<1>3. /\ \A i \in 1 .. a : i \in 1 .. a + b
      /\ \A j \in 1 .. b : a + j \in 1 .. a + b
  OBVIOUS
<1>4. Joined(u, s, t)
  BY <1>1, <1>2, <1>3 DEF Joined
<1> QED
  BY <1>4 DEF u

(* A bound of a concatenation bounds its parts. *)
LEMMA ConcatUnder ==
  ASSUME NEW s \in Seq(RowSet), NEW t \in Seq(RowSet), NEW n
  PROVE  Under(s \o t, n) <=> Under(s, n) /\ Under(t, n)
<1> DEFINE u == s \o t
<1>1. Joined(u, s, t)
  BY Joining
<1> HIDE DEF u
<1>2. Under(u, n) => Under(s, n) /\ Under(t, n)
  BY <1>1 DEF Under, Joined
<1>3. ASSUME Under(s, n), Under(t, n), NEW i \in 1 .. Len(u)
      PROVE  u[i][1] < n
  <2>1. CASE i \in 1 .. Len(s)
    BY <1>1, <1>3, <2>1 DEF Under, Joined
  <2>2. ASSUME NEW j \in 1 .. Len(t), i = Len(s) + j
        PROVE  u[i][1] < n
    BY <1>1, <1>3, <2>2 DEF Under, Joined
  <2> QED
    BY <1>1, <2>1, <2>2 DEF Joined
<1> QED
  BY <1>2, <1>3 DEF u, Under

(* A concatenation precedes what both parts precede. *)
LEMMA ConcatBefore ==
  ASSUME NEW s \in Seq(RowSet), NEW t \in Seq(RowSet), NEW x \in Seq(RowSet)
  PROVE  /\ Before(x, s \o t) <=> Before(x, s) /\ Before(x, t)
         /\ Before(s \o t, x) <=> Before(s, x) /\ Before(t, x)
<1> DEFINE u == s \o t
<1>1. Joined(u, s, t)
  BY Joining
<1> HIDE DEF u
<1>2. /\ Before(x, u) => Before(x, s) /\ Before(x, t)
      /\ Before(u, x) => Before(s, x) /\ Before(t, x)
  BY <1>1 DEF Before, Joined
<1>3. ASSUME Before(x, s), Before(x, t), NEW k \in 1 .. Len(x), NEW i \in 1 .. Len(u)
      PROVE  x[k][1] < u[i][1]
  <2>1. CASE i \in 1 .. Len(s)
    BY <1>1, <1>3, <2>1 DEF Before, Joined
  <2>2. ASSUME NEW j \in 1 .. Len(t), i = Len(s) + j
        PROVE  x[k][1] < u[i][1]
    BY <1>1, <1>3, <2>2 DEF Before, Joined
  <2> QED
    BY <1>1, <2>1, <2>2 DEF Joined
<1>4. ASSUME Before(s, x), Before(t, x), NEW k \in 1 .. Len(x), NEW i \in 1 .. Len(u)
      PROVE  u[i][1] < x[k][1]
  <2>1. CASE i \in 1 .. Len(s)
    BY <1>1, <1>4, <2>1 DEF Before, Joined
  <2>2. ASSUME NEW j \in 1 .. Len(t), i = Len(s) + j
        PROVE  u[i][1] < x[k][1]
    BY <1>1, <1>4, <2>2 DEF Before, Joined
  <2> QED
    BY <1>1, <2>1, <2>2 DEF Joined
<1>5. Before(x, s) /\ Before(x, t) => Before(x, u)
  BY <1>3 DEF Before
<1>6. Before(s, x) /\ Before(t, x) => Before(u, x)
  BY <1>4 DEF Before
<1> QED
  BY <1>2, <1>5, <1>6 DEF u

(* A concatenation ascends if its parts do and the first precedes the      *)
(* second.                                                                 *)
LEMMA ConcatAscending ==
  ASSUME NEW s \in Seq(RowSet), NEW t \in Seq(RowSet)
  PROVE  Ascending(s \o t) <=> Ascending(s) /\ Ascending(t) /\ Before(s, t)
<1> DEFINE u == s \o t
<1>1. Joined(u, s, t)
  BY Joining
<1> HIDE DEF u
<1>2. Len(s) \in Nat
  OBVIOUS
<1>3. ASSUME Ascending(u)
      PROVE  Ascending(s) /\ Ascending(t) /\ Before(s, t)
  <2>1. Ascending(s)
    BY <1>1, <1>3 DEF Ascending, Joined
  <2>2. Ascending(t)
    <3>1. \A i, j \in 1 .. Len(t) : i < j => Len(s) + i < Len(s) + j
      BY <1>2
    <3> QED
      BY <1>1, <1>3, <3>1 DEF Ascending, Joined
  <2>3. Before(s, t)
    <3>1. \A i \in 1 .. Len(s), j \in 1 .. Len(t) : i < Len(s) + j
      BY <1>2
    <3> QED
      BY <1>1, <1>3, <3>1 DEF Ascending, Before, Joined
  <2> QED
    BY <2>1, <2>2, <2>3
<1>4. ASSUME Ascending(s), Ascending(t), Before(s, t),
             NEW i \in 1 .. Len(u), NEW j \in 1 .. Len(u), i < j
      PROVE  u[i][1] < u[j][1]
  <2>1. CASE i \in 1 .. Len(s) /\ j \in 1 .. Len(s)
    BY <1>1, <1>4, <2>1 DEF Ascending, Joined
  <2>2. ASSUME i \in 1 .. Len(s), NEW l \in 1 .. Len(t), j = Len(s) + l
        PROVE  u[i][1] < u[j][1]
    BY <1>1, <1>4, <2>2 DEF Before, Joined
  <2>3. ASSUME NEW k \in 1 .. Len(t), i = Len(s) + k
        PROVE  u[i][1] < u[j][1]
    <3>1. j \notin 1 .. Len(s)
      BY <1>2, <1>4, <2>3
    <3>2. PICK l \in 1 .. Len(t) : j = Len(s) + l
      BY <1>1, <3>1 DEF Joined
    <3>3. k < l
      BY <1>2, <1>4, <2>3, <3>2
    <3>4. t[k][1] < t[l][1]
      BY <1>4, <3>3 DEF Ascending
    <3> QED
      BY <1>1, <2>3, <3>2, <3>4 DEF Joined
  <2> QED
    BY <1>1, <2>1, <2>2, <2>3 DEF Joined
<1>5. Ascending(s) /\ Ascending(t) /\ Before(s, t) => Ascending(u)
  BY <1>4 DEF Ascending
<1> QED
  BY <1>3, <1>5 DEF u

(* One row more, and a stretch of rows less. *)
LEMMA AppendAscending ==
  ASSUME NEW s \in Seq(RowSet), NEW row \in RowSet, Ascending(s), Under(s, row[1])
  PROVE  Ascending(Append(s, row))
<1>1. <<row>> \in Seq(RowSet) /\ Append(s, row) = s \o <<row>>
  BY AppendIsConcat
<1>2. Ascending(<<row>>)
  BY DEF Ascending
<1>3. Before(s, <<row>>)
  BY DEF Before, Under
<1> QED
  BY <1>1, <1>2, <1>3, ConcatAscending

(* A bound of the rows and of one more. *)
LEMMA AppendUnder ==
  ASSUME NEW s \in Seq(RowSet), NEW row \in RowSet, NEW n, Under(s, n), row[1] < n
  PROVE  Under(Append(s, row), n)
<1>1. <<row>> \in Seq(RowSet) /\ Append(s, row) = s \o <<row>>
  BY AppendIsConcat
<1>2. Under(<<row>>, n)
  BY DEF Under
<1> QED
  BY <1>1, <1>2, ConcatUnder

(* Rows in order stay so when a stretch is cut out. *)
LEMMA CutOut ==
  ASSUME NEW s \in Seq(RowSet), NEW p \in Seq(RowSet), NEW t \in Seq(RowSet),
         NEW m \in Seq(RowSet)
  PROVE  /\ Ascending((s \o (p \o t)) \o m) => Ascending((s \o t) \o m)
         /\ \A n : Under((s \o (p \o t)) \o m, n) => Under((s \o t) \o m, n)
<1>1. p \o t \in Seq(RowSet) /\ s \o t \in Seq(RowSet) /\ s \o (p \o t) \in Seq(RowSet)
  BY ConcatProperties
<1>2. ASSUME Ascending((s \o (p \o t)) \o m)
      PROVE  Ascending((s \o t) \o m)
  <2>1. Ascending(s \o (p \o t)) /\ Ascending(m) /\ Before(s \o (p \o t), m)
    BY <1>1, <1>2, ConcatAscending
  <2>2. Ascending(s) /\ Ascending(p \o t) /\ Before(s, p \o t)
    BY <1>1, <2>1, ConcatAscending
  <2>3. Before(s, m) /\ Before(p \o t, m)
    BY <1>1, <2>1, ConcatBefore
  <2>4. Ascending(t) /\ Before(s, t) /\ Before(t, m)
    BY <2>2, <2>3, ConcatAscending, ConcatBefore
  <2>5. Ascending(s \o t) /\ Before(s \o t, m)
    BY <2>2, <2>3, <2>4, ConcatAscending, ConcatBefore
  <2> QED
    BY <1>1, <2>1, <2>5, ConcatAscending
<1>3. ASSUME NEW n, Under((s \o (p \o t)) \o m, n)
      PROVE  Under((s \o t) \o m, n)
  <2>1. Under(s \o (p \o t), n) /\ Under(m, n)
    BY <1>1, <1>3, ConcatUnder
  <2>2. Under(s, n) /\ Under(p \o t, n)
    BY <1>1, <2>1, ConcatUnder
  <2>3. Under(t, n)
    BY <2>2, ConcatUnder
  <2>4. Under(s \o t, n)
    BY <2>2, <2>3, ConcatUnder
  <2> QED
    BY <1>1, <2>1, <2>4, ConcatUnder
<1> QED
  BY <1>2, <1>3
-----------------------------------------------------------------------------
(* A request whose row may still be written: the next one to be formed,    *)
(* one in the pipe, the one whose put the worker is in.                    *)
Coming(n) ==
  \/ n = requests + 1
  \/ \E i \in 1 .. Len(enginePipe[0]) : n = enginePipe[0][i].id
  \/ put[0] # None /\ n = put[0].request.id

(* Requests arrive in the order of their ids.                              *)
Numbered ==
  /\ \A i, j \in 1 .. Len(enginePipe[0]) : i < j => enginePipe[0][i].id < enginePipe[0][j].id
  /\ \A i \in 1 .. Len(enginePipe[0]) : enginePipe[0][i].id <= requests
  /\ put[0] # None =>
       /\ put[0].request.id <= requests
       /\ \A i \in 1 .. Len(enginePipe[0]) : put[0].request.id < enginePipe[0][i].id

(* The rows of a log are in order, and before every row still to come.     *)
InOrder(r) == /\ Ascending(Log(0, r))
              /\ \A n : Coming(n) => Under(Log(0, r), n)

OrderInv == RegionInv /\ RingInv /\ Numbered /\ \A r \in Regions : InOrder(r)

(* A request has the id it was formed with. *)
LEMMA RequestId ==
  /\ \A id : \A q \in RequestsWith(id) : q.id = id
  /\ \A q \in Requested : q.id \in Ids /\ q.id \in Nat
<1>1. \A id : \A q \in RequestsWith(id) : q.id = id
  BY DEF RequestsWith, Write, Admin
<1>2. \A q \in Requested : q.id \in Ids
  BY <1>1 DEF Requested
<1>3. \A id \in Ids : id \in Nat
  BY WorkerAssumption DEF Ids
<1> QED
  BY <1>1, <1>2, <1>3

(* A row has the id of its request. *)
LEMMA RowId ==
  /\ \A row \in RowSet : row[1] \in Nat
  /\ \A id, t : Row(id, t)[1] = id
BY WorkerAssumption DEF RowSet, Row, Ids

(* What comes next comes no earlier than something that came before.       *)
Later == \A n : Coming(n)' => \E m \in Nat : Coming(m) /\ m <= n /\ n \in Nat

(* And it comes after request q. *)
After(q) == \A n : Coming(n)' => Coming(n) /\ q.id < n

(* A bound may be raised. *)
LEMMA UnderLater ==
  ASSUME NEW s \in Seq(RowSet), NEW m \in Nat, NEW n \in Nat, Under(s, m), m <= n
  PROVE  Under(s, n)
<1>1. \A i \in 1 .. Len(s) : s[i][1] \in Nat
  BY RowId
<1> QED
  BY <1>1 DEF Under

(* What RegionInv says of the requests. *)
LEMMA Requesting ==
  ASSUME WorkerCount = 1, RegionInv
  PROVE  /\ requests \in Nat /\ Len(enginePipe[0]) \in Nat
         /\ \A i \in 1 .. Len(enginePipe[0]) : enginePipe[0][i] \in Requested
         /\ put[0] # None => put[0].request \in Requested
<1>1. 0 \in Workers /\ Arriving
  BY OneOnly DEF RegionInv
<1>2. enginePipe[0] \in Seq(Requested) /\ requests \in Nat
  BY <1>1, WorkerAssumption DEF Arriving
<1>3. put[0] # None => put[0].request \in Requested
  BY RingTypes DEF Puts
<1> QED
  BY <1>2, <1>3

(* What comes next is a number. *)
LEMMA ComingId ==
  ASSUME WorkerCount = 1, RegionInv, NEW n, Coming(n)
  PROVE  n \in Nat
BY Requesting, RequestId DEF Coming

(* Logs that stay as they are stay in order. *)
LEMMA OrderKept ==
  ASSUME WorkerCount = 1, RegionInv, RingInv, NEW r \in Regions, InOrder(r),
         Log(0, r)' = Log(0, r), Later
  PROVE  InOrder(r)'
<1> DEFINE L == Log(0, r)
<1>1. L \in Seq(RowSet)
  BY LogParts, ConcatProperties
<1>2. ASSUME NEW n, Coming(n)'
      PROVE  Under(L, n)
  <2>1. PICK m \in Nat : Coming(m) /\ m <= n /\ n \in Nat
    BY <1>2 DEF Later
  <2>2. Under(L, m)
    BY <2>1 DEF InOrder
  <2> HIDE DEF L
  <2> QED
    BY <1>1, <2>1, <2>2, UnderLater
<1>3. Ascending(L)
  BY DEF InOrder
<1>4. Ascending(L)' /\ \A n : Coming(n)' => Under(L, n)'
  BY <1>2, <1>3 DEF Ascending, Under
<1> QED
  BY <1>4 DEF InOrder

(* A log that grows by the row of a request that came. *)
LEMMA OrderGrows ==
  ASSUME WorkerCount = 1, RegionInv, RingInv, NEW r \in Regions, InOrder(r),
         NEW q \in Requested, Coming(q.id), After(q), NEW t \in Times,
         Log(0, r)' = Append(Log(0, r), Row(q.id, t))
  PROVE  InOrder(r)'
<1> DEFINE L == Log(0, r)
           row == Row(q.id, t)
<1>1. L \in Seq(RowSet)
  BY LogParts, ConcatProperties
<1>2. row \in RowSet /\ row[1] = q.id
  BY RequestId, RowId DEF RowSet
<1>3. Ascending(L) /\ Under(L, row[1])
  BY <1>2 DEF InOrder
<1>4. ASSUME NEW n, Coming(n)'
      PROVE  Under(L, n) /\ row[1] < n
  BY <1>2, <1>4 DEF After, InOrder
<1> HIDE DEF L, row
<1>5. Ascending(Append(L, row))
  BY <1>1, <1>2, <1>3, AppendAscending
<1>6. \A n : Coming(n)' => Under(Append(L, row), n)
  BY <1>1, <1>2, <1>4, AppendUnder
<1>7. L' = Append(L, row)
  BY DEF L, row
<1>8. Ascending(L)' /\ \A n : Coming(n)' => Under(L, n)'
  BY <1>5, <1>6, <1>7 DEF Ascending, Under
<1> QED
  BY <1>8 DEF InOrder, L
-----------------------------------------------------------------------------
(* What the steps do to the requests. *)
LEMMA NumberedTaken ==
  ASSUME WorkerCount = 1, RegionInv, Numbered, NEW q, Take(0), enginePipe[0] # << >>,
         q = Head(enginePipe[0]), put'[0] # None => put'[0].request = q
  PROVE  /\ Numbered' /\ Coming(q.id) /\ Later
         /\ put'[0] = None => After(q)
<1> DEFINE s == enginePipe[0]
           t == enginePipe'[0]
<1>1. /\ put[0] = None /\ q \in Requested /\ requests' = requests
      /\ s[1] = q /\ 1 \in 1 .. Len(s) /\ Len(s) \in Nat /\ Len(t) = Len(s) - 1
      /\ \A i \in 1 .. Len(t) : t[i] = s[i + 1] /\ i + 1 \in 1 .. Len(s)
  BY PipeTaken
<1>2. /\ requests \in Nat /\ q.id \in Nat
      /\ \A i \in 1 .. Len(s) : s[i].id \in Nat
  BY <1>1, Requesting, RequestId
<1>3. /\ \A i, j \in 1 .. Len(s) : i < j => s[i].id < s[j].id
      /\ \A i \in 1 .. Len(s) : s[i].id <= requests
  BY DEF Numbered
<1>4. \A n : Coming(n) <=> n = requests + 1 \/ \E i \in 1 .. Len(s) : n = s[i].id
  BY <1>1 DEF Coming
<1>5. \A n : Coming(n)' <=> \/ n = requests + 1 \/ \E i \in 1 .. Len(t) : n = t[i].id
                            \/ put'[0] # None /\ n = q.id
  BY <1>1 DEF Coming
<1>6. Numbered' <=> /\ \A i, j \in 1 .. Len(t) : i < j => t[i].id < t[j].id
                    /\ \A i \in 1 .. Len(t) : t[i].id <= requests
                    /\ put'[0] # None =>
                         q.id <= requests /\ \A i \in 1 .. Len(t) : q.id < t[i].id
  BY <1>1 DEF Numbered
<1> HIDE DEF s, t
<1>7. \A i \in 1 .. Len(t) : /\ q.id < t[i].id /\ t[i].id <= requests
                             /\ t[i].id \in Nat
                             /\ \E j \in 1 .. Len(s) : t[i].id = s[j].id
  <2> TAKE i \in 1 .. Len(t)
  <2>1. i + 1 \in 1 .. Len(s) /\ t[i] = s[i + 1] /\ 1 < i + 1
    BY <1>1
  <2>2. s[1].id < s[i + 1].id
    BY <1>1, <1>3, <2>1
  <2> QED
    BY <1>1, <1>2, <1>3, <2>1, <2>2
<1>8. \A i, j \in 1 .. Len(t) : i < j => t[i].id < t[j].id
  <2> TAKE i, j \in 1 .. Len(t)
  <2> HAVE i < j
  <2>1. /\ i + 1 \in 1 .. Len(s) /\ j + 1 \in 1 .. Len(s) /\ i + 1 < j + 1
        /\ t[i] = s[i + 1] /\ t[j] = s[j + 1]
    BY <1>1
  <2> QED
    BY <1>3, <2>1
<1>9. q.id <= requests /\ \E i \in 1 .. Len(s) : q.id = s[i].id
  BY <1>1, <1>3
<1>10. Numbered'
  BY <1>6, <1>7, <1>8, <1>9
<1>11. \A n : Coming(n)' => Coming(n) /\ n \in Nat /\ n <= n
  <2>1. \A n : Coming(n)' => Coming(n)
    BY <1>4, <1>5, <1>7, <1>9
  <2>2. \A n : n \in Nat => n <= n
    OBVIOUS
  <2> QED
    BY <2>1, <2>2, ComingId
<1>12. put'[0] = None => After(q)
  <2>1. \A n : n = requests + 1 => q.id < n
    BY <1>2, <1>9
  <2> QED
    BY <1>5, <1>7, <1>11, <2>1 DEF After
<1> QED
  BY <1>4, <1>9, <1>10, <1>11, <1>12 DEF Later

(* A step that touches neither pipe nor the request of the put.            *)
LEMMA NumberedKept ==
  ASSUME WorkerCount = 1, RegionInv, Numbered, UNCHANGED <<requests, enginePipe>>,
         put'[0] # None => put[0] # None /\ put'[0].request = put[0].request
  PROVE  Numbered' /\ Later
<1>1. Numbered'
  BY DEF Numbered
<1>2. \A n : Coming(n)' => Coming(n) /\ n \in Nat /\ n <= n
  <2>1. \A n : Coming(n)' => Coming(n)
    BY DEF Coming
  <2>2. \A n : n \in Nat => n <= n
    OBVIOUS
  <2> QED
    BY <2>1, <2>2, ComingId
<1> QED
  BY <1>1, <1>2 DEF Later

(* The put returns: what comes next comes after its request.               *)
LEMMA NumberedReturned ==
  ASSUME WorkerCount = 1, RegionInv, Numbered, UNCHANGED <<requests, enginePipe>>,
         put[0] # None, put'[0] = None
  PROVE  Coming(put[0].request.id) /\ After(put[0].request)
<1>1. requests \in Nat /\ put[0].request.id \in Nat /\ put[0].request.id <= requests
  BY Requesting, RequestId DEF Numbered
<1>2. put[0].request.id < requests + 1
  BY <1>1
<1>3. \A i \in 1 .. Len(enginePipe[0]) : put[0].request.id < enginePipe[0][i].id
  BY DEF Numbered
<1> QED
  BY <1>2, <1>3 DEF Coming, After

(* The engine hands over the next request. *)
LEMMA NumberedFormed ==
  ASSUME WorkerCount = 1, RegionInv, Numbered, Engine
  PROVE  Numbered' /\ Later
<1> PICK q \in NextRequests : Dispatch(q) /\ requests' = requests + 1
                              /\ requests < MaxRequests /\ UNCHANGED put
  BY DEF Engine
<1> DEFINE s == enginePipe[0]
           t == enginePipe'[0]
<1>1. /\ requests \in Nat /\ Len(s) \in Nat /\ s \in Seq(Requested)
      /\ \A i \in 1 .. Len(s) : s[i].id \in Nat
      /\ put[0] # None => put[0].request.id \in Nat
  <2>1. s \in Seq(Requested)
    BY OneOnly DEF RegionInv, Arriving
  <2> QED
    BY <2>1, Requesting, RequestId
<1>2. q.id = requests + 1 /\ q \in Requested
  <2>1. requests + 1 \in Ids
    BY <1>1, WorkerAssumption DEF Ids
  <2> QED
    BY <2>1, RequestId DEF NextRequests, Requested
<1>3. t = Append(s, q)
  <2>1. WorkerOf(q.region) = 0
    BY <1>2, RequestedShape, OneOnly
  <2> QED
    BY <2>1, OneOnly DEF Dispatch, RegionInv, Arriving
<1> PICK a \in Nat : a = Len(s)
  BY <1>1
<1>4. Len(t) = a + 1 /\ t[a + 1] = q /\ \A i \in 1 .. a : t[i] = s[i]
  <2> HIDE DEF s
  <2> QED
    BY <1>1, <1>2, <1>3
<1>5. /\ \A i, j \in 1 .. a : i < j => s[i].id < s[j].id
      /\ \A i \in 1 .. a : s[i].id <= requests
      /\ put[0] # None => /\ put[0].request.id <= requests
                          /\ \A i \in 1 .. a : put[0].request.id < s[i].id
  BY DEF Numbered
<1>6. \A n : Coming(n) <=> \/ n = requests + 1 \/ \E i \in 1 .. a : n = s[i].id
                           \/ put[0] # None /\ n = put[0].request.id
  BY DEF Coming
<1>7. \A n : Coming(n)' <=> \/ n = requests + 2 \/ \E i \in 1 .. a + 1 : n = t[i].id
                            \/ put[0] # None /\ n = put[0].request.id
  <2>1. requests' + 1 = requests + 2
    BY <1>1
  <2> QED
    BY <1>4, <2>1 DEF Coming
<1>8. Numbered' <=> /\ \A i, j \in 1 .. a + 1 : i < j => t[i].id < t[j].id
                    /\ \A i \in 1 .. a + 1 : t[i].id <= requests + 1
                    /\ put[0] # None => /\ put[0].request.id <= requests + 1
                                        /\ \A i \in 1 .. a + 1 : put[0].request.id < t[i].id
  BY <1>4 DEF Numbered
<1> HIDE DEF s, t
<1>9. \A i \in 1 .. a + 1 : \/ i \in 1 .. a /\ t[i].id = s[i].id
                            \/ i = a + 1 /\ t[i].id = requests + 1
  BY <1>2, <1>4
<1>10. \A i, j \in 1 .. a + 1 : i < j => t[i].id < t[j].id
  <2> TAKE i, j \in 1 .. a + 1
  <2> HAVE i < j
  <2>1. i \in 1 .. a /\ t[i].id = s[i].id
    BY <1>9
  <2>2. CASE j \in 1 .. a /\ t[j].id = s[j].id
    BY <1>5, <2>1, <2>2
  <2>3. CASE j = a + 1 /\ t[j].id = requests + 1
    <3>1. s[i].id <= requests /\ s[i].id \in Nat
      BY <1>1, <1>5, <2>1
    <3> QED
      BY <1>1, <2>1, <2>3, <3>1
  <2> QED
    BY <1>9, <2>2, <2>3
<1>11. \A i \in 1 .. a + 1 : t[i].id <= requests + 1
  <2> TAKE i \in 1 .. a + 1
  <2>1. i \in 1 .. a => s[i].id \in Nat /\ s[i].id <= requests
    BY <1>1, <1>5
  <2> QED
    BY <1>1, <1>9, <2>1
<1>12. put[0] # None => /\ put[0].request.id <= requests + 1
                        /\ \A i \in 1 .. a + 1 : put[0].request.id < t[i].id
  <2> HAVE put[0] # None
  <2>1. put[0].request.id \in Nat /\ put[0].request.id <= requests
    BY <1>1, <1>5
  <2>2. put[0].request.id < requests + 1 /\ put[0].request.id <= requests + 1
    BY <1>1, <2>1
  <2> QED
    BY <1>5, <1>9, <2>2
<1>13. Numbered'
  BY <1>8, <1>10, <1>11, <1>12
<1>14. Later
  <2> SUFFICES ASSUME NEW n, Coming(n)'
               PROVE  \E m \in Nat : Coming(m) /\ m <= n /\ n \in Nat
    BY DEF Later
  <2>1. CASE n = requests + 2
    <3>1. requests + 1 \in Nat /\ requests + 1 <= n /\ n \in Nat
      BY <1>1, <2>1
    <3> QED
      BY <1>6, <3>1
  <2>2. CASE Coming(n)
    <3>1. n \in Nat /\ n <= n
      BY <2>2, ComingId
    <3> QED
      BY <2>2, <3>1
  <2>3. n = requests + 2 \/ Coming(n)
    BY <1>6, <1>7, <1>9
  <2> QED
    BY <2>1, <2>2, <2>3
<1> QED
  BY <1>13, <1>14
-----------------------------------------------------------------------------
(* Logs the step leaves as they are, what comes next being later.          *)
LEMMA AllKept ==
  ASSUME WorkerCount = 1, OrderInv, Later, \A r \in Regions : Log(0, r)' = Log(0, r)
  PROVE  \A r \in Regions : InOrder(r)'
BY OrderKept DEF OrderInv

(* A step that moves no row keeps the logs. *)
LEMMA SameRows ==
  ASSUME WorkerCount = 1, OrderInv, Kept, UNCHANGED files,
         \A r \in Regions : MemRows(0, r)' = MemRows(0, r)
  PROVE  \A r \in Regions : Log(0, r)' = Log(0, r)
BY FrozenKept, LogKept

(* A row is written: by handleWrite at once, or after its put.             *)
LEMMA OrderWrites ==
  ASSUME WorkerCount = 1, OrderInv, NEW q \in Requested, q.kind = "WRITE",
         Open(0, q.region), WriteRow(0, q), UNCHANGED <<closedRegions, dropingRegions, files>>,
         Kept, Coming(q.id), After(q), Later
  PROVE  \A x \in Regions : InOrder(x)'
<1> DEFINE r == q.region
           row == Row(q.id, q.ts)
<1>1. /\ \A x \in Regions : x # r => View(x)' = View(x)
      /\ row \in RowSet
      /\ MemRows(0, r)' = Append(MemRows(0, r), row)
  BY WriteRowEffect DEF OrderInv
<1>2. r \in Regions /\ q.ts \in Times
  BY RequestedShape
<1>3. \A x \in Regions : Frozen(0, x)' = Frozen(0, x)
  BY FrozenKept
<1> HIDE DEF r, row
<1>4. Log(0, r)' = Append(Log(0, r), row)
  BY <1>1, <1>2, <1>3, LogGrows DEF OrderInv
<1>5. InOrder(r)'
  BY <1>2, <1>4, OrderGrows DEF OrderInv, row
<1>6. ASSUME NEW x \in Regions, x # r
      PROVE  InOrder(x)'
  <2>1. Log(0, x)' = Log(0, x)
    BY <1>1, <1>3, <1>6, SameView, LogKept
  <2> QED
    BY <2>1, OrderKept DEF OrderInv
<1> QED
  BY <1>5, <1>6

(* The steps of the worker that write no row.                              *)
LEMMA OrderStill ==
  ASSUME WorkerCount = 1, OrderInv, NEW q, q = Head(enginePipe[0]), enginePipe[0] # << >>,
         Create(0, q) \/ OpenRegion(0, q) \/ CloseEmpty(0, q) \/ Drop(0, q) \/ Ignore(0, q)
  PROVE  RingInv' /\ Numbered' /\ \A r \in Regions : InOrder(r)'
<1>1. /\ Take(0) /\ UNCHANGED <<put, flusherPipe, flushing>> /\ UNCHANGED files
      /\ RegionInv /\ RingInv /\ Numbered
  BY DEF Create, OpenRegion, CloseEmpty, Drop, Ignore, disk, OrderInv
<1>2. RingInv' /\ Kept
  BY <1>1, RingUntouched
<1>3. put[0] = None /\ q \in Requested
  BY <1>1, PipeTaken
<1>4. Numbered' /\ Later
  BY <1>1, <1>3, NumberedTaken
<1>5. \A r \in Regions : MemRows(0, r)' = MemRows(0, r)
  <2>1. CASE UNCHANGED regions
    BY <2>1 DEF MemRows, Open
  <2>2. CASE OpenRegion(0, q)
    <3>1. /\ \A x \in Regions : x # q.region => View(x)' = View(x)
          /\ MemRows(0, q.region)' = MemRows(0, q.region)
      BY <1>1, <1>3, <2>2, OpenEffect
    <3> QED
      BY <3>1, SameView
  <2>3. CASE CloseEmpty(0, q)
    <3>1. /\ Open(0, q.region) /\ regions[0][q.region].mem.rows = << >>
          /\ MoveToClosed(0, q.region) /\ UNCHANGED dropingRegions /\ q.region \in Regions
      BY <1>3, <2>3, RequestedShape DEF CloseEmpty, CanClose, HasRows
    <3>2. /\ \A x \in Regions : x # q.region => View(x)' = View(x)
          /\ MemRows(0, q.region)' = MemRows(0, q.region)
      BY <1>1, <3>1, CloseEffect
    <3> QED
      BY <3>2, SameView
  <2> QED
    BY <2>1, <2>2, <2>3 DEF Create, Drop, Ignore, contexts
<1> QED
  BY <1>1, <1>2, <1>4, <1>5, SameRows, AllKept

(* handleWrite with room: the row is the last of its log. *)
LEMMA OrderHandled ==
  ASSUME WorkerCount = 1, OrderInv, NEW q, q = Head(enginePipe[0]), enginePipe[0] # << >>,
         HandleWrite(0, q)
  PROVE  RingInv' /\ Numbered' /\ \A r \in Regions : InOrder(r)'
<1>1. /\ Take(0) /\ UNCHANGED <<put, flusherPipe, flushing>>
      /\ UNCHANGED <<closedRegions, dropingRegions, files>>
      /\ q.kind = "WRITE" /\ Open(0, q.region) /\ WriteRow(0, q)
      /\ RegionInv /\ RingInv /\ Numbered
  BY DEF HandleWrite, disk, OrderInv
<1>2. RingInv' /\ Kept
  BY <1>1, RingUntouched
<1>3. put[0] = None /\ put'[0] = None /\ q \in Requested
  BY <1>1, PipeTaken
<1>4. Numbered' /\ Coming(q.id) /\ Later /\ After(q)
  BY <1>1, <1>3, NumberedTaken
<1> QED
  BY <1>1, <1>2, <1>3, <1>4, OrderWrites

(* A memtable handed over: its rows keep their place, the request keeps    *)
(* its turn.                                                               *)
LEMMA OrderSends ==
  ASSUME WorkerCount = 1, OrderInv, NEW q, q = Head(enginePipe[0]), enginePipe[0] # << >>,
         HandleWriteFull(0, q) \/ CloseFull(0, q)
  PROVE  RingInv' /\ Numbered' /\ \A r \in Regions : InOrder(r)'
<1> DEFINE r == q.region
           s == Signal(r, regions[0][r])
<1>1. Take(0) /\ RegionInv /\ RingInv /\ Numbered
  BY DEF OrderInv, HandleWriteFull, CloseFull
<1>2. q \in Requested /\ put[0] = None
  BY <1>1, PipeTaken
<1>3. r \in Regions
  BY <1>2, RequestedShape
<1>4. /\ Open(0, r) /\ SendFlushSignal(0, q)
      /\ UNCHANGED <<flusherPipe, flushing>> /\ UNCHANGED files
  BY DEF HandleWriteFull, CloseFull, CanClose, disk
<1>5. /\ RingInv' /\ Added(s) /\ s \in Signals
      /\ s.region = r /\ s.rows = MemRows(0, r)
      /\ \A x \in Regions : x # r => View(x)' = View(x)
      /\ MemRows(0, r)' = << >> /\ put'[0] # None /\ put'[0].request = q
  BY <1>1, <1>2, <1>4, SendEffect
<1> HIDE DEF r, s
<1>6. \A x \in Regions : Log(0, x)' = Log(0, x)
  BY <1>1, <1>3, <1>4, <1>5, LogFrozen
<1>7. Numbered' /\ Later
  BY <1>1, <1>5, NumberedTaken
<1> QED
  BY <1>5, <1>6, <1>7, AllKept

(* The put: when it returns, the row that waited is written, before all    *)
(* that come.                                                              *)
LEMMA OrderPuts ==
  ASSUME WorkerCount = 1, OrderInv, PutStore(0) \/ PutReturn(0)
  PROVE  RingInv' /\ Numbered' /\ \A r \in Regions : InOrder(r)'
<1>1. RegionInv /\ RingInv /\ Numbered
  BY DEF OrderInv
<1>2. UNCHANGED <<requests, enginePipe>> /\ UNCHANGED files
  BY DEF PutStore, PutReturn, disk
<1>3. CASE PutStore(0)
  <2>1. RingInv' /\ Kept
    BY <1>1, <1>3, PutStores
  <2>2. put[0] # None /\ put'[0].request = put[0].request
    <3>1. put[0] # None /\ put' = [put EXCEPT ![0].stored = TRUE]
      BY <1>3 DEF PutStore
    <3>2. put[0] \in Puts /\ DOMAIN put = {0}
      BY <1>1, <3>1, RingTypes
    <3>3. put'[0] = [put[0] EXCEPT !.stored = TRUE]
      BY <3>1, <3>2
    <3> QED
      BY <3>1, <3>2, <3>3 DEF Puts
  <2>3. \A r \in Regions : MemRows(0, r)' = MemRows(0, r)
    BY <1>3 DEF PutStore, MemRows, Open, contexts
  <2> QED
    BY <1>1, <1>2, <2>1, <2>2, <2>3, NumberedKept, SameRows, AllKept
<1>4. CASE PutReturn(0)
  <2> PICK q, r : q = put[0].request /\ r = q.region
    OBVIOUS
  <2>1. RingInv' /\ Kept
    BY <1>1, <1>4, PutReturns
  <2>2. put[0] # None /\ UNCHANGED dropingRegions /\ put'[0] = None
    BY <1>1, <1>4, RingTypes DEF PutReturn
  <2>3. /\ q \in Requested /\ Open(0, r) /\ regions[0][r].mem.rows = << >> /\ r \in Regions
    <3>1. Held(0)
      BY <1>1, OneOnly DEF RegionInv
    <3>2. q \in Requested /\ Open(0, r) /\ regions[0][r].mem = NewMemtable
      BY <2>2, <3>1 DEF Held, Waiting, Puts
    <3> QED
      BY <3>2, RequestedShape DEF NewMemtable
  <2>4. \/ q.kind = "WRITE" /\ WriteRow(0, q) /\ UNCHANGED closedRegions
        \/ MoveToClosed(0, r)
    BY <1>4 DEF PutReturn
  <2>5. Numbered' /\ Later /\ Coming(q.id) /\ After(q)
    BY <1>1, <1>2, <2>2, NumberedKept, NumberedReturned
  <2>6. CASE q.kind = "WRITE" /\ WriteRow(0, q) /\ UNCHANGED closedRegions
    BY <1>2, <2>1, <2>2, <2>3, <2>5, <2>6, OrderWrites
  <2>7. CASE MoveToClosed(0, r)
    <3>1. /\ \A x \in Regions : x # r => View(x)' = View(x)
          /\ MemRows(0, r)' = MemRows(0, r)
      BY <1>1, <2>2, <2>3, <2>7, CloseEffect
    <3>2. \A x \in Regions : MemRows(0, x)' = MemRows(0, x)
      BY <3>1, SameView
    <3> QED
      BY <1>2, <2>1, <2>5, <3>2, SameRows, AllKept
  <2> QED
    BY <2>1, <2>4, <2>5, <2>6, <2>7
<1> QED
  BY <1>3, <1>4
-----------------------------------------------------------------------------
(* The flusher that fails takes a stretch of rows out of the log.          *)
LEMMA OrderFails ==
  ASSUME WorkerCount = 1, OrderInv, FlushFails
  PROVE  RingInv' /\ Numbered' /\ \A r \in Regions : InOrder(r)'
<1>1. /\ RegionInv /\ RingInv /\ Numbered
      /\ flushing # None /\ flushing' = None /\ UNCHANGED <<put, flusherPipe>>
      /\ UNCHANGED <<requests, enginePipe>> /\ UNCHANGED <<regions, files>>
  BY DEF OrderInv, FlushFails, contexts
<1>2. RingInv' /\ Removed /\ InFlight(0)' \in Seq(Signals) /\ flushing \in Signals
  BY <1>1, FlusherDone, RingTypes
<1>3. Numbered' /\ Later
  BY <1>1, NumberedKept
<1>4. ASSUME NEW r \in Regions
      PROVE  InOrder(r)'
  <2> DEFINE S == SignalsOf(r)
             t == InFlight(0)'
             A == RowsOf(files[r])
             P == Piece(flushing, S)
             C == RowsIn(t, S)
             M == MemRows(0, r)
  <2>1. RowsIn(InFlight(0), S) = P \o C
    BY <1>2, RemovedRows
  <2>2. A \in Seq(RowSet) /\ M \in Seq(RowSet) /\ Log(0, r) = (A \o (P \o C)) \o M
    BY <1>1, <2>1, LogParts DEF Frozen
  <2>3. P \in Seq(RowSet)
    BY <1>2, RowsOfData, PieceType
  <2>4. C \in Seq(RowSet)
    <3>1. t \in Seq(Signals)
      BY <1>2
    <3> HIDE DEF t
    <3> QED
      BY <3>1, RowsInType, RowsOfData
  <2>5. Log(0, r)' = (A \o C) \o M
    <3>1. MemRows(0, r)' = M
      BY <1>1 DEF MemRows, Open
    <3>2. Frozen(0, r)' = C
      BY FrozenNext
    <3> QED
      BY <1>1, <3>1, <3>2 DEF Log
  <2>6. Ascending(Log(0, r)) /\ \A n : Coming(n) => Under(Log(0, r), n)
    BY <1>4 DEF OrderInv, InOrder
  <2> HIDE DEF A, P, C, M
  <2>7. /\ Ascending((A \o C) \o M)
        /\ \A n : Coming(n) => Under((A \o C) \o M, n)
        /\ (A \o C) \o M \in Seq(RowSet)
    <3>1. /\ Ascending((A \o (P \o C)) \o M)
          /\ \A n : Coming(n) => Under((A \o (P \o C)) \o M, n)
      BY <2>2, <2>6
    <3>2. /\ Ascending((A \o C) \o M)
          /\ \A n : Coming(n) => Under((A \o C) \o M, n)
      BY <2>2, <2>3, <2>4, <3>1, CutOut
    <3> QED
      BY <2>2, <2>4, <3>2, ConcatProperties
  <2> DEFINE L == (A \o C) \o M
  <2>8. \A n : Coming(n)' => Under(L, n)
    <3> HIDE DEF L
    <3> SUFFICES ASSUME NEW n, Coming(n)'
                 PROVE  Under(L, n)
      OBVIOUS
    <3>1. PICK m \in Nat : Coming(m) /\ m <= n /\ n \in Nat
      BY <1>3 DEF Later
    <3>2. L \in Seq(RowSet) /\ Under(L, m)
      BY <2>7, <3>1 DEF L
    <3> QED
      BY <3>1, <3>2, UnderLater
  <2>9. Log(0, r)' = L /\ Ascending(L)
    BY <2>5, <2>7
  <2> HIDE DEF L
  <2>10. Ascending(Log(0, r))' /\ \A n : Coming(n)' => Under(Log(0, r), n)'
    BY <2>8, <2>9 DEF Ascending, Under
  <2> QED
    BY <2>10 DEF InOrder
<1> QED
  BY <1>2, <1>3, <1>4

(* The flusher moves rows or loses them, and changes no order. *)
LEMMA OrderFlusher ==
  ASSUME WorkerCount = 1, OrderInv, Flusher
  PROVE  RingInv' /\ Numbered' /\ \A r \in Regions : InOrder(r)'
<1>1. /\ RegionInv /\ RingInv /\ Numbered
      /\ UNCHANGED <<requests, enginePipe>> /\ UNCHANGED contexts /\ UNCHANGED put
  BY DEF OrderInv, Flusher, GetFlush, HandleFlush, FlushFails
<1>2. Numbered' /\ Later
  BY <1>1, NumberedKept
<1>3. CASE GetFlush
  <2>1. RingInv' /\ Kept
    BY <1>1, <1>3, FlusherTakes
  <2>2. \A r \in Regions : MemRows(0, r)' = MemRows(0, r)
    BY <1>1, SameViews, SameView
  <2>3. UNCHANGED files
    BY <1>3 DEF GetFlush, disk
  <2> QED
    BY <1>2, <2>1, <2>2, <2>3, SameRows, AllKept
<1>4. CASE HandleFlush
  <2>1. RingInv' /\ \A r \in Regions : Log(0, r)' = Log(0, r)
    BY <1>1, <1>4, LogFlushed
  <2> QED
    BY <1>2, <2>1, AllKept
<1>5. CASE FlushFails
  BY <1>5, OrderFails
<1> QED
  BY <1>3, <1>4, <1>5 DEF Flusher

(* The engine forms a request with the next id. *)
LEMMA OrderEngine ==
  ASSUME WorkerCount = 1, OrderInv, Engine
  PROVE  RingInv' /\ Numbered' /\ \A r \in Regions : InOrder(r)'
<1>1. /\ RegionInv /\ RingInv /\ Numbered /\ UNCHANGED <<put, flusherPipe, flushing>>
      /\ UNCHANGED contexts /\ UNCHANGED files
  BY DEF OrderInv, Engine, disk
<1>2. RingInv' /\ Kept
  BY <1>1, RingUntouched
<1>3. Numbered' /\ Later
  BY <1>1, NumberedFormed
<1>4. \A r \in Regions : MemRows(0, r)' = MemRows(0, r)
  BY <1>1, SameViews, SameView
<1> QED
  BY <1>1, <1>2, <1>3, <1>4, SameRows, AllKept

(* Every step keeps the invariant. *)
LEMMA OrderStep ==
  ASSUME WorkerCount = 1, OrderInv, [Next]_vars
  PROVE  OrderInv'
<1>1. RegionInv'
  BY RegionStep DEF OrderInv
<1>2. CASE Engine
  BY <1>1, <1>2, OrderEngine DEF OrderInv
<1>3. CASE Flusher
  BY <1>1, <1>3, OrderFlusher DEF OrderInv
<1>4. CASE Handle(0)
  <2> DEFINE q == Head(enginePipe[0])
  <2>1. /\ enginePipe[0] # << >>
        /\ \/ HandleWrite(0, q) \/ HandleWriteFull(0, q) \/ Create(0, q)
           \/ OpenRegion(0, q) \/ CloseEmpty(0, q) \/ CloseFull(0, q)
           \/ Drop(0, q) \/ Ignore(0, q)
    BY <1>4 DEF Handle
  <2> HIDE DEF q
  <2>2. RingInv' /\ Numbered' /\ \A r \in Regions : InOrder(r)'
    BY <2>1, OrderHandled, OrderSends, OrderStill DEF q
  <2> QED
    BY <1>1, <2>2 DEF OrderInv
<1>5. CASE PutStore(0) \/ PutReturn(0)
  BY <1>1, <1>5, OrderPuts DEF OrderInv
<1>6. CASE UNCHANGED vars
  <2>1. /\ RegionInv /\ RingInv /\ Numbered /\ UNCHANGED <<put, flusherPipe, flushing>>
        /\ UNCHANGED contexts /\ UNCHANGED files /\ UNCHANGED <<requests, enginePipe>>
    BY <1>6 DEF OrderInv, vars, disk
  <2>2. RingInv' /\ Kept /\ Numbered' /\ Later
    BY <2>1, RingUntouched, NumberedKept
  <2>3. \A r \in Regions : MemRows(0, r)' = MemRows(0, r)
    BY <2>1, SameViews, SameView
  <2> QED
    BY <1>1, <2>1, <2>2, <2>3, SameRows, AllKept DEF OrderInv
<1> QED
  BY <1>2, <1>3, <1>4, <1>5, <1>6, OneOnly DEF Next, Worker

(* Initially there are no rows. *)
LEMMA OrderInit ==
  ASSUME WorkerCount = 1, Init
  PROVE  OrderInv
<1>1. RegionInv /\ RingInv
  BY RegionInit, RingInit
<1>2. Numbered
  <2>1. enginePipe[0] = << >> /\ put[0] = None
    BY OneOnly DEF Init
  <2> QED
    BY <2>1 DEF Numbered
<1>3. ASSUME NEW r \in Regions
      PROVE  Log(0, r) = << >>
  BY StoreInit, <1>3, OneOnly DEF Store!Init
<1>4. \A r \in Regions : InOrder(r)
  BY <1>3 DEF InOrder, Ascending, Under
<1> QED
  BY <1>1, <1>2, <1>4 DEF OrderInv

(* What is on disk has the order in which the rows were accepted, none of  *)
(* it twice (handleWrite, sendFlushSignal, Flusher::handleFlush), also     *)
(* when flushes fail and clients create regions again: a flush that fails  *)
(* takes a stretch of rows out of the log, and the row of a handler that   *)
(* waits in a put is written before those of all later requests.           *)
THEOREM DiskKeptInOrder ==
  ASSUME WorkerCount = 1
  PROVE  Spec => []DiskInOrder
<1>1. Init => OrderInv
  BY OrderInit
<1>2. OrderInv /\ [Next]_vars => OrderInv'
  BY OrderStep
<1>3. OrderInv => DiskInOrder
  <2> SUFFICES ASSUME OrderInv, NEW r \in Regions
               PROVE  /\ Ascending(RowsOf(files[r]))
                      /\ DOMAIN RowsOf(files[r]) = 1 .. Len(RowsOf(files[r]))
    BY DEF DiskInOrder, Ascending
  <2> DEFINE A == RowsOf(files[r])
             B == Frozen(0, r)
             M == MemRows(0, r)
  <2>1. /\ A \in Seq(RowSet) /\ B \in Seq(RowSet) /\ M \in Seq(RowSet)
        /\ Ascending((A \o B) \o M)
    BY LogParts DEF OrderInv, InOrder
  <2> HIDE DEF A, B, M
  <2>2. Ascending(A)
    BY <2>1, ConcatProperties, ConcatAscending
  <2>3. DOMAIN A = 1 .. Len(A)
    BY <2>1
  <2> QED
    BY <2>2, <2>3 DEF A
<1> QED
  BY <1>1, <1>2, <1>3, PTL DEF Spec
-----------------------------------------------------------------------------
(* The way of a signal to its worker *)

(* The signals between server and workers, in four stages of which the     *)
(* last is a pipe per worker.                                              *)
inHand == Optional(engineSignal)

Shape ==
  /\ requests \in Nat /\ unread \in Nat /\ requests + unread <= MaxRequests
  /\ regionEngineMap \subseteq Regions
  /\ batch \in Seq(Requested) /\ serverPipe \in Seq(Requested)
  /\ engineSignal \in Requested \cup {None}
  /\ enginePipe \in [Workers -> Seq(Requested)]
  /\ sent \in [Regions -> Seq(Nat)] /\ handled \in [Regions -> Seq(Nat)]

(* A signal is for a known region, in a worker's pipe for one of its own.  *)
Known(s) == \A i \in 1 .. Len(s) : s[i].region \in regionEngineMap

Placed ==
  /\ Known(batch) /\ Known(serverPipe) /\ Known(inHand)
  /\ \A w \in Workers : /\ Known(enginePipe[w])
                        /\ \A i \in 1 .. Len(enginePipe[w]) :
                             WorkerOf(enginePipe[w][i].region) = w

(* A worker has contexts of regions of its own alone, and nothing was ever *)
(* accepted for an unknown one.                                            *)
Owned ==
  /\ DOMAIN regions = Workers /\ DOMAIN closedRegions = Workers /\ DOMAIN put = Workers
  /\ \A w \in Workers : DOMAIN regions[w] = Regions /\ DOMAIN closedRegions[w] = Regions
  /\ DOMAIN accepted = Regions
  /\ \A w \in Workers, r \in Regions : Open(w, r) \/ Closed(w, r) =>
       WorkerOf(r) = w /\ r \in regionEngineMap
  /\ \A w \in Workers : put[w] # None =>
       /\ WorkerOf(put[w].request.region) = w
       /\ put[w].request.region \in regionEngineMap
  /\ \A r \in Regions \ regionEngineMap :
       accepted[r] = << >> /\ sent[r] = << >> /\ handled[r] = << >>

(* Ids rise along the way. *)
Rising(s) == \A i, j \in 1 .. Len(s) : i < j => s[i].id < s[j].id
Ahead(s, t) == \A i \in 1 .. Len(s), j \in 1 .. Len(t) : s[i].id < t[j].id

Ordered ==
  /\ Rising(batch) /\ Rising(serverPipe) /\ Rising(inHand)
  /\ Ahead(serverPipe, batch) /\ Ahead(inHand, serverPipe) /\ Ahead(inHand, batch)
  /\ \A w \in Workers :
       /\ Rising(enginePipe[w])
       /\ Ahead(enginePipe[w], inHand) /\ Ahead(enginePipe[w], serverPipe)
       /\ Ahead(enginePipe[w], batch)

(* What is on its way is what was sent and not handled yet.                *)
Pending(q) == \E j \in Len(handled[q.region]) + 1 .. Len(sent[q.region]) :
                sent[q.region][j] = q.id

AllPending(s) == \A i \in 1 .. Len(s) : Pending(s[i])

Has(s, r, id) == \E i \in 1 .. Len(s) : s[i].region = r /\ s[i].id = id

UnderWay(r, id) == \/ Has(batch, r, id) \/ Has(serverPipe, r, id) \/ Has(inHand, r, id)
                   \/ Has(enginePipe[WorkerOf(r)], r, id)

Sequenced(r) ==
  /\ \A i, j \in 1 .. Len(sent[r]) : i < j => sent[r][i] < sent[r][j]
  /\ \A i \in 1 .. Len(sent[r]) : sent[r][i] <= requests
  /\ Len(handled[r]) <= Len(sent[r])
  /\ \A i \in 1 .. Len(handled[r]) : handled[r][i] = sent[r][i]
  /\ \A j \in Len(handled[r]) + 1 .. Len(sent[r]) : UnderWay(r, sent[r][j])

Traced ==
  /\ AllPending(batch) /\ AllPending(serverPipe) /\ AllPending(inHand)
  /\ \A w \in Workers : AllPending(enginePipe[w])
  /\ \A r \in Regions : Sequenced(r)

NodeInv == Shape /\ Placed /\ Owned /\ Ordered /\ Traced

allVars == <<vars, nodeVars>>
-----------------------------------------------------------------------------
(* A request has its id and a region. *)
LEMMA RequestShape ==
  ASSUME NEW id \in 1 .. MaxRequests, NEW q \in RequestsWith(id)
  PROVE  /\ q \in Requested /\ q.id = id /\ q.region \in Regions /\ q # None
<1>1. q \in Requested
  BY DEF Requested, Ids
<1>2. q.id = id /\ q.region \in Regions
  BY DEF RequestsWith, Write, Admin
<1>3. q # None
  BY NoneAssumption
<1> QED
  BY <1>1, <1>2, <1>3

LEMMA RequestParts ==
  ASSUME NEW q \in Requested
  PROVE  /\ q.id \in Nat /\ q.id \in Ids /\ q.region \in Regions /\ q # None
<1>1. PICK id \in 1 .. MaxRequests : q \in RequestsWith(id)
  BY DEF Requested, Ids
<1>2. id \in Nat
  BY WorkerAssumption
<1> QED
  BY <1>1, <1>2, RequestShape DEF Ids

(* The worker of a region is a worker. *)
LEMMA WorkerOfRegion == \A r \in Regions : WorkerOf(r) \in Workers
BY WorkerAssumption DEF WorkerOf, Workers

(* The first signal of a sequence, and what follows it.                    *)
LEMMA HeadTail ==
  ASSUME NEW s \in Seq(Requested), s # << >>
  PROVE  /\ Head(s) \in Requested /\ Head(s) = s[1] /\ Len(s) \in Nat \ {0}
         /\ Tail(s) \in Seq(Requested) /\ Len(Tail(s)) = Len(s) - 1
         /\ \A i \in 1 .. Len(s) - 1 : Tail(s)[i] = s[i + 1]
OBVIOUS

(* A signal at the end of a sequence. *)
LEMMA AppendShape ==
  ASSUME NEW s \in Seq(Requested), NEW q \in Requested
  PROVE  /\ Append(s, q) \in Seq(Requested) /\ Len(Append(s, q)) = Len(s) + 1
         /\ \A i \in 1 .. Len(s) : Append(s, q)[i] = s[i]
         /\ Append(s, q)[Len(s) + 1] = q
OBVIOUS

(* The engine's signal is a sequence of one or none. *)
LEMMA InHandShape ==
  ASSUME engineSignal \in Requested \cup {None}
  PROVE  /\ inHand \in Seq(Requested)
         /\ engineSignal = None => inHand = << >>
         /\ engineSignal # None => inHand = <<engineSignal>> /\ engineSignal \in Requested
BY DEF inHand, Optional
-----------------------------------------------------------------------------
(* The first signal of s is taken away and put at the end of t: order.     *)
LEMMA MoveOrder ==
  ASSUME NEW s \in Seq(Requested), NEW t \in Seq(Requested), s # << >>,
         Rising(s), Rising(t), Ahead(t, s)
  PROVE  /\ Rising(Tail(s)) /\ Rising(Append(t, Head(s)))
         /\ Ahead(Append(t, Head(s)), Tail(s))
<1> DEFINE u == Tail(s)
           v == Append(t, Head(s))
<1>1. /\ Len(s) \in Nat \ {0} /\ Len(u) = Len(s) - 1
      /\ \A i \in 1 .. Len(s) - 1 : u[i] = s[i + 1]
  BY HeadTail
<1>2. /\ Len(t) \in Nat /\ Len(v) = Len(t) + 1 /\ v[Len(t) + 1] = s[1]
      /\ \A i \in 1 .. Len(t) : v[i] = t[i]
  BY HeadTail, AppendShape
<1> HIDE DEF u, v
<1>3. Rising(u)
  BY <1>1 DEF Rising
<1>4. Rising(v)
  <2> SUFFICES ASSUME NEW i \in 1 .. Len(v), NEW j \in 1 .. Len(v), i < j
               PROVE  v[i].id < v[j].id
    BY DEF Rising
  <2>1. i \in 1 .. Len(t) /\ v[i] = t[i]
    BY <1>2
  <2>2. CASE j = Len(t) + 1
    BY <1>1, <1>2, <2>1, <2>2 DEF Ahead
  <2>3. CASE j \in 1 .. Len(t)
    BY <1>2, <2>1, <2>3 DEF Rising
  <2> QED
    BY <1>2, <2>2, <2>3
<1>5. Ahead(v, u)
  <2> SUFFICES ASSUME NEW i \in 1 .. Len(v), NEW j \in 1 .. Len(u)
               PROVE  v[i].id < u[j].id
    BY DEF Ahead
  <2>1. j + 1 \in 1 .. Len(s) /\ u[j] = s[j + 1] /\ 1 < j + 1 /\ 1 \in 1 .. Len(s)
    BY <1>1
  <2>2. CASE i = Len(t) + 1
    BY <1>2, <2>1, <2>2 DEF Rising
  <2>3. CASE i \in 1 .. Len(t)
    BY <1>2, <2>1, <2>3 DEF Ahead
  <2> QED
    BY <1>2, <2>2, <2>3
<1> QED
  BY <1>3, <1>4, <1>5 DEF u, v

LEMMA TailOrder ==
  ASSUME NEW s \in Seq(Requested), NEW u \in Seq(Requested), s # << >>
  PROVE  /\ Ahead(u, s) => Ahead(u, Tail(s))
         /\ Ahead(s, u) => Ahead(Tail(s), u)
BY HeadTail DEF Ahead

LEMMA AppendOrder ==
  ASSUME NEW s \in Seq(Requested), NEW t \in Seq(Requested), NEW u \in Seq(Requested),
         s # << >>
  PROVE  /\ Ahead(u, t) /\ Ahead(u, s) => Ahead(u, Append(t, Head(s)))
         /\ Ahead(t, u) /\ Ahead(s, u) => Ahead(Append(t, Head(s)), u)
<1> DEFINE v == Append(t, Head(s))
<1>1. /\ Len(s) \in Nat \ {0} /\ Len(t) \in Nat
      /\ Len(v) = Len(t) + 1 /\ v[Len(t) + 1] = s[1]
      /\ \A i \in 1 .. Len(t) : v[i] = t[i]
  BY HeadTail, AppendShape
<1> HIDE DEF v
<1>2. 1 \in 1 .. Len(s) /\ \A i \in 1 .. Len(v) : i \in 1 .. Len(t) \/ i = Len(t) + 1
  BY <1>1
<1>3. Ahead(u, t) /\ Ahead(u, s) => Ahead(u, v)
  BY <1>1, <1>2 DEF Ahead
<1>4. Ahead(t, u) /\ Ahead(s, u) => Ahead(v, u)
  BY <1>1, <1>2 DEF Ahead
<1> QED
  BY <1>3, <1>4 DEF v

(* The same: what is known, pending and there.                             *)
LEMMA MoveKnown ==
  ASSUME NEW s \in Seq(Requested), NEW t \in Seq(Requested), s # << >>
  PROVE  /\ Known(s) => Known(Tail(s)) /\ Head(s).region \in regionEngineMap
         /\ Known(s) /\ Known(t) => Known(Append(t, Head(s)))
BY HeadTail, AppendShape DEF Known

LEMMA MovePending ==
  ASSUME NEW s \in Seq(Requested), NEW t \in Seq(Requested), s # << >>
  PROVE  /\ AllPending(s) => AllPending(Tail(s))
         /\ AllPending(s) /\ AllPending(t) => AllPending(Append(t, Head(s)))
<1>1. AllPending(s) => AllPending(Tail(s))
  BY HeadTail DEF AllPending
<1>2. AllPending(s) /\ AllPending(t) => AllPending(Append(t, Head(s)))
  BY HeadTail, AppendShape DEF AllPending
<1> QED
  BY <1>1, <1>2

LEMMA MoveHas ==
  ASSUME NEW s \in Seq(Requested), NEW t \in Seq(Requested), s # << >>, NEW r, NEW id
  PROVE  /\ Has(t, r, id) => Has(Append(t, Head(s)), r, id)
         /\ Has(s, r, id) => Has(Tail(s), r, id) \/ Has(Append(t, Head(s)), r, id)
<1>1. Has(t, r, id) => Has(Append(t, Head(s)), r, id)
  BY HeadTail, AppendShape DEF Has
<1>2. ASSUME NEW i \in 1 .. Len(s), s[i].region = r, s[i].id = id
      PROVE  Has(Tail(s), r, id) \/ Has(Append(t, Head(s)), r, id)
  <2>1. CASE i = 1
    BY <1>2, <2>1, HeadTail, AppendShape DEF Has
  <2>2. CASE i # 1
    <3>1. i - 1 \in 1 .. Len(s) - 1 /\ Tail(s)[i - 1] = s[i]
      BY <2>2, HeadTail
    <3> QED
      BY <1>2, <3>1, HeadTail DEF Has
  <2> QED
    BY <2>1, <2>2
<1> QED
  BY <1>1, <1>2 DEF Has

(* Initially nothing is anywhere. *)
LEMMA NodeInitInv == NodeInit => NodeInv
<1> SUFFICES ASSUME NodeInit
             PROVE  NodeInv
  OBVIOUS
<1> USE DEF NodeInit, Init
<1>1. inHand = << >>
  BY DEF inHand, Optional
<1>2. Shape
  BY WorkerAssumption DEF Shape
<1>3. Placed
  BY <1>1 DEF Placed, Known
<1>4. Owned
  BY DEF Owned, Open, Closed
<1>5. Ordered
  BY <1>1 DEF Ordered, Rising, Ahead
<1>6. Traced
  BY <1>1 DEF Traced, AllPending, Sequenced
<1> QED
  BY <1>2, <1>3, <1>4, <1>5, <1>6 DEF NodeInv

(* What a step leaves alone that touches neither contexts nor histories.   *)
LEMMA OwnedKept ==
  ASSUME Owned, UNCHANGED <<regions, closedRegions, put, accepted, regionEngineMap, sent, handled>>
  PROVE  Owned'
BY DEF Owned, Open, Closed

(* What the invariant says of the stages of the way. *)
LEMMA Stages ==
  ASSUME NodeInv
  PROVE  /\ batch \in Seq(Requested) /\ serverPipe \in Seq(Requested)
         /\ inHand \in Seq(Requested) /\ \A w \in Workers : enginePipe[w] \in Seq(Requested)
BY InHandShape DEF NodeInv, Shape

(* sendRegionRequest: from the batch into the pipe. *)
LEMMA SendRequestStep == NodeInv /\ SendRegionRequest => NodeInv'
<1> SUFFICES ASSUME NodeInv, SendRegionRequest
             PROVE  NodeInv'
  OBVIOUS
<1>1. Shape /\ Placed /\ Owned /\ Ordered /\ Traced
  BY DEF NodeInv
<1>2. batch # << >>
  BY DEF SendRegionRequest
<1>3. Known(Tail(batch)) /\ Known(Append(serverPipe, Head(batch)))
      /\ Head(batch).region \in regionEngineMap
  BY <1>1, <1>2, Stages, MoveKnown DEF Placed
<1>4. /\ batch' = Tail(batch) /\ serverPipe' = Append(serverPipe, Head(batch))
      /\ UNCHANGED <<requests, unread, regionEngineMap, engineSignal, enginePipe, sent, handled>>
      /\ UNCHANGED <<regions, closedRegions, put, accepted>>
  BY <1>3 DEF SendRegionRequest, vars, contexts, history, traces
<1>5. inHand' = inHand
  BY <1>4 DEF inHand, Optional
<1>6. Shape'
  BY <1>1, <1>2, <1>4, HeadTail, AppendShape DEF Shape
<1>7. Placed'
  BY <1>1, <1>3, <1>4, <1>5 DEF Placed, Known
<1>8. Owned'
  BY <1>1, <1>4, OwnedKept
<1>9. Ordered'
  BY <1>1, <1>2, <1>4, <1>5, Stages, MoveOrder, TailOrder, AppendOrder DEF Ordered
<1>10. Traced'
  <2>1. AllPending(Tail(batch)) /\ AllPending(Append(serverPipe, Head(batch)))
    BY <1>1, <1>2, Stages, MovePending DEF Traced
  <2>2. /\ AllPending(batch)' /\ AllPending(serverPipe)' /\ AllPending(inHand)'
        /\ \A w \in Workers : AllPending(enginePipe[w])'
    BY <1>1, <1>4, <1>5, <2>1 DEF Traced, AllPending, Pending
  <2>3. \A r, id : UnderWay(r, id) => UnderWay(r, id)'
    BY <1>2, <1>4, <1>5, Stages, MoveHas DEF UnderWay
  <2>4. \A r \in Regions : Sequenced(r)'
    BY <1>1, <1>4, <2>3 DEF Traced, Sequenced
  <2> QED
    BY <2>2, <2>4 DEF Traced
<1> QED
  BY <1>6, <1>7, <1>8, <1>9, <1>10 DEF NodeInv

(* MitoEngine::getSignal: from the pipe into its hand. *)
LEMMA TakeStep == NodeInv /\ TakeSignal => NodeInv'
<1> SUFFICES ASSUME NodeInv, TakeSignal
             PROVE  NodeInv'
  OBVIOUS
<1>1. Shape /\ Placed /\ Owned /\ Ordered /\ Traced
  BY DEF NodeInv
<1>2. /\ serverPipe # << >> /\ engineSignal = None
      /\ serverPipe' = Tail(serverPipe) /\ engineSignal' = Head(serverPipe)
      /\ UNCHANGED <<requests, unread, regionEngineMap, batch, enginePipe, sent, handled>>
      /\ UNCHANGED <<regions, closedRegions, put, accepted>>
  BY DEF TakeSignal, vars, contexts, history, server, traces
<1>3. inHand' = Append(inHand, Head(serverPipe))
  <2>1. inHand = << >> /\ Head(serverPipe) \in Requested
    BY <1>2, Stages, HeadTail DEF inHand, Optional
  <2>2. inHand' = <<Head(serverPipe)>>
    BY <1>2, <2>1, RequestParts DEF inHand, Optional
  <2> QED
    BY <2>1, <2>2
<1>4. Known(Tail(serverPipe)) /\ Known(Append(inHand, Head(serverPipe)))
  BY <1>1, <1>2, Stages, MoveKnown DEF Placed
<1>5. Shape'
  BY <1>1, <1>2, HeadTail DEF Shape
<1>6. Placed'
  BY <1>1, <1>2, <1>3, <1>4 DEF Placed, Known
<1>7. Owned'
  BY <1>1, <1>2, OwnedKept
<1>8. Ordered'
  BY <1>1, <1>2, <1>3, Stages, MoveOrder, TailOrder, AppendOrder DEF Ordered
<1>9. Traced'
  <2>1. AllPending(Tail(serverPipe)) /\ AllPending(Append(inHand, Head(serverPipe)))
    BY <1>1, <1>2, Stages, MovePending DEF Traced
  <2>2. /\ AllPending(batch)' /\ AllPending(serverPipe)' /\ AllPending(inHand)'
        /\ \A w \in Workers : AllPending(enginePipe[w])'
    BY <1>1, <1>2, <1>3, <2>1 DEF Traced, AllPending, Pending
  <2>3. \A r, id : UnderWay(r, id) => UnderWay(r, id)'
    BY <1>2, <1>3, Stages, MoveHas DEF UnderWay
  <2>4. \A r \in Regions : Sequenced(r)'
    BY <1>1, <1>2, <2>3 DEF Traced, Sequenced
  <2> QED
    BY <2>2, <2>4 DEF Traced
<1> QED
  BY <1>5, <1>6, <1>7, <1>8, <1>9 DEF NodeInv

(* MitoEngine::handleSignal: out of its hand into the pipe of the worker.  *)
LEMMA DispatchStep == NodeInv /\ HandleSignal => NodeInv'
<1> SUFFICES ASSUME NodeInv, HandleSignal
             PROVE  NodeInv'
  OBVIOUS
<1> DEFINE q == engineSignal
           o == WorkerOf(q.region)
<1>1. Shape /\ Placed /\ Owned /\ Ordered /\ Traced
  BY DEF NodeInv
<1>2. /\ engineSignal # None /\ engineSignal' = None
      /\ enginePipe' = [enginePipe EXCEPT ![o] = Append(@, q)]
      /\ UNCHANGED <<requests, unread, regionEngineMap, batch, serverPipe, sent, handled>>
      /\ UNCHANGED <<regions, closedRegions, put, accepted>>
  BY DEF HandleSignal, Dispatch, contexts, history, server, traces
<1>3. /\ inHand = <<q>> /\ inHand # << >> /\ Head(inHand) = q /\ Tail(inHand) = << >>
      /\ q \in Requested /\ q.region \in Regions /\ o \in Workers
  <2>1. inHand = <<q>> /\ q \in Requested
    BY <1>1, <1>2, InHandShape DEF Shape
  <2>2. q.region \in Regions /\ o \in Workers
    BY <2>1, RequestParts, WorkerOfRegion
  <2> QED
    BY <2>1, <2>2
<1>4. inHand' = Tail(inHand)
  BY <1>2, <1>3 DEF inHand, Optional
<1>5. /\ enginePipe'[o] = Append(enginePipe[o], Head(inHand))
      /\ \A w \in Workers : w # o => enginePipe'[w] = enginePipe[w]
  BY <1>1, <1>2, <1>3 DEF Shape
<1>6. Shape'
  BY <1>1, <1>2, <1>3, AppendShape DEF Shape
<1>7. Placed'
  <2>1. Known(Tail(inHand)) /\ Known(Append(enginePipe[o], Head(inHand)))
    BY <1>1, <1>3, Stages, MoveKnown DEF Placed
  <2>2. \A i \in 1 .. Len(enginePipe'[o]) : WorkerOf(enginePipe'[o][i].region) = o
    BY <1>1, <1>3, <1>5, Stages, AppendShape DEF Placed
  <2> QED
    BY <1>1, <1>2, <1>4, <1>5, <2>1, <2>2 DEF Placed, Known
<1>8. Owned'
  BY <1>1, <1>2, OwnedKept
<1>9. Ordered'
  <2>1. /\ Rising(Tail(inHand)) /\ Rising(Append(enginePipe[o], Head(inHand)))
        /\ Ahead(Append(enginePipe[o], Head(inHand)), Tail(inHand))
    BY <1>1, <1>3, Stages, MoveOrder DEF Ordered
  <2>2. /\ Ahead(Tail(inHand), serverPipe) /\ Ahead(Tail(inHand), batch)
        /\ \A w \in Workers : Ahead(enginePipe[w], Tail(inHand))
    BY <1>1, <1>3, Stages, TailOrder DEF Ordered
  <2>3. /\ Ahead(Append(enginePipe[o], Head(inHand)), serverPipe)
        /\ Ahead(Append(enginePipe[o], Head(inHand)), batch)
    BY <1>1, <1>3, Stages, AppendOrder DEF Ordered
  <2> QED
    BY <1>1, <1>2, <1>4, <1>5, <2>1, <2>2, <2>3 DEF Ordered
<1>10. Traced'
  <2>1. AllPending(Tail(inHand)) /\ AllPending(Append(enginePipe[o], Head(inHand)))
    BY <1>1, <1>3, Stages, MovePending DEF Traced
  <2>2. /\ AllPending(batch)' /\ AllPending(serverPipe)' /\ AllPending(inHand)'
        /\ \A w \in Workers : AllPending(enginePipe[w])'
    <3>1. AllPending(batch)' /\ AllPending(serverPipe)' /\ AllPending(inHand)'
      BY <1>1, <1>2, <1>4, <2>1 DEF Traced, AllPending, Pending
    <3>2. ASSUME NEW w \in Workers
          PROVE  AllPending(enginePipe[w])'
      <4>1. AllPending(enginePipe'[w])
        BY <1>1, <1>5, <2>1 DEF Traced
      <4> QED
        BY <1>2, <4>1 DEF AllPending, Pending
    <3> QED
      BY <3>1, <3>2
  <2>3. ASSUME NEW r \in Regions, NEW id, UnderWay(r, id)
        PROVE  UnderWay(r, id)'
    <3>1. WorkerOf(r) \in Workers
      BY WorkerOfRegion
    <3>2. CASE Has(inHand, r, id)
      <4>1. o = WorkerOf(r)
        BY <1>3, <3>2 DEF Has
      <4>2. Has(Append(enginePipe[o], Head(inHand)), r, id)
        <5>1. ~Has(Tail(inHand), r, id)
          BY <1>3 DEF Has
        <5> QED
          BY <1>3, <3>2, <5>1, Stages, MoveHas
      <4> QED
        BY <1>5, <4>1, <4>2 DEF UnderWay
    <3>3. CASE Has(enginePipe[WorkerOf(r)], r, id)
      <4>1. Has(enginePipe'[WorkerOf(r)], r, id)
        BY <1>3, <1>5, <3>1, <3>3, Stages, MoveHas
      <4> QED
        BY <4>1 DEF UnderWay
    <3>4. CASE Has(batch, r, id) \/ Has(serverPipe, r, id)
      BY <1>2, <3>4 DEF UnderWay
    <3> QED
      BY <2>3, <3>2, <3>3, <3>4 DEF UnderWay
  <2>4. \A r \in Regions : Sequenced(r)'
    BY <1>1, <1>2, <2>3 DEF Traced, Sequenced
  <2> QED
    BY <2>2, <2>4 DEF Traced
<1> QED
  BY <1>6, <1>7, <1>8, <1>9, <1>10 DEF NodeInv

(* A sequence that rises up to n goes on rising with n + 1. *)
LEMMA AppendRises ==
  ASSUME NEW n \in Nat, NEW s \in Seq(Nat),
         \A i \in 1 .. Len(s) : s[i] <= n,
         \A i, j \in 1 .. Len(s) : i < j => s[i] < s[j]
  PROVE  LET u == Append(s, n + 1)
         IN  /\ \A i \in 1 .. Len(u) : u[i] <= n + 1
             /\ \A i, j \in 1 .. Len(u) : i < j => u[i] < u[j]
<1> DEFINE u == Append(s, n + 1)
<1>1. /\ Len(s) \in Nat /\ Len(u) = Len(s) + 1 /\ u[Len(s) + 1] = n + 1
      /\ \A i \in 1 .. Len(s) : u[i] = s[i] /\ s[i] \in Nat
  OBVIOUS
<1> HIDE DEF u
<1>2. \A i \in 1 .. Len(u) : u[i] <= n + 1
  BY <1>1
<1>3. ASSUME NEW i \in 1 .. Len(u), NEW j \in 1 .. Len(u), i < j
      PROVE  u[i] < u[j]
  <2>1. i \in 1 .. Len(s) /\ s[i] \in Nat /\ u[i] = s[i]
    BY <1>1, <1>3
  <2>2. CASE j = Len(s) + 1
    BY <1>1, <2>1, <2>2
  <2>3. CASE j \in 1 .. Len(s)
    BY <1>1, <1>3, <2>1, <2>3
  <2> QED
    BY <1>1, <2>2, <2>3
<1> QED
  BY <1>2, <1>3 DEF u

(* parseRequests: a signal with a new id at the end of the batch.          *)
LEMMA ParseStep ==
  ASSUME NodeInv, NEW q \in NextRequests, ParseRequest(q)
  PROVE  NodeInv'
<1>1. Shape /\ Placed /\ Owned /\ Ordered /\ Traced
  BY DEF NodeInv
<1>2. /\ unread > 0 /\ unread' = unread - 1 /\ Allows(q)
      /\ regionEngineMap' = IF q.kind = "CREATE" THEN regionEngineMap \cup {q.region}
                            ELSE regionEngineMap
      /\ requests' = q.id /\ batch' = Append(batch, q)
      /\ sent' = [sent EXCEPT ![q.region] = Append(@, q.id)]
      /\ UNCHANGED <<serverPipe, engineSignal, enginePipe, handled>>
      /\ UNCHANGED <<regions, closedRegions, put, accepted>>
  BY DEF ParseRequest, workers, contexts, history, engine
<1>3. /\ requests + 1 \in 1 .. MaxRequests
      /\ q \in Requested /\ q.id = requests + 1 /\ q.region \in Regions
  BY <1>1, <1>2, RequestShape, WorkerAssumption DEF Shape, NextRequests
<1>4. inHand' = inHand
  BY <1>2 DEF inHand, Optional
<1>5. regionEngineMap' = regionEngineMap \cup {q.region}
  BY <1>2 DEF Allows
<1>6. Shape'
  <2>1. sent' \in [Regions -> Seq(Nat)]
    BY <1>1, <1>2, <1>3 DEF Shape
  <2> QED
    BY <1>1, <1>2, <1>3, <1>5, <2>1, AppendShape DEF Shape
<1>7. Placed'
  <2>1. Known(batch)'
    BY <1>1, <1>2, <1>3, <1>5, Stages, AppendShape DEF Placed, Known
  <2> QED
    BY <1>1, <1>2, <1>4, <1>5, <2>1 DEF Placed, Known
<1>8. /\ sent'[q.region] = Append(sent[q.region], requests + 1)
      /\ Len(sent'[q.region]) = Len(sent[q.region]) + 1
      /\ \A i \in 1 .. Len(sent[q.region]) : sent'[q.region][i] = sent[q.region][i]
      /\ sent'[q.region][Len(sent[q.region]) + 1] = requests + 1
      /\ \A r \in Regions : r # q.region => sent'[r] = sent[r]
      /\ \A r \in Regions : Len(sent[r]) \in Nat /\ Len(handled[r]) \in Nat
  BY <1>1, <1>2, <1>3 DEF Shape
<1>9. Owned'
  BY <1>1, <1>2, <1>5, <1>8 DEF Owned, Open, Closed
<1>10. \A p \in Requested : Pending(p) =>
         /\ p.id <= requests /\ p.id \in Nat
         /\ \E j \in Len(handled'[p.region]) + 1 .. Len(sent'[p.region]) :
              sent'[p.region][j] = p.id
  <2> SUFFICES ASSUME NEW p \in Requested, Pending(p)
               PROVE  /\ p.id <= requests /\ p.id \in Nat
                      /\ \E j \in Len(handled'[p.region]) + 1 .. Len(sent'[p.region]) :
                           sent'[p.region][j] = p.id
    OBVIOUS
  <2>1. p.id \in Nat /\ p.region \in Regions
    BY RequestParts
  <2>2. PICK j \in Len(handled[p.region]) + 1 .. Len(sent[p.region]) :
          sent[p.region][j] = p.id
    BY DEF Pending
  <2>3. p.id <= requests
    BY <1>1, <1>8, <2>1, <2>2 DEF Traced, Sequenced
  <2>4. /\ j \in Len(handled'[p.region]) + 1 .. Len(sent'[p.region])
        /\ sent'[p.region][j] = p.id
    BY <1>2, <1>8, <2>1, <2>2
  <2> QED
    BY <2>1, <2>3, <2>4
<1>11. Ordered'
  <2>1. ASSUME NEW s \in Seq(Requested), AllPending(s), Ahead(s, batch)
        PROVE  Ahead(s, batch')
    <3>1. \A i \in 1 .. Len(s) : s[i].id < q.id
      BY <1>1, <1>3, <1>10, <2>1 DEF Shape, AllPending
    <3>2. \A j \in 1 .. Len(batch') :
            (j \in 1 .. Len(batch) /\ batch'[j] = batch[j]) \/ batch'[j] = q
      BY <1>2, <1>3, Stages, AppendShape
    <3> QED
      BY <2>1, <3>1, <3>2 DEF Ahead
  <2>2. Rising(batch')
    <3>1. \A i \in 1 .. Len(batch) : batch[i].id < q.id
      <4>1. AllPending(batch)
        BY <1>1 DEF Traced
      <4> QED
        BY <1>1, <1>3, <1>10, <4>1, Stages DEF Shape, AllPending
    <3>2. Rising(batch)
      BY <1>1 DEF Ordered
    <3> QED
      BY <1>2, <1>3, <3>1, <3>2, Stages, AppendShape DEF Rising
  <2> QED
    BY <1>1, <1>2, <1>4, <2>1, <2>2, Stages DEF Ordered, Traced
<1>12. Traced'
  <2>1. AllPending(batch)'
    <3>1. Pending(q)'
      <4>1. Len(sent'[q.region]) \in Len(handled'[q.region]) + 1 .. Len(sent'[q.region])
        BY <1>1, <1>2, <1>3, <1>8 DEF Traced, Sequenced
      <4> QED
        BY <1>3, <1>8, <4>1 DEF Pending
    <3>2. AllPending(batch)
      BY <1>1 DEF Traced
    <3>3. ASSUME NEW i \in 1 .. Len(batch')
          PROVE  Pending(batch[i])'
      <4>1. CASE i = Len(batch) + 1
        BY <1>2, <1>3, <3>1, <4>1, Stages, AppendShape
      <4>2. CASE i \in 1 .. Len(batch)
        <5>1. batch'[i] = batch[i] /\ batch[i] \in Requested /\ Pending(batch[i])
          BY <1>2, <1>3, <3>2, <4>2, Stages, AppendShape DEF AllPending
        <5> QED
          BY <1>10, <5>1 DEF Pending
      <4> QED
        BY <1>2, <1>3, <4>1, <4>2, Stages, AppendShape
    <3> QED
      BY <3>3 DEF AllPending
  <2>2. /\ AllPending(serverPipe)' /\ AllPending(inHand)'
        /\ \A w \in Workers : AllPending(enginePipe[w])'
    <3> DEFINE Pends(s) == \A i \in 1 .. Len(s) :
                 \E j \in Len(handled'[s[i].region]) + 1 .. Len(sent'[s[i].region]) :
                   sent'[s[i].region][j] = s[i].id
    <3>1. \A s \in Seq(Requested) : AllPending(s) => Pends(s)
      BY <1>10 DEF AllPending
    <3>2. /\ AllPending(serverPipe) /\ AllPending(inHand)
          /\ \A w \in Workers : AllPending(enginePipe[w])
      BY <1>1 DEF Traced
    <3>3. Pends(serverPipe) /\ Pends(inHand) /\ \A w \in Workers : Pends(enginePipe[w])
      <4> HIDE DEF Pends
      <4> QED
        BY <3>1, <3>2, Stages
    <3>7. serverPipe' = serverPipe /\ enginePipe' = enginePipe
      BY <1>2
    <3>4. AllPending(serverPipe)'
      BY <3>7, <3>3 DEF AllPending, Pending
    <3>5. AllPending(inHand)'
      BY <1>4, <3>3 DEF AllPending, Pending
    <3>6. ASSUME NEW w \in Workers
          PROVE  AllPending(enginePipe[w])'
      BY <3>7, <3>3 DEF AllPending, Pending
    <3> QED
      BY <3>4, <3>5, <3>6
  <2>3. ASSUME NEW r \in Regions
        PROVE  Sequenced(r)'
    <3>1. \A id : UnderWay(r, id) => UnderWay(r, id)'
      BY <1>2, <1>3, <1>4, Stages, AppendShape DEF UnderWay, Has
    <3>2. CASE r # q.region
      <4>1. Sequenced(r)
        BY <1>1 DEF Traced
      <4>2. sent'[r] = sent[r] /\ handled' = handled
        BY <1>2, <1>8, <3>2
      <4>3. requests \in Nat /\ requests' = requests + 1 /\ sent[r] \in Seq(Nat)
        BY <1>1, <1>2, <1>3 DEF Shape
      <4>4. \A i \in 1 .. Len(sent[r]) : sent[r][i] <= requests'
        BY <4>1, <4>3 DEF Sequenced
      <4>5. ASSUME NEW j \in Len(handled[r]) + 1 .. Len(sent[r])
            PROVE  UnderWay(r, sent[r][j])'
        <5>1. ASSUME NEW id, id = sent[r][j]
              PROVE  UnderWay(r, id)'
          BY <3>1, <4>1, <5>1 DEF Sequenced
        <5> QED
          BY <4>2, <5>1 DEF UnderWay, Has
      <4> QED
        BY <4>1, <4>2, <4>4, <4>5 DEF Sequenced
    <3>3. CASE r = q.region
      <4>1. UnderWay(r, q.id)'
        BY <1>2, <1>3, <3>3, Stages, AppendShape DEF UnderWay, Has
      <4>2. /\ sent[r] \in Seq(Nat) /\ sent'[r] = Append(sent[r], q.id)
            /\ \A i \in 1 .. Len(sent[r]) : sent[r][i] <= requests
            /\ \A i, j \in 1 .. Len(sent[r]) : i < j => sent[r][i] < sent[r][j]
            /\ requests \in Nat
        BY <1>1, <1>3, <1>8, <3>3 DEF Traced, Sequenced, Shape
      <4>3. /\ \A i \in 1 .. Len(sent'[r]) : sent'[r][i] <= requests'
            /\ \A i, j \in 1 .. Len(sent'[r]) : i < j => sent'[r][i] < sent'[r][j]
        BY <1>2, <1>3, <4>2, AppendRises
      <4>4. ASSUME NEW j \in Len(handled[r]) + 1 .. Len(sent'[r])
            PROVE  UnderWay(r, sent[r][j])'
        <5>1. CASE j = Len(sent[r]) + 1
          <6>1. sent'[r][j] = q.id
            BY <1>3, <1>8, <3>3, <5>1
          <6> QED
            BY <4>1, <6>1
        <5>2. CASE j \in Len(handled[r]) + 1 .. Len(sent[r])
          <6>1. UnderWay(r, sent[r][j]) /\ sent'[r][j] = sent[r][j]
            BY <1>1, <1>8, <3>3, <5>2 DEF Traced, Sequenced
          <6>2. ASSUME NEW id, id = sent[r][j]
                PROVE  UnderWay(r, id)'
            BY <3>1, <6>1, <6>2
          <6> QED
            BY <6>1, <6>2 DEF UnderWay, Has
        <5> QED
          BY <1>8, <3>3, <5>1, <5>2
      <4> QED
        <5>1. /\ Len(handled[r]) <= Len(sent[r]) /\ handled' = handled
              /\ \A i \in 1 .. Len(handled[r]) : handled[r][i] = sent[r][i]
          BY <1>1, <1>2 DEF Traced, Sequenced
        <5>2. /\ Len(handled[r]) <= Len(sent'[r])
              /\ \A i \in 1 .. Len(handled[r]) : handled[r][i] = sent'[r][i]
          BY <1>8, <3>3, <5>1
        <5> QED
          BY <4>3, <4>4, <5>1, <5>2 DEF Sequenced
    <3> QED
      BY <3>2, <3>3
  <2> QED
    BY <2>1, <2>2, <2>3 DEF Traced
<1> QED
  BY <1>6, <1>7, <1>9, <1>11, <1>12 DEF NodeInv

(* A step that moves no signal. *)
LEMMA WayKept ==
  ASSUME Placed, Ordered, Traced,
         UNCHANGED <<requests, regionEngineMap, batch, serverPipe, engineSignal, enginePipe>>,
         UNCHANGED <<sent, handled>>
  PROVE  Placed' /\ Ordered' /\ Traced'
<1>1. inHand' = inHand
  BY DEF inHand, Optional
<1>2. Placed'
  BY <1>1 DEF Placed, Known
<1>3. Ordered'
  BY <1>1 DEF Ordered
<1>4. Traced'
  BY <1>1 DEF Traced, AllPending, Pending, Sequenced, UnderWay
<1> QED
  BY <1>2, <1>3, <1>4

(* getRequest, an entry that is rejected, and the flusher move none and    *)
(* touch no context.                                                       *)
LEMMA IdleStep ==
  ASSUME NodeInv, ReceiveBatch \/ RejectRequest \/ NodeFlusher \/ UNCHANGED allVars
  PROVE  NodeInv'
<1>1. Shape /\ Placed /\ Owned /\ Ordered /\ Traced
  BY DEF NodeInv
<1>2. /\ UNCHANGED <<requests, regionEngineMap, batch, serverPipe, engineSignal, enginePipe>>
      /\ UNCHANGED <<sent, handled, regions, closedRegions, put, accepted>>
  BY DEF ReceiveBatch, RejectRequest, NodeFlusher, Flusher, GetFlush, HandleFlush, FlushFails,
         allVars, vars, nodeVars, server, engine, traces, contexts, history
<1>3. unread' \in Nat /\ requests + unread' <= MaxRequests
  <2>1. CASE ReceiveBatch
    BY <1>1, <2>1, NodeAssumption DEF Shape, ReceiveBatch
  <2>2. CASE RejectRequest
    <3>1. requests \in Nat /\ unread \in Nat /\ requests + unread <= MaxRequests
          /\ MaxRequests \in Nat
      BY <1>1, WorkerAssumption DEF Shape
    <3>2. unread > 0 /\ unread' = unread - 1
      BY <2>2 DEF RejectRequest
    <3> QED
      BY <3>1, <3>2
  <2>3. CASE NodeFlusher \/ UNCHANGED allVars
    BY <1>1, <2>3 DEF Shape, NodeFlusher, allVars, nodeVars, server
  <2> QED
    BY <2>1, <2>2, <2>3
<1>4. Shape'
  BY <1>1, <1>2, <1>3 DEF Shape
<1>5. Placed' /\ Ordered' /\ Traced'
  BY <1>1, <1>2, WayKept
<1>6. Owned'
  BY <1>1, <1>2, OwnedKept
<1> QED
  BY <1>4, <1>5, <1>6 DEF NodeInv
-----------------------------------------------------------------------------
(* Contexts f become g for region r of worker w alone. *)
Elsewhere(f, g, w, r) ==
  /\ DOMAIN g = DOMAIN f /\ \A v \in Workers : DOMAIN g[v] = DOMAIN f[v]
  /\ \A v \in Workers, x \in Regions : v # w \/ x # r => g[v][x] = f[v][x]

(* A worker may do what it likes with a known region of its own.           *)
LEMMA OwnedAt ==
  ASSUME Owned, NEW w \in Workers, NEW r \in regionEngineMap, WorkerOf(r) = w,
         Elsewhere(regions, regions', w, r), Elsewhere(closedRegions, closedRegions', w, r),
         DOMAIN put' = Workers, \A v \in Workers : v # w => put'[v] = put[v],
         put'[w] = put[w] \/ put'[w] = None \/ put'[w].request.region = r,
         DOMAIN accepted' = Regions,
         \A x \in Regions : x # r => accepted'[x] = accepted[x] /\ handled'[x] = handled[x],
         UNCHANGED <<regionEngineMap, sent>>
  PROVE  Owned'
<1>1. \A v \in Workers, x \in Regions : (Open(v, x) \/ Closed(v, x))' =>
        WorkerOf(x) = v /\ x \in regionEngineMap
  BY DEF Owned, Elsewhere, Open, Closed
<1>2. \A v \in Workers : put'[v] # None =>
        WorkerOf(put'[v].request.region) = v /\ put'[v].request.region \in regionEngineMap
  BY DEF Owned
<1>3. \A x \in Regions \ regionEngineMap :
        accepted'[x] = << >> /\ sent'[x] = << >> /\ handled'[x] = << >>
  BY DEF Owned
<1>4. /\ DOMAIN regions' = Workers /\ DOMAIN closedRegions' = Workers
      /\ \A v \in Workers : DOMAIN regions'[v] = Regions /\ DOMAIN closedRegions'[v] = Regions
  BY DEF Owned, Elsewhere
<1> QED
  BY <1>1, <1>2, <1>3, <1>4 DEF Owned

(* What a handler does is for the region of its signal. *)
LEMMA HandleAt ==
  ASSUME Owned, NEW w \in Workers, Handle(w), NEW r, r = Head(enginePipe[w]).region
  PROVE  /\ enginePipe' = [enginePipe EXCEPT ![w] = Tail(@)] /\ requests' = requests
         /\ Elsewhere(regions, regions', w, r)
         /\ Elsewhere(closedRegions, closedRegions', w, r)
         /\ DOMAIN put' = Workers /\ \A v \in Workers : v # w => put'[v] = put[v]
         /\ put'[w] = put[w] \/ put'[w].request.region = r
         /\ DOMAIN accepted' = Regions
         /\ \A x \in Regions : x # r => accepted'[x] = accepted[x]
<1> DEFINE q == Head(enginePipe[w])
<1>1. /\ DOMAIN regions = Workers /\ DOMAIN closedRegions = Workers /\ DOMAIN put = Workers
      /\ \A v \in Workers : DOMAIN regions[v] = Regions /\ DOMAIN closedRegions[v] = Regions
      /\ DOMAIN accepted = Regions
  BY DEF Owned
<1> USE DEF Take, Elsewhere, contexts, history
<1>2. CASE HandleWrite(w, q)
  BY <1>1, <1>2 DEF HandleWrite, WriteRow
<1>3. CASE HandleWriteFull(w, q)
  BY <1>1, <1>3 DEF HandleWriteFull, SendFlushSignal
<1>4. CASE Create(w, q)
  BY <1>1, <1>4 DEF Create
<1>5. CASE OpenRegion(w, q)
  BY <1>1, <1>5 DEF OpenRegion
<1>6. CASE CloseEmpty(w, q)
  BY <1>1, <1>6 DEF CloseEmpty, MoveToClosed
<1>7. CASE CloseFull(w, q)
  BY <1>1, <1>7 DEF CloseFull, SendFlushSignal
<1>8. CASE Drop(w, q)
  BY <1>1, <1>8 DEF Drop
<1>9. CASE Ignore(w, q)
  BY <1>1, <1>9 DEF Ignore
<1> QED
  BY <1>2, <1>3, <1>4, <1>5, <1>6, <1>7, <1>8, <1>9 DEF Handle

(* put and what follows it in the handler that flushed. *)
LEMMA PutStep ==
  ASSUME NodeInv, NEW w \in Workers, PutStore(w) \/ PutReturn(w), UNCHANGED nodeVars
  PROVE  NodeInv'
<1>1. Shape /\ Placed /\ Owned /\ Ordered /\ Traced
  BY DEF NodeInv
<1>2. UNCHANGED <<requests, unread, regionEngineMap, batch, serverPipe, engineSignal,
                  enginePipe, sent, handled>>
  BY DEF PutStore, PutReturn, nodeVars, server, engine, traces
<1>3. Shape' /\ Placed' /\ Ordered' /\ Traced'
  BY <1>1, <1>2, WayKept DEF Shape
<1>4. Owned'
  <2> DEFINE r == put[w].request.region
  <2>1. /\ DOMAIN regions = Workers /\ DOMAIN closedRegions = Workers /\ DOMAIN put = Workers
        /\ \A v \in Workers : DOMAIN regions[v] = Regions /\ DOMAIN closedRegions[v] = Regions
        /\ DOMAIN accepted = Regions
    BY <1>1 DEF Owned
  <2>2. put[w] # None /\ WorkerOf(r) = w /\ r \in regionEngineMap
    BY <1>1 DEF Owned, PutStore, PutReturn
  <2>3. CASE PutStore(w)
    <3>1. /\ put' = [put EXCEPT ![w].stored = TRUE]
          /\ UNCHANGED <<regions, closedRegions, accepted>>
      BY <2>3 DEF PutStore, contexts, history
    <3>2. put'[w].request.region = r
      BY <2>1, <3>1
    <3> QED
      BY <1>1, <1>2, <2>1, <2>2, <3>1, <3>2, OwnedAt DEF Elsewhere
  <2>4. CASE PutReturn(w)
    <3>1. put' = [put EXCEPT ![w] = None]
      BY <2>4 DEF PutReturn
    <3>2. /\ Elsewhere(regions, regions', w, r)
          /\ Elsewhere(closedRegions, closedRegions', w, r)
          /\ DOMAIN accepted' = Regions
          /\ \A x \in Regions : x # r => accepted'[x] = accepted[x]
      <4> DEFINE p == put[w]
      <4>1. \/ /\ WriteRow(w, p.request)
               /\ UNCHANGED closedRegions
            \/ MoveToClosed(w, r) /\ UNCHANGED accepted
        BY <2>4 DEF PutReturn
      <4>2. CASE WriteRow(w, p.request) /\ UNCHANGED closedRegions
        BY <2>1, <4>2 DEF WriteRow, Elsewhere
      <4>3. CASE MoveToClosed(w, r) /\ UNCHANGED accepted
        BY <2>1, <4>3 DEF MoveToClosed, Elsewhere
      <4> QED
        BY <4>1, <4>2, <4>3
    <3> QED
      BY <1>1, <1>2, <2>1, <2>2, <3>1, <3>2, OwnedAt
  <2> QED
    BY <2>3, <2>4
<1> QED
  BY <1>2, <1>3, <1>4 DEF NodeInv

(* A worker takes up the first signal of its pipe, which is the oldest of  *)
(* its region that is under way: nothing of the region is handled before   *)
(* its turn.                                                               *)
LEMMA HandleStep ==
  ASSUME NodeInv, NEW w \in Workers, Handle(w),
         handled' = [handled EXCEPT ![Head(enginePipe[w]).region] =
                       Append(@, Head(enginePipe[w]).id)],
         UNCHANGED <<server, engine, sent>>
  PROVE  NodeInv'
<1> DEFINE q == Head(enginePipe[w])
           r == q.region
           s == enginePipe[w]
           h == Len(handled[r])
<1>1. Shape /\ Placed /\ Owned /\ Ordered /\ Traced
  BY DEF NodeInv
<1>2. s # << >> /\ s \in Seq(Requested) /\ q = s[1] /\ 1 \in 1 .. Len(s)
  BY Stages, HeadTail DEF Handle
<1>3. q \in Requested /\ q.id \in Nat /\ r \in Regions /\ r \in regionEngineMap /\ WorkerOf(r) = w
  BY <1>1, <1>2, RequestParts DEF Placed, Known
<1>4. enginePipe' = [enginePipe EXCEPT ![w] = Tail(@)] /\ requests' = requests
  BY <1>1, HandleAt
<1>5. /\ UNCHANGED <<unread, regionEngineMap, batch, serverPipe, engineSignal, sent>>
      /\ inHand' = inHand
  BY DEF server, engine, inHand, Optional
<1>6. /\ enginePipe'[w] = Tail(s) /\ \A v \in Workers : v # w => enginePipe'[v] = enginePipe[v]
      /\ handled'[r] = Append(handled[r], q.id)
      /\ \A x \in Regions : x # r => handled'[x] = handled[x]
  BY <1>1, <1>3, <1>4 DEF Shape
<1>7. Shape'
  BY <1>1, <1>2, <1>3, <1>4, <1>5, HeadTail DEF Shape
<1>8. Placed'
  <2>1. Known(Tail(s)) /\ \A i \in 1 .. Len(Tail(s)) : WorkerOf(Tail(s)[i].region) = w
    BY <1>1, <1>2, HeadTail DEF Placed, Known
  <2> QED
    BY <1>1, <1>5, <1>6, <2>1 DEF Placed, Known
<1>9. Owned'
  <2>1. DOMAIN put' = Workers /\ DOMAIN accepted' = Regions
    BY <1>1, HandleAt
  <2>2. \A v \in Workers : v # w => put'[v] = put[v]
    BY <1>1, HandleAt
  <2>3. put'[w] = put[w] \/ put'[w].request.region = r
    BY <1>1, HandleAt
  <2>4. \A x \in Regions : x # r => accepted'[x] = accepted[x]
    BY <1>1, HandleAt
  <2>5. Elsewhere(regions, regions', w, r) /\ Elsewhere(closedRegions, closedRegions', w, r)
    BY <1>1, HandleAt
  <2> QED
    BY <1>1, <1>3, <1>5, <1>6, <2>1, <2>2, <2>3, <2>4, <2>5, OwnedAt
<1>10. Ordered'
  <2>1. Rising(Tail(s))
    BY <1>1, <1>2, HeadTail DEF Ordered, Rising
  <2>2. Ahead(Tail(s), inHand) /\ Ahead(Tail(s), serverPipe) /\ Ahead(Tail(s), batch)
    BY <1>1, <1>2, Stages, TailOrder DEF Ordered
  <2> QED
    BY <1>1, <1>5, <1>6, <2>1, <2>2 DEF Ordered
<1>11. /\ h \in Nat /\ Len(sent[r]) \in Nat /\ h + 1 \in 1 .. Len(sent[r])
       /\ sent[r][h + 1] = q.id
  <2>1. PICK j \in h + 1 .. Len(sent[r]) : sent[r][j] = q.id
    <3>1. AllPending(s)
      BY <1>1 DEF Traced
    <3>2. Pending(s[1])
      BY <1>2, <3>1 DEF AllPending
    <3>3. Pending(q)
      BY <1>2, <3>2
    <3> QED
      BY <3>3 DEF Pending
  <2>2. h \in Nat /\ Len(sent[r]) \in Nat /\ h + 1 \in 1 .. Len(sent[r])
        /\ h + 1 \in h + 1 .. Len(sent[r])
    <3>1. handled[r] \in Seq(Nat) /\ sent[r] \in Seq(Nat)
      BY <1>1, <1>3 DEF Shape
    <3>2. h \in Nat /\ Len(sent[r]) \in Nat
      BY <3>1
    <3> HIDE DEF h
    <3> QED
      BY <2>1, <3>2
  <2> DEFINE id == sent[r][h + 1]
  <2>3. id \in Nat /\ id <= q.id
    <3>1. sent[r] \in Seq(Nat)
      BY <1>1, <1>3 DEF Shape
    <3>2. \A i, k \in 1 .. Len(sent[r]) : i < k => sent[r][i] < sent[r][k]
      BY <1>1, <1>3 DEF Traced, Sequenced
    <3> DEFINE n == Len(sent[r])
    <3>3. h \in Nat /\ n \in Nat /\ j \in h + 1 .. n
      BY <2>1, <2>2
    <3>4. j \in 1 .. n /\ (j = h + 1 \/ h + 1 < j)
      <4> HIDE DEF h, n
      <4> QED
        BY <3>3
    <3>5. \A i \in 1 .. Len(sent[r]) : sent[r][i] \in Nat
      BY <3>1
    <3> HIDE DEF h
    <3>6. CASE j = h + 1
      BY <1>3, <2>1, <2>2, <3>5, <3>6
    <3>7. CASE h + 1 < j
      BY <2>1, <2>2, <3>2, <3>4, <3>5, <3>7
    <3> QED
      BY <3>4, <3>6, <3>7
  <2>4. UnderWay(r, id)
    BY <1>1, <1>3, <2>2 DEF Traced, Sequenced
  <2>5. CASE Has(s, r, id)
    <3>1. PICK i \in 1 .. Len(s) : s[i].id = id
      BY <2>5 DEF Has
    <3>2. i = 1 \/ q.id < id
      BY <1>1, <1>2, <3>1 DEF Ordered, Rising
    <3> QED
      BY <1>2, <1>3, <2>2, <2>3, <3>1, <3>2
  <2>6. CASE Has(batch, r, id) \/ Has(serverPipe, r, id) \/ Has(inHand, r, id)
    <3>1. q.id < id
      BY <1>1, <1>2, <2>6 DEF Ordered, Ahead, Has
    <3> QED
      BY <1>3, <2>3, <3>1
  <2> QED
    BY <1>3, <2>4, <2>5, <2>6 DEF UnderWay
<1>12. Traced'
  <2>1. Len(handled'[r]) = h + 1 /\ handled'[r][h + 1] = q.id
        /\ \A i \in 1 .. h : handled'[r][i] = handled[r][i]
    BY <1>1, <1>3, <1>6 DEF Shape
  <2> DEFINE StillPending(p) ==
               \E j \in Len(handled'[p.region]) + 1 .. Len(sent'[p.region]) :
                 sent'[p.region][j] = p.id
  <2>2. ASSUME NEW p \in Requested, Pending(p), p.region = r => q.id < p.id
        PROVE  StillPending(p)
    <3>1. PICK j \in Len(handled[p.region]) + 1 .. Len(sent[p.region]) :
            sent[p.region][j] = p.id
      BY <2>2 DEF Pending
    <3>2. p.region \in Regions /\ p.id \in Nat
      BY RequestParts
    <3>3. CASE p.region = r
      <4>1. j # h + 1
        BY <1>3, <1>11, <2>2, <3>1, <3>2, <3>3
      <4>2. j \in h + 2 .. Len(sent[r])
        BY <1>11, <3>1, <3>3, <4>1
      <4> QED
        BY <1>5, <1>11, <2>1, <3>1, <3>3, <4>2
    <3>4. CASE p.region # r
      BY <1>5, <1>6, <3>1, <3>2, <3>4
    <3> QED
      BY <3>3, <3>4
  <2> DEFINE AllStill(u) == \A i \in 1 .. Len(u) : StillPending(u[i])
  <2>3. \A u \in Seq(Requested) : AllPending(u) /\ Ahead(s, u) => AllStill(u)
    <3> SUFFICES ASSUME NEW u \in Seq(Requested), AllPending(u), Ahead(s, u),
                        NEW i \in 1 .. Len(u)
                 PROVE  StillPending(u[i])
      OBVIOUS
    <3>1. u[i] \in Requested /\ Pending(u[i]) /\ q.id < u[i].id
      BY <1>2 DEF AllPending, Ahead
    <3> HIDE DEF StillPending
    <3> QED
      BY <2>2, <3>1
  <2>4. AllStill(Tail(s))
    <3> SUFFICES ASSUME NEW i \in 1 .. Len(Tail(s))
                 PROVE  StillPending(Tail(s)[i])
      OBVIOUS
    <3>1. /\ i + 1 \in 1 .. Len(s) /\ Tail(s)[i] = s[i + 1]
          /\ s[i + 1] \in Requested /\ 1 < i + 1
      BY <1>2, HeadTail
    <3>2. Pending(s[i + 1]) /\ q.id < s[i + 1].id
      BY <1>1, <1>2, <3>1 DEF Traced, AllPending, Ordered, Rising
    <3> HIDE DEF StillPending
    <3> QED
      BY <2>2, <3>1, <3>2
  <2>5. ASSUME NEW v \in Workers, v # w
        PROVE  AllStill(enginePipe[v])
    <3> SUFFICES ASSUME NEW i \in 1 .. Len(enginePipe[v])
                 PROVE  StillPending(enginePipe[v][i])
      OBVIOUS
    <3>1. enginePipe[v][i] \in Requested /\ WorkerOf(enginePipe[v][i].region) = v
      BY <1>1, Stages DEF Placed
    <3>2. Pending(enginePipe[v][i])
      BY <1>1 DEF Traced, AllPending
    <3> HIDE DEF StillPending
    <3> QED
      BY <1>3, <2>2, <2>5, <3>1, <3>2
  <2>6. AllStill(batch) /\ AllStill(serverPipe) /\ AllStill(inHand)
    <3> HIDE DEF AllStill
    <3> QED
      BY <1>1, <2>3, Stages DEF Traced, Ordered
  <2>7. /\ AllPending(batch)' /\ AllPending(serverPipe)' /\ AllPending(inHand)'
        /\ \A v \in Workers : AllPending(enginePipe[v])'
    <3>1. batch' = batch /\ serverPipe' = serverPipe /\ inHand' = inHand
      BY <1>5
    <3>2. AllPending(batch)' /\ AllPending(serverPipe)' /\ AllPending(inHand)'
      BY <2>6, <3>1 DEF AllPending, Pending
    <3>3. ASSUME NEW v \in Workers
          PROVE  AllPending(enginePipe[v])'
      <4>1. AllStill(enginePipe'[v])
        <5> HIDE DEF AllStill
        <5> QED
          BY <1>6, <2>4, <2>5
      <4> QED
        BY <4>1 DEF AllPending, Pending
    <3> QED
      BY <3>2, <3>3
  <2>8. ASSUME NEW x \in Regions
        PROVE  Sequenced(x)'
    <3>1. WorkerOf(x) \in Workers
      BY WorkerOfRegion
    <3>2. CASE x # r
      <4>1. ASSUME NEW id, UnderWay(x, id)
            PROVE  UnderWay(x, id)'
        <5>1. Has(s, x, id) => Has(Tail(s), x, id)
          <6> SUFFICES ASSUME NEW i \in 1 .. Len(s), s[i].region = x, s[i].id = id
                       PROVE  Has(Tail(s), x, id)
            BY DEF Has
          <6>1. i - 1 \in 1 .. Len(Tail(s)) /\ Tail(s)[i - 1] = s[i]
            BY <1>2, <3>2, HeadTail
          <6> QED
            BY <6>1 DEF Has
        <5> QED
          BY <1>5, <1>6, <3>1, <4>1, <5>1 DEF UnderWay
      <4> QED
        BY <1>1, <1>4, <1>5, <1>6, <3>2, <4>1 DEF Traced, Sequenced
    <3>3. CASE x = r
      <4>1. ASSUME NEW id, UnderWay(x, id), id # q.id
            PROVE  UnderWay(x, id)'
        <5>1. Has(s, x, id) => Has(Tail(s), x, id)
          <6> SUFFICES ASSUME NEW i \in 1 .. Len(s), s[i].region = x, s[i].id = id
                       PROVE  Has(Tail(s), x, id)
            BY DEF Has
          <6>1. i # 1
            BY <1>2, <4>1
          <6>2. i - 1 \in 1 .. Len(Tail(s)) /\ Tail(s)[i - 1] = s[i]
            <7> HIDE DEF s
            <7> QED
              BY <1>2, <6>1, HeadTail
          <6> QED
            BY <4>1, <6>2 DEF Has
        <5>2. batch' = batch /\ serverPipe' = serverPipe /\ inHand' = inHand
              /\ enginePipe'[WorkerOf(x)] = Tail(s) /\ enginePipe[WorkerOf(x)] = s
          BY <1>3, <1>5, <1>6, <3>3
        <5> QED
          BY <4>1, <5>1, <5>2 DEF UnderWay
      <4>2. ASSUME NEW j \in h + 2 .. Len(sent[x])
            PROVE  UnderWay(x, sent[x][j])'
        <5>1. j \in h + 1 .. Len(sent[x]) /\ j \in 1 .. Len(sent[x]) /\ h + 1 < j
          BY <1>11, <3>3
        <5>2. UnderWay(x, sent[x][j]) /\ sent[x][h + 1] < sent[x][j]
          BY <1>1, <1>11, <3>3, <5>1 DEF Traced, Sequenced
        <5>3. sent[x][j] # q.id /\ sent' = sent
          BY <1>3, <1>5, <1>11, <3>3, <5>2
        <5>4. ASSUME NEW id, id = sent[x][j]
              PROVE  UnderWay(x, id)'
          BY <4>1, <5>2, <5>3, <5>4
        <5> QED
          BY <5>3, <5>4 DEF UnderWay, Has
      <4>3. \A i \in 1 .. h + 1 : handled'[x][i] = sent[x][i]
        <5>1. \A i \in 1 .. h : handled[x][i] = sent[x][i]
          BY <1>1, <3>3 DEF Traced, Sequenced
        <5>2. ASSUME NEW i \in 1 .. h + 1
              PROVE  handled'[x][i] = sent[x][i]
          <6>1. i = h + 1 \/ i \in 1 .. h
            BY <1>11
          <6> QED
            BY <1>11, <2>1, <3>3, <5>1, <6>1
        <5> QED
          BY <5>2
      <4>4. /\ \A i, j \in 1 .. Len(sent[x]) : i < j => sent[x][i] < sent[x][j]
            /\ \A i \in 1 .. Len(sent[x]) : sent[x][i] <= requests
        BY <1>1 DEF Traced, Sequenced
      <4>5. sent' = sent /\ requests' = requests
        BY <1>4, <1>5
      <4>6. /\ \A i, j \in 1 .. Len(sent'[x]) : i < j => sent'[x][i] < sent'[x][j]
            /\ \A i \in 1 .. Len(sent'[x]) : sent'[x][i] <= requests'
        BY <4>4, <4>5
      <4>7. /\ Len(handled'[x]) <= Len(sent'[x])
            /\ \A i \in 1 .. Len(handled'[x]) : handled'[x][i] = sent'[x][i]
        <5>1. Len(handled'[x]) = h + 1 /\ h + 1 <= Len(sent'[x])
          BY <1>11, <2>1, <3>3, <4>5
        <5> HIDE DEF h
        <5> QED
          BY <4>3, <4>5, <5>1
      <4>8. \A j \in Len(handled'[x]) + 1 .. Len(sent'[x]) : UnderWay(x, sent[x][j])'
        BY <1>11, <2>1, <3>3, <4>2, <4>5
      <4> QED
        BY <4>6, <4>7, <4>8 DEF Sequenced
    <3> QED
      BY <3>2, <3>3
  <2> QED
    BY <2>7, <2>8 DEF Traced
<1> QED
  BY <1>7, <1>8, <1>9, <1>10, <1>12 DEF NodeInv
-----------------------------------------------------------------------------
(* One step of the node. *)
LEMMA NodeStep == NodeInv /\ [NodeNext]_allVars => NodeInv'
<1> SUFFICES ASSUME NodeInv, [NodeNext]_allVars
             PROVE  NodeInv'
  OBVIOUS
<1>1. CASE ReceiveBatch \/ NodeFlusher \/ UNCHANGED allVars
  BY <1>1, IdleStep
<1>2. CASE parseRequests
  <2>1. CASE RejectRequest
    BY <2>1, IdleStep
  <2>2. CASE \E q \in NextRequests : ParseRequest(q)
    BY <2>2, ParseStep
  <2> QED
    BY <1>2, <2>1, <2>2 DEF parseRequests
<1>3. CASE SendRegionRequest
  BY <1>3, SendRequestStep
<1>4. CASE TakeSignal
  BY <1>4, TakeStep
<1>5. CASE HandleSignal
  BY <1>5, DispatchStep
<1>6. ASSUME NEW w \in Workers, NodeWorker(w)
      PROVE  NodeInv'
  <2>1. CASE (PutStore(w) \/ PutReturn(w)) /\ UNCHANGED nodeVars
    BY <2>1, PutStep
  <2>2. CASE /\ Handle(w)
             /\ handled' = [handled EXCEPT ![Head(enginePipe[w]).region] =
                              Append(@, Head(enginePipe[w]).id)]
             /\ UNCHANGED <<server, engine, sent>>
    BY <2>2, HandleStep
  <2> QED
    BY <1>6, <2>1, <2>2 DEF NodeWorker
<1> QED
  BY <1>1, <1>2, <1>3, <1>4, <1>5, <1>6 DEF NodeNext

(* The invariant of the way of a signal holds in every state of the node.  *)
THEOREM NodeInvAlways == NodeSpec => []NodeInv
<1>1. NodeInit => NodeInv
  BY NodeInitInv
<1>2. NodeInv /\ [NodeNext]_<<vars, nodeVars>> => NodeInv'
  BY NodeStep DEF allVars
<1> QED
  BY <1>1, <1>2, PTL DEF NodeSpec

(* A region has contexts with one worker alone, whatever requests come and *)
(* however threads and pipes delay them (regionIDToWorkerID).              *)
THEOREM OneOwnerAlways == NodeSpec => []OneOwner
<1>1. NodeInv => OneOwner
  BY DEF NodeInv, Owned, OneOwner
<1> QED
  BY <1>1, NodeInvAlways, PTL

(* Of a region the server has no engine for, the node holds nothing (the   *)
(* check in parseRequests).                                                *)
THEOREM KnownOnly == NodeSpec => []KnownRegions
<1>1. NodeInv => KnownRegions
  BY DEF NodeInv, Owned, KnownRegions, Exists
<1> QED
  BY <1>1, NodeInvAlways, PTL

(* Workers take up the requests of a region in the order in which the      *)
(* server parsed them, none skipped, none twice (sendRegionRequest,        *)
(* handleSignal).                                                          *)
THEOREM HandledOrder == NodeSpec => []HandledInOrder
<1>1. NodeInv => HandledInOrder
  BY DEF NodeInv, Traced, Sequenced, HandledInOrder
<1> QED
  BY <1>1, NodeInvAlways, PTL
-----------------------------------------------------------------------------
(* The types of the node, beyond what the way of a signal needs.           *)
Typed ==
  /\ RegionInv
  /\ unread + Len(batch) <= MaxBatch /\ Len(serverPipe) <= PipeBound
  /\ sent \in [Regions -> Seq(Ids)] /\ handled \in [Regions -> Seq(Ids)]

LEMMA TypedInit == NodeInit => Typed
<1> SUFFICES ASSUME NodeInit
             PROVE  Typed
  OBVIOUS
<1>1. RegionInv
  BY RegionInit DEF NodeInit
<1> QED
  BY <1>1, WorkerAssumption, NodeAssumption DEF NodeInit, Typed

(* A step of the server or the engine. *)
LEMMA TypedParse ==
  ASSUME NodeInv, Typed, NEW q \in NextRequests, ParseRequest(q)
  PROVE  Typed'
<1>1. /\ unread > 0 /\ unread' = unread - 1 /\ UNCHANGED <<workers, engine, handled>>
      /\ requests' = q.id /\ batch' = Append(batch, q)
      /\ sent' = [sent EXCEPT ![q.region] = Append(@, q.id)]
  BY DEF ParseRequest
<1>2. /\ requests \in Nat /\ unread \in Nat /\ requests + unread <= MaxRequests
      /\ batch \in Seq(Requested)
  BY DEF NodeInv, Shape
<1>3. /\ requests + 1 \in Ids /\ requests + 1 \in 0 .. MaxRequests
      /\ q \in Requested /\ q.id = requests + 1 /\ q.region \in Regions
  <2>1. requests + 1 \in 1 .. MaxRequests
    BY <1>1, <1>2, WorkerAssumption
  <2> QED
    BY <2>1, RequestShape DEF NextRequests, Ids
<1>4. RegionInv'
  <2>1. OfWorkers' /\ \A v \in Workers : Held(v)'
    BY <1>1, HeldKept DEF Typed, RegionInv, workers
  <2>2. Flushed' /\ Stored'
    BY <1>1 DEF Typed, RegionInv, Flushed, Stored, flusherPipe, disk, history, workers
  <2>3. Arriving'
    BY <1>1, <1>3 DEF Typed, RegionInv, Arriving, workers
  <2> QED
    BY <2>1, <2>2, <2>3 DEF RegionInv
<1>5. Len(batch') = Len(batch) + 1 /\ Len(batch) \in Nat
  BY <1>1, <1>2, <1>3, AppendShape
<1>6. unread' + Len(batch') = unread + Len(batch)
  BY <1>1, <1>2, <1>5
<1> QED
  BY <1>1, <1>3, <1>4, <1>6 DEF Typed, engine

LEMMA TypedServer ==
  ASSUME NodeInv, Typed, ReceiveBatch \/ RejectRequest \/ SendRegionRequest \/ TakeSignal
  PROVE  Typed'
<1>1. UNCHANGED <<vars, traces>>
  BY DEF ReceiveBatch, RejectRequest, SendRegionRequest, TakeSignal, server
<1>2. RegionInv'
  BY <1>1, RegionStep DEF Typed
<1>3. /\ unread \in Nat /\ batch \in Seq(Requested) /\ serverPipe \in Seq(Requested)
      /\ PipeBound \in Nat /\ MaxBatch \in Nat
  BY WorkerAssumption, NodeAssumption DEF NodeInv, Shape
<1>4. unread' + Len(batch') <= MaxBatch /\ Len(serverPipe') <= PipeBound
  <2>1. CASE ReceiveBatch
    BY <1>3, <2>1 DEF Typed, ReceiveBatch, engine
  <2>2. CASE RejectRequest
    <3>1. /\ unread' = unread - 1 /\ Len(batch') = Len(batch) /\ Len(batch) \in Nat
          /\ serverPipe' = serverPipe
      BY <1>3, <2>2 DEF RejectRequest, engine
    <3> QED
      BY <1>3, <3>1 DEF Typed
  <2>3. CASE SendRegionRequest
    <3>1. /\ unread' = unread /\ Len(batch') = Len(batch) - 1 /\ Len(batch) \in Nat
          /\ Len(serverPipe) < PipeBound
          /\ serverPipe' = Append(serverPipe, Head(batch)) \/ serverPipe' = serverPipe
      BY <1>3, <2>3, HeadTail DEF SendRegionRequest
    <3>2. Len(serverPipe') \in {Len(serverPipe), Len(serverPipe) + 1} /\ Len(serverPipe) \in Nat
      BY <1>3, <3>1
    <3> QED
      BY <1>3, <3>1, <3>2 DEF Typed
  <2>4. CASE TakeSignal
    <3>1. /\ unread' = unread /\ batch' = batch
          /\ Len(serverPipe') = Len(serverPipe) - 1 /\ Len(serverPipe) \in Nat
      BY <1>3, <2>4, HeadTail DEF TakeSignal, server
    <3> QED
      BY <1>3, <3>1 DEF Typed
  <2> QED
    BY <2>1, <2>2, <2>3, <2>4
<1> QED
  BY <1>1, <1>2, <1>4 DEF Typed, traces

LEMMA TypedDispatch ==
  ASSUME NodeInv, Typed, HandleSignal
  PROVE  Typed'
<1>1. /\ engineSignal \in Requested /\ Dispatch(engineSignal)
      /\ UNCHANGED <<requests, contexts, put, flusherPipe, flushing, disk, history>>
      /\ UNCHANGED <<server, serverPipe, traces>>
  BY DEF NodeInv, Shape, HandleSignal
<1>2. OfWorkers' /\ \A v \in Workers : Held(v)'
  BY <1>1, HeldKept DEF Typed, RegionInv
<1>3. Flushed' /\ Stored'
  BY <1>1 DEF Typed, RegionInv, Flushed, Stored, flusherPipe, disk, history
<1>4. Arriving'
  BY <1>1, Dispatched DEF Typed, RegionInv, Arriving
<1> QED
  BY <1>1, <1>2, <1>3, <1>4 DEF Typed, RegionInv, server, traces

(* A step of a worker or of the flusher. *)
LEMMA TypedWorker ==
  ASSUME NodeInv, Typed, NEW w \in Workers, NodeWorker(w)
  PROVE  Typed'
<1>1. Worker(w)
  BY DEF NodeWorker, Worker
<1>2. RegionInv'
  BY <1>1, RegionStep DEF Typed, Next
<1>3. UNCHANGED <<server, engine, sent>>
  BY DEF NodeWorker, nodeVars, traces
<1>4. handled' \in [Regions -> Seq(Ids)]
  <2>1. CASE UNCHANGED nodeVars
    BY <2>1 DEF Typed, nodeVars, traces
  <2>2. CASE /\ Handle(w)
             /\ handled' = [handled EXCEPT ![Head(enginePipe[w]).region] =
                              Append(@, Head(enginePipe[w]).id)]
    <3>1. Head(enginePipe[w]) \in Requested
      BY <2>2, Stages, HeadTail DEF Handle
    <3> QED
      BY <2>2, <3>1, RequestParts DEF Typed
  <2> QED
    BY <2>1, <2>2 DEF NodeWorker
<1> QED
  BY <1>2, <1>3, <1>4 DEF Typed, server, engine

LEMMA TypedStep ==
  ASSUME NodeInv, Typed, [NodeNext]_allVars
  PROVE  Typed'
<1>1. CASE NodeFlusher \/ UNCHANGED allVars
  <2>1. RegionInv'
    BY <1>1, RegionStep DEF Typed, Next, NodeFlusher, allVars
  <2> QED
    BY <1>1, <2>1 DEF Typed, NodeFlusher, allVars, nodeVars, server, engine, traces
<1>2. CASE parseRequests
  BY <1>2, TypedParse, TypedServer DEF parseRequests
<1>3. CASE ReceiveBatch \/ SendRegionRequest \/ TakeSignal
  BY <1>3, TypedServer
<1>4. CASE HandleSignal
  BY <1>4, TypedDispatch
<1>5. CASE \E w \in Workers : NodeWorker(w)
  BY <1>5, TypedWorker
<1> QED
  BY <1>1, <1>2, <1>3, <1>4, <1>5 DEF NodeNext

(* Both invariants hold in every state of the node. *)
LEMMA TypedAlways == NodeSpec => [](NodeInv /\ Typed)
<1>1. NodeInit => NodeInv /\ Typed
  BY NodeInitInv, TypedInit
<1>2. NodeInv /\ Typed /\ [NodeNext]_<<vars, nodeVars>> => (NodeInv /\ Typed)'
  BY NodeStep, TypedStep DEF allVars
<1> QED
  BY <1>1, <1>2, PTL DEF NodeSpec

(* Every variable of the node keeps its type, those of the workers and of  *)
(* the flusher behind the pipeline included; no batch is longer than a     *)
(* line and no pipe fuller than it can be, for any number of workers.      *)
THEOREM NodeTypes == NodeSpec => []NodeTypeOK
<1>1. NodeInv /\ Typed => NodeTypeOK
  BY InvTypes DEF NodeInv, Shape, Typed, NodeTypeOK
<1> QED
  BY <1>1, TypedAlways, PTL
-----------------------------------------------------------------------------
(* What has still to reach a worker is numbered on from what has.          *)
Awaited ==
  /\ handedOver \in Nat
  /\ engineSignal # None => engineSignal \in RequestsWith(handedOver + 1)
  /\ \A i \in 1 .. Len(serverPipe) :
       serverPipe[i] \in RequestsWith(requests - Len(batch) - Len(serverPipe) + i)
  /\ \A i \in 1 .. Len(batch) : batch[i] \in RequestsWith(requests - Len(batch) + i)

(* The lengths of the stages and what they add up to. *)
LEMMA StageLengths ==
  ASSUME NodeInv
  PROVE  /\ requests \in Nat /\ unread \in Nat /\ requests + unread <= MaxRequests
         /\ Len(batch) \in Nat /\ Len(serverPipe) \in Nat
         /\ Len(inHand) = IF engineSignal = None THEN 0 ELSE 1
         /\ handedOver = requests - Len(batch) - Len(serverPipe) - Len(inHand)
         /\ handedOver \in Int
<1>1. Len(inHand) = IF engineSignal = None THEN 0 ELSE 1
  BY DEF inHand, Optional
<1>2. /\ requests \in Nat /\ unread \in Nat /\ requests + unread <= MaxRequests
      /\ Len(batch) \in Nat /\ Len(serverPipe) \in Nat
  BY Stages DEF NodeInv, Shape
<1>3. handedOver = requests - Len(batch) - Len(serverPipe) - Len(inHand)
  BY DEF handedOver, inHand
<1> QED
  BY <1>1, <1>2, <1>3

LEMMA AwaitedInit == NodeInit => Awaited
BY DEF NodeInit, Init, Awaited, handedOver, Optional

(* The server numbers one request more.                                    *)
LEMMA AwaitedParsed ==
  ASSUME NodeInv, Awaited, NEW q \in NextRequests, ParseRequest(q)
  PROVE  Awaited' /\ handedOver' = handedOver
<1>1. /\ requests' = q.id /\ batch' = Append(batch, q) /\ unread > 0
      /\ serverPipe' = serverPipe /\ engineSignal' = engineSignal
  BY DEF ParseRequest, engine
<1>2. /\ requests \in Nat /\ Len(batch) \in Nat /\ Len(serverPipe) \in Nat
      /\ requests + 1 \in 1 .. MaxRequests /\ batch \in Seq(Requested)
  BY <1>1, StageLengths, Stages, WorkerAssumption
<1>3. q \in Requested /\ q.id = requests + 1 /\ q \in RequestsWith(requests + 1)
  BY <1>2, RequestShape DEF NextRequests
<1>4. /\ requests' = requests + 1 /\ Len(batch') = Len(batch) + 1
      /\ batch'[Len(batch) + 1] = q /\ \A i \in 1 .. Len(batch) : batch'[i] = batch[i]
  BY <1>1, <1>2, <1>3, AppendShape
<1>5. handedOver' = handedOver
  <2>1. Optional(engineSignal)' = Optional(engineSignal)
    BY <1>1 DEF Optional
  <2>2. requests' - Len(batch') = requests - Len(batch)
    BY <1>2, <1>4
  <2> QED
    BY <1>1, <2>1, <2>2 DEF handedOver
<1>6. requests' - Len(batch') = requests - Len(batch)
  BY <1>2, <1>4
<1>7. ASSUME NEW i \in 1 .. Len(batch')
      PROVE  batch'[i] \in RequestsWith(requests' - Len(batch') + i)
  <2>1. CASE i = Len(batch) + 1
    <3>1. requests' - Len(batch') + i = requests + 1
      BY <1>2, <1>4, <2>1
    <3> QED
      BY <1>3, <1>4, <2>1, <3>1
  <2>2. CASE i \in 1 .. Len(batch)
    BY <1>4, <1>6, <2>2 DEF Awaited
  <2> QED
    BY <1>2, <1>4, <2>1, <2>2
<1> QED
  BY <1>1, <1>5, <1>6, <1>7 DEF Awaited

(* A signal goes from the batch into the pipe. *)
LEMMA AwaitedSent ==
  ASSUME NodeInv, Awaited, SendRegionRequest
  PROVE  Awaited' /\ handedOver' = handedOver
<1> DEFINE n == requests - Len(batch)
<1>1. /\ requests \in Nat /\ Len(batch) \in Nat /\ Len(serverPipe) \in Nat
      /\ batch \in Seq(Requested) /\ serverPipe \in Seq(Requested) /\ n \in Int
  BY StageLengths, Stages
<1>2. batch # << >> /\ Head(batch).region \in regionEngineMap
  BY <1>1, MoveKnown DEF NodeInv, Placed, SendRegionRequest
<1>3. /\ batch' = Tail(batch) /\ serverPipe' = Append(serverPipe, Head(batch))
      /\ requests' = requests /\ engineSignal' = engineSignal
  BY <1>2 DEF SendRegionRequest, vars
<1>4. /\ Len(batch') = Len(batch) - 1 /\ Len(batch) # 0
      /\ \A i \in 1 .. Len(batch) - 1 : batch'[i] = batch[i + 1]
      /\ Len(serverPipe') = Len(serverPipe) + 1 /\ serverPipe'[Len(serverPipe) + 1] = batch[1]
      /\ \A i \in 1 .. Len(serverPipe) : serverPipe'[i] = serverPipe[i]
  BY <1>1, <1>2, <1>3, HeadTail, AppendShape
<1>5. /\ requests' - Len(batch') = n + 1
      /\ requests' - Len(batch') - Len(serverPipe') = n - Len(serverPipe)
  BY <1>1, <1>3, <1>4
<1>6. \A i \in 1 .. Len(batch) : batch[i] \in RequestsWith(n + i)
  BY DEF Awaited
<1>7. \A i \in 1 .. Len(serverPipe) : serverPipe[i] \in RequestsWith(n - Len(serverPipe) + i)
  BY DEF Awaited
<1>8. handedOver' = handedOver
  <2>1. Optional(engineSignal)' = Optional(engineSignal)
    BY <1>3 DEF Optional
  <2> QED
    BY <1>5, <2>1 DEF handedOver
<1> HIDE DEF n
<1>9. ASSUME NEW i \in 1 .. Len(batch')
      PROVE  batch'[i] \in RequestsWith(requests' - Len(batch') + i)
  <2>1. i + 1 \in 1 .. Len(batch) /\ batch'[i] = batch[i + 1]
    BY <1>1, <1>4
  <2>2. requests' - Len(batch') + i = n + (i + 1)
    BY <1>1, <1>5
  <2> QED
    BY <1>6, <2>1, <2>2
<1>10. ASSUME NEW i \in 1 .. Len(serverPipe')
       PROVE  serverPipe'[i] \in RequestsWith(requests' - Len(batch') - Len(serverPipe') + i)
  <2>1. CASE i = Len(serverPipe) + 1
    <3>1. requests' - Len(batch') - Len(serverPipe') + i = n + 1 /\ 1 \in 1 .. Len(batch)
      BY <1>1, <1>4, <1>5, <2>1
    <3> QED
      BY <1>4, <1>6, <2>1, <3>1
  <2>2. CASE i \in 1 .. Len(serverPipe)
    BY <1>4, <1>5, <1>7, <2>2
  <2> QED
    BY <1>1, <1>4, <2>1, <2>2
<1> QED
  BY <1>3, <1>8, <1>9, <1>10 DEF Awaited

(* The engine takes a signal out of the pipe. *)
LEMMA AwaitedTaken ==
  ASSUME NodeInv, Awaited, TakeSignal
  PROVE  Awaited' /\ handedOver' = handedOver
<1> DEFINE n == requests - Len(batch)
<1>1. /\ requests \in Nat /\ Len(batch) \in Nat /\ Len(serverPipe) \in Nat
      /\ serverPipe \in Seq(Requested) /\ n \in Int
  BY StageLengths, Stages
<1>2. /\ serverPipe # << >> /\ engineSignal = None
      /\ serverPipe' = Tail(serverPipe) /\ engineSignal' = Head(serverPipe)
      /\ batch' = batch /\ requests' = requests
  BY DEF TakeSignal, vars, server
<1>3. /\ Len(serverPipe') = Len(serverPipe) - 1 /\ Len(serverPipe) # 0
      /\ \A i \in 1 .. Len(serverPipe) - 1 : serverPipe'[i] = serverPipe[i + 1]
      /\ engineSignal' = serverPipe[1] /\ engineSignal' # None
  BY <1>1, <1>2, HeadTail, RequestParts
<1>4. handedOver = n - Len(serverPipe) /\ handedOver' = handedOver
  <2>1. Optional(engineSignal) = << >> /\ Optional(engineSignal)' = <<engineSignal'>>
    BY <1>2, <1>3 DEF Optional
  <2>2. handedOver = requests - Len(batch) - Len(serverPipe) - 0
    BY <2>1 DEF handedOver
  <2>3. handedOver' = requests' - Len(batch') - Len(serverPipe') - 1
    BY <2>1 DEF handedOver
  <2> QED
    BY <1>1, <1>2, <1>3, <2>2, <2>3
<1>5. \A i \in 1 .. Len(serverPipe) : serverPipe[i] \in RequestsWith(n - Len(serverPipe) + i)
  BY DEF Awaited
<1>6. requests' - Len(batch') = n
  BY <1>2
<1> HIDE DEF n
<1>7. engineSignal' \in RequestsWith(handedOver' + 1)
  BY <1>1, <1>3, <1>4, <1>5
<1>8. ASSUME NEW i \in 1 .. Len(serverPipe')
      PROVE  serverPipe'[i] \in RequestsWith(requests' - Len(batch') - Len(serverPipe') + i)
  <2>1. i + 1 \in 1 .. Len(serverPipe) /\ serverPipe'[i] = serverPipe[i + 1]
    BY <1>1, <1>3
  <2>2. requests' - Len(batch') - Len(serverPipe') + i = n - Len(serverPipe) + (i + 1)
    BY <1>1, <1>3, <1>6
  <2> QED
    BY <1>5, <2>1, <2>2
<1> QED
  BY <1>2, <1>4, <1>7, <1>8 DEF Awaited

(* The engine hands its signal over: one request more has reached a worker.*)
LEMMA AwaitedHandedOver ==
  ASSUME NodeInv, Awaited, HandleSignal
  PROVE  /\ Awaited' /\ handedOver' = handedOver + 1 /\ handedOver < MaxRequests
         /\ engineSignal \in RequestsWith(handedOver + 1)
<1>1. /\ engineSignal # None /\ engineSignal' = None
      /\ UNCHANGED <<requests, batch, serverPipe>>
  BY DEF HandleSignal, server
<1>2. /\ requests \in Nat /\ requests <= MaxRequests /\ MaxRequests \in Nat
      /\ Len(batch) \in Nat /\ Len(serverPipe) \in Nat
      /\ handedOver = requests - Len(batch) - Len(serverPipe) - 1
  <2>1. MaxRequests \in Nat
    BY WorkerAssumption
  <2>2. Len(inHand) = 1
    BY <1>1, StageLengths
  <2> QED
    BY <2>1, <2>2, StageLengths
<1>3. handedOver' = handedOver + 1
  <2>1. Optional(engineSignal)' = << >>
    BY <1>1 DEF Optional
  <2>2. handedOver' = requests' - Len(batch') - Len(serverPipe') - 0
    BY <2>1 DEF handedOver
  <2> QED
    BY <1>1, <1>2, <2>2
<1>4. handedOver < MaxRequests
  BY <1>2
<1> QED
  BY <1>1, <1>3, <1>4 DEF Awaited

(* Every other step leaves the stages alone. *)
LEMMA AwaitedKept ==
  ASSUME Awaited, UNCHANGED <<requests, batch, serverPipe, engineSignal>>
  PROVE  Awaited' /\ handedOver' = handedOver
<1>1. handedOver' = handedOver
  BY DEF handedOver, Optional
<1> QED
  BY <1>1 DEF Awaited
-----------------------------------------------------------------------------
(* What a step of a worker or of the flusher is in the node it is behind.  *)
BehindStep == [Behind!Next]_(Behind!vars)

LEMMA BehindInit == NodeInit => Behind!Init
<1> SUFFICES ASSUME NodeInit
             PROVE  Behind!Init
  OBVIOUS
<1>1. handedOver = 0
  <2>1. /\ requests = 0 /\ Len(batch) = 0 /\ Len(serverPipe) = 0
        /\ Len(Optional(engineSignal)) = 0
    BY DEF NodeInit, Init, Optional
  <2> QED
    BY <2>1 DEF handedOver
<1> QED
  BY <1>1 DEF NodeInit, Init, NewMemtable, Workers, Behind!Init, Behind!Workers

LEMMA BehindStutters ==
  ASSUME handedOver' = handedOver, UNCHANGED workers
  PROVE  BehindStep
BY DEF BehindStep, workers, contexts, flusherPipe, disk, history,
       Behind!vars, Behind!contexts, Behind!flusherPipe, Behind!disk, Behind!history

(* The engine hands over a request, which may create what exists.          *)
LEMMA BehindEngine ==
  ASSUME NodeInv, Awaited, HandleSignal
  PROVE  BehindStep
<1>1. /\ handedOver' = handedOver + 1 /\ handedOver < MaxRequests
      /\ engineSignal \in RequestsWith(handedOver + 1)
  BY AwaitedHandedOver
<1>2. engineSignal \in Behind!NextRequests
  BY <1>1 DEF RequestsWith, Write, Admin, Behind!NextRequests, Behind!RequestsWith,
              Behind!Write, Behind!Admin
<1>3. Behind!Dispatch(engineSignal)
  BY DEF HandleSignal, Dispatch, WorkerOf, Behind!Dispatch, Behind!WorkerOf
<1>4. UNCHANGED <<Behind!contexts, put, Behind!flusherPipe, flushing, Behind!disk,
                  Behind!history>>
  BY DEF HandleSignal, contexts, flusherPipe, disk, history,
         Behind!contexts, Behind!flusherPipe, Behind!disk, Behind!history
<1>5. Behind!Engine
  BY <1>1, <1>2, <1>3, <1>4 DEF Behind!Engine
<1> QED
  BY <1>5 DEF BehindStep, Behind!Next

(* A worker takes up a signal. *)
LEMMA BehindHandle ==
  ASSUME handedOver' = handedOver, NEW w \in Workers, Handle(w)
  PROVE  BehindStep
<1> DEFINE q == Head(enginePipe[w])
<1>1. enginePipe[w] # << >>
  BY DEF Handle
<1>2. Take(w) => Behind!Take(w)
  BY DEF Take, Behind!Take
<1> USE <1>2 DEF contexts, flusherPipe, disk, history, Open, Closed, Behind!contexts,
             Behind!flusherPipe, Behind!disk, Behind!history, Behind!Open, Behind!Closed
<1>3. CASE HandleWrite(w, q)
  <2>1. Behind!HandleWrite(w, q)
    BY <1>3, ZenonT(30)
    DEF HandleWrite, Fits, WriteRow, Written, Row, Behind!HandleWrite, Behind!Fits,
                Behind!WriteRow, Behind!Written, Behind!Row
  <2> QED
    BY <1>1, <2>1, ZenonT(30) DEF BehindStep, Workers, Behind!Workers, Behind!Next, Behind!Worker,
                      Behind!Handle
<1>4. CASE HandleWriteFull(w, q)
  <2>1. Behind!HandleWriteFull(w, q)
    BY <1>4 DEF HandleWriteFull, Fits, SendFlushSignal, Signal, NewMemtable,
                Behind!HandleWriteFull, Behind!Fits, Behind!SendFlushSignal, Behind!Signal,
                Behind!NewMemtable
  <2> QED
    BY <1>1, <2>1 DEF BehindStep, Workers, Behind!Workers, Behind!Next, Behind!Worker,
                      Behind!Handle
<1>5. CASE Create(w, q)
  <2>1. Behind!Create(w, q)
    BY <1>5 DEF Create, CanCreate, Exists, Workers, Behind!Create, Behind!CanCreate,
                Behind!Exists, Behind!Workers
  <2> QED
    BY <1>1, <2>1 DEF BehindStep, Workers, Behind!Workers, Behind!Next, Behind!Worker,
                      Behind!Handle
<1>6. CASE OpenRegion(w, q)
  <2>1. Behind!OpenRegion(w, q)
    BY <1>6 DEF OpenRegion, CanOpen, NewMemtable, Behind!OpenRegion, Behind!CanOpen,
                Behind!NewMemtable
  <2> QED
    BY <1>1, <2>1 DEF BehindStep, Workers, Behind!Workers, Behind!Next, Behind!Worker,
                      Behind!Handle
<1>7. CASE CloseEmpty(w, q)
  <2>1. Behind!CloseEmpty(w, q)
    BY <1>7 DEF CloseEmpty, CanClose, HasRows, MoveToClosed, Behind!CloseEmpty,
                Behind!CanClose, Behind!HasRows, Behind!MoveToClosed
  <2> QED
    BY <1>1, <2>1 DEF BehindStep, Workers, Behind!Workers, Behind!Next, Behind!Worker,
                      Behind!Handle
<1>8. CASE CloseFull(w, q)
  <2>1. Behind!CloseFull(w, q)
    BY <1>8 DEF CloseFull, CanClose, HasRows, SendFlushSignal, Signal, NewMemtable,
                Behind!CloseFull, Behind!CanClose, Behind!HasRows, Behind!SendFlushSignal,
                Behind!Signal, Behind!NewMemtable
  <2> QED
    BY <1>1, <2>1 DEF BehindStep, Workers, Behind!Workers, Behind!Next, Behind!Worker,
                      Behind!Handle
<1>9. CASE Drop(w, q)
  <2>1. Behind!Drop(w, q)
    BY <1>9 DEF Drop, CanDrop, Behind!Drop, Behind!CanDrop
  <2> QED
    BY <1>1, <2>1 DEF BehindStep, Workers, Behind!Workers, Behind!Next, Behind!Worker,
                      Behind!Handle
<1>10. CASE Ignore(w, q)
  <2>1. Behind!Ignore(w, q)
    BY <1>10 DEF Ignore, CanCreate, CanOpen, CanClose, CanDrop, Behind!Ignore,
                 Behind!CanCreate, Behind!CanOpen, Behind!CanClose, Behind!CanDrop
  <2> QED
    BY <1>1, <2>1 DEF BehindStep, Workers, Behind!Workers, Behind!Next, Behind!Worker,
                      Behind!Handle
<1> QED
  BY <1>3, <1>4, <1>5, <1>6, <1>7, <1>8, <1>9, <1>10 DEF Handle

(* A worker goes on with a put. *)
LEMMA BehindPut ==
  ASSUME handedOver' = handedOver, NEW w \in Workers, PutStore(w) \/ PutReturn(w)
  PROVE  BehindStep
<1> USE DEF contexts, disk, history, Behind!contexts, Behind!disk, Behind!history
<1>1. PutStore(w) => Behind!PutStore(w)
  BY ZenonT(30) DEF PutStore, RingFull, Behind!PutStore, Behind!RingFull
<1>2. PutReturn(w) => Behind!PutReturn(w)
  BY ZenonT(30)
  DEF PutReturn, WriteRow, MoveToClosed, Written, Row, Behind!PutReturn, Behind!WriteRow,
         Behind!MoveToClosed, Behind!Written, Behind!Row
<1> QED
  BY <1>1, <1>2 DEF BehindStep, Workers, Behind!Workers, Behind!Next, Behind!Worker

(* The flusher. *)
LEMMA BehindFlusher ==
  ASSUME handedOver' = handedOver, Flusher
  PROVE  BehindStep
<1> USE DEF contexts, flusherPipe, disk, history, Behind!contexts, Behind!flusherPipe,
            Behind!disk, Behind!history
<1>1. GetFlush => Behind!GetFlush
  BY DEF GetFlush, Behind!GetFlush
<1>2. HandleFlush => Behind!HandleFlush
  BY DEF HandleFlush, Block, Behind!HandleFlush, Behind!Block
<1>3. FlushFails => Behind!FlushFails
  BY DEF FlushFails, Behind!FlushFails
<1> QED
  BY <1>1, <1>2, <1>3 DEF Flusher, BehindStep, Behind!Next, Behind!Flusher

(* Every step of the node keeps the numbering and is one of the workers    *)
(* and the flusher behind it, the handing over of a request, or none.      *)
LEMMA AwaitedStep ==
  ASSUME NodeInv, Awaited, [NodeNext]_allVars
  PROVE  Awaited' /\ BehindStep
<1>1. CASE ReceiveBatch \/ RejectRequest \/ UNCHANGED allVars
  <2>1. UNCHANGED <<requests, batch, serverPipe, engineSignal, workers>>
    BY <1>1 DEF ReceiveBatch, RejectRequest, allVars, vars, workers, nodeVars, server, engine
  <2> QED
    BY <2>1, AwaitedKept, BehindStutters
<1>2. ASSUME NEW q \in NextRequests, ParseRequest(q)
      PROVE  Awaited' /\ BehindStep
  <2>1. UNCHANGED workers
    BY <1>2 DEF ParseRequest
  <2> QED
    BY <1>2, <2>1, AwaitedParsed, BehindStutters
<1>3. CASE SendRegionRequest
  <2>1. UNCHANGED workers
    BY <1>3 DEF SendRegionRequest, vars, workers
  <2> QED
    BY <1>3, <2>1, AwaitedSent, BehindStutters
<1>4. CASE TakeSignal
  <2>1. UNCHANGED workers
    BY <1>4 DEF TakeSignal, vars, workers
  <2> QED
    BY <1>4, <2>1, AwaitedTaken, BehindStutters
<1>5. CASE HandleSignal
  BY <1>5, AwaitedHandedOver, BehindEngine
<1>6. CASE NodeFlusher
  <2>1. UNCHANGED <<requests, batch, serverPipe, engineSignal>>
    BY <1>6 DEF NodeFlusher, Flusher, GetFlush, HandleFlush, FlushFails, nodeVars, server, engine
  <2> QED
    BY <1>6, <2>1, AwaitedKept, BehindFlusher DEF NodeFlusher
<1>7. ASSUME NEW w \in Workers, NodeWorker(w)
      PROVE  Awaited' /\ BehindStep
  <2>1. UNCHANGED <<batch, serverPipe, engineSignal>>
    BY <1>7 DEF NodeWorker, nodeVars, server, engine
  <2>2. requests' = requests
    <3>1. CASE Handle(w)
      BY <3>1 DEF Handle, HandleWrite, HandleWriteFull, Create, OpenRegion, CloseEmpty,
                  CloseFull, Drop, Ignore, Take
    <3>2. CASE PutStore(w) \/ PutReturn(w)
      BY <3>2 DEF PutStore, PutReturn
    <3> QED
      BY <1>7, <3>1, <3>2 DEF NodeWorker
  <2>3. Awaited' /\ handedOver' = handedOver
    BY <2>1, <2>2, AwaitedKept
  <2> QED
    BY <1>7, <2>3, BehindHandle, BehindPut DEF NodeWorker
<1> QED
  BY <1>1, <1>2, <1>3, <1>4, <1>5, <1>6, <1>7 DEF NodeNext, parseRequests

(* The node implements RegionWorker, for any number of workers and regions *)
(* and any kinds of request: every request a worker is handed is the next  *)
(* in number, none is lost, doubled or overtaken between the server's      *)
(* batch and the worker's pipe, and nothing else touches what workers and  *)
(* flusher own (parseRequests, sendRegionRequest, MitoEngine::run).        *)
THEOREM FeedsWorkersAlways == NodeSpec => FeedsWorkers
<1>1. NodeInit => NodeInv /\ Awaited /\ Behind!Init
  BY NodeInitInv, AwaitedInit, BehindInit
<1>2. NodeInv /\ Awaited /\ [NodeNext]_<<vars, nodeVars>> => (NodeInv /\ Awaited)'
  BY NodeStep, AwaitedStep DEF allVars
<1>3. NodeInv /\ Awaited /\ [NodeNext]_<<vars, nodeVars>> => [Behind!Next]_(Behind!vars)
  BY AwaitedStep DEF allVars, BehindStep
<1> QED
  BY <1>1, <1>2, <1>3, PTL DEF NodeSpec, FeedsWorkers, Behind!Spec
-----------------------------------------------------------------------------
(* The invariant of the refinement of the store, with the types it needs.  *)
NodeStoreInv == NodeInv /\ Typed /\ StoreInv

(* Before the workers a step moves requests alone: no step of the store.   *)
LEMMA StoreUntouched ==
  ASSUME WorkerCount = 1, StoreInv, RegionInv',
         UNCHANGED <<contexts, put, flusherPipe, flushing, disk>>
  PROVE  StoreInv' /\ StoreStep
<1>1. UNCHANGED <<put, flusherPipe, flushing>> /\ UNCHANGED <<contexts, files>>
      /\ failures' = failures
  BY DEF disk
<1>2. RingInv' /\ Kept
  BY <1>1, RingUntouched DEF StoreInv
<1>3. StoreStep
  BY <1>1, <1>2, StillRefines DEF StoreInv
<1> QED
  BY <1>1, <1>2, <1>3 DEF StoreInv, FailuresCounted

LEMMA NodeStoreStep ==
  ASSUME WorkerCount = 1, MaxFailures = 0, NodeStoreInv, [NodeNext]_allVars
  PROVE  NodeStoreInv' /\ StoreStep
<1>1. NodeInv' /\ Typed' /\ RegionInv'
  BY NodeStep, TypedStep DEF NodeStoreInv, Typed
<1>2. CASE NodeFlusher \/ (\E w \in Workers : NodeWorker(w)) \/ UNCHANGED allVars
  <2>1. [Next]_vars
    BY <1>2 DEF NodeFlusher, NodeWorker, Next, Worker, allVars
  <2> QED
    BY <1>1, <2>1, StoreInvStep DEF NodeStoreInv
<1>3. CASE ReceiveBatch \/ parseRequests \/ SendRegionRequest \/ TakeSignal \/ HandleSignal
  <2>1. UNCHANGED <<contexts, put, flusherPipe, flushing, disk>>
    BY <1>3 DEF ReceiveBatch, parseRequests, RejectRequest, ParseRequest, SendRegionRequest,
                TakeSignal, HandleSignal, vars, workers
  <2> QED
    BY <1>1, <2>1, StoreUntouched DEF NodeStoreInv
<1> QED
  BY <1>2, <1>3 DEF NodeNext

(* From the line a client writes to the block in the file, with one worker *)
(* and flushes that do not fail, the whole node is a region store: reading *)
(* and parsing of lines, the batch, the pipes and the engine add nothing   *)
(* to a log and take nothing from it (RegionServer, MitoEngine,            *)
(* RegionWorker and Flusher together).                                     *)
THEOREM NodeIsStore ==
  ASSUME WorkerCount = 1, MaxFailures = 0
  PROVE  NodeSpec => ImplementsStore
<1>1. NodeInit => NodeStoreInv /\ Store!Init
  BY NodeInitInv, TypedInit, StoreInit DEF NodeStoreInv, NodeInit
<1>2. NodeStoreInv /\ [NodeNext]_<<vars, nodeVars>> => NodeStoreInv' /\ StoreStep
  BY NodeStoreStep DEF allVars
<1> QED
  BY <1>1, <1>2, PTL DEF NodeSpec, ImplementsStore, Store!Spec, StoreStep
=============================================================================
