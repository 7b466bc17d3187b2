--------------------------- MODULE IndexNodeProofs --------------------------
(* Proofs about IndexNode, for any hash functions, lengths, datagrams and  *)
(* queries: the filter never hides what a list holds, an answer is what a  *)
(* list has for its key, and every entry received is accounted for.  After *)
(* them those about Heartbeat, which such a node takes part in.            *)
EXTENDS IndexNode, Heartbeat, SequenceTheorems, FiniteSetTheorems, WellFoundedInduction, TLAPS

-----------------------------------------------------------------------------
(* Induction over the natural numbers, and what it says of functions       *)
(* defined by recursion.  A property is stated as the set of numbers that  *)
(* have it, and the step of a recursion is a function, so that each use    *)
(* cites a fact about sets.                                                *)

(* A set of natural numbers has a least one. *)
LEMMA Least ==
  ASSUME NEW T, T \subseteq Nat, T # {}
  PROVE  \E x \in T : \A y \in T : x <= y
<1> DEFINE R == {p \in Nat \X Nat : p[1] < p[2]}
<1>1. IsWellFoundedOn(R, Nat)
  BY NatLessThanWellFounded DEF OpToRel
<1>2. \A x, y \in Nat : y < x => <<y, x>> \in R
  OBVIOUS
<1> HIDE DEF R
<1>3. PICK x \in T : \A y \in T : ~(<<y, x>> \in R)
  BY <1>1, WFMin
<1>4. \A y \in T : ~(y < x)
  BY <1>2, <1>3
<1> QED
  BY <1>4

(* What holds of 0 and of the successor of each number it holds of, holds  *)
(* of all of them.                                                         *)
LEMMA NatInSet ==
  ASSUME NEW S, 0 \in S, \A n \in Nat : n \in S => n + 1 \in S
  PROVE  \A n \in Nat : n \in S
<1> DEFINE T == {n \in Nat : n \notin S}
<1> SUFFICES ASSUME T # {} PROVE FALSE
  OBVIOUS
<1>1. T \subseteq Nat
  OBVIOUS
<1>2. PICK x \in T : \A y \in T : x <= y
  <2> HIDE DEF T
  <2> QED
    BY <1>1, Least
<1>3. x # 0
  OBVIOUS
<1>4. x - 1 \in Nat /\ x - 1 \notin T /\ (x - 1) + 1 = x
  BY <1>2, <1>3
<1> QED
  BY <1>4

(* f is what recursion over 1 .. n makes of its first value c and its step.*)
Recurs(f, n, c, step) ==
  f = [i \in 0 .. n |-> IF i = 0 THEN c ELSE step[<<i, f[i - 1]>>]]

(* There is such a function. *)
LEMMA RecursionDefines ==
  ASSUME NEW n \in Nat, NEW T, NEW c \in T, NEW step \in [(1 .. n) \X T -> T]
  PROVE  \E f \in [0 .. n -> T] : Recurs(f, n, c, step)
<1> DEFINE Upto(m, f) == f[0] = c /\ \A i \in 1 .. m : f[i] = step[<<i, f[i - 1]>>]
           S == {m \in Nat : m <= n => \E f \in [0 .. m -> T] : Upto(m, f)}
<1>1. 0 \in S
  <2>1. [i \in 0 .. 0 |-> c] \in [0 .. 0 -> T] /\ Upto(0, [i \in 0 .. 0 |-> c])
    OBVIOUS
  <2> HIDE DEF Upto
  <2> QED
    BY <2>1
<1>2. ASSUME NEW m \in Nat, m \in S
      PROVE  m + 1 \in S
  <2> SUFFICES ASSUME m + 1 <= n
               PROVE  \E f \in [0 .. m + 1 -> T] : Upto(m + 1, f)
    OBVIOUS
  <2>1. PICK g \in [0 .. m -> T] : Upto(m, g)
    BY <1>2
  <2> DEFINE x == step[<<m + 1, g[m]>>]
             f == [i \in 0 .. m + 1 |-> IF i = m + 1 THEN x ELSE g[i]]
  <2>2. x \in T
    <3>1. m + 1 \in 1 .. n /\ g[m] \in T
      OBVIOUS
    <3> QED
      BY <3>1
  <2>3. f \in [0 .. m + 1 -> T]
    BY <2>2
  <2>4. /\ f[0] = g[0] /\ f[m + 1] = x
        /\ \A i \in 1 .. m : f[i] = g[i] /\ f[i - 1] = g[i - 1]
        /\ f[(m + 1) - 1] = g[m]
    OBVIOUS
  <2>5. \A i \in 1 .. m + 1 : i \in 1 .. m \/ i = m + 1
    OBVIOUS
  <2>6. Upto(m + 1, f)
    <3> HIDE DEF f
    <3> QED
      BY <2>1, <2>4, <2>5
  <2> QED
    BY <2>3, <2>6
<1>3. n \in S
  <2> HIDE DEF S
  <2> QED
    BY <1>1, <1>2, NatInSet
<1>4. PICK f \in [0 .. n -> T] : Upto(n, f)
  BY <1>3
<1>5. \A i \in 0 .. n : f[i] = IF i = 0 THEN c ELSE step[<<i, f[i - 1]>>]
  BY <1>4
<1> QED
  BY <1>5 DEF Recurs

(* g begins with c and goes on by the step up to n, as long as its values  *)
(* are in T.                                                               *)
Follows(g, n, T, c, step) ==
  /\ g[0] = c
  /\ \A i \in 1 .. n : g[i - 1] \in T => g[i] = step[<<i, g[i - 1]>>]

(* Then all of them are. *)
LEMMA RecursionType ==
  ASSUME NEW n \in Nat, NEW T, NEW c \in T, NEW step \in [(1 .. n) \X T -> T],
         NEW g, Follows(g, n, T, c, step)
  PROVE  \A i \in 0 .. n : g[i] \in T
<1> DEFINE S == {i \in Nat : i <= n => g[i] \in T}
<1>1. 0 \in S
  BY DEF Follows
<1>2. ASSUME NEW i \in Nat, i \in S
      PROVE  i + 1 \in S
  <2> SUFFICES ASSUME i + 1 <= n
               PROVE  g[i + 1] \in T
    OBVIOUS
  <2>1. g[i] \in T /\ i + 1 \in 1 .. n /\ (i + 1) - 1 = i
    BY <1>2
  <2>2. step[<<i + 1, g[i]>>] \in T
    BY <2>1
  <2> QED
    BY <2>1, <2>2 DEF Follows
<1>3. \A i \in Nat : i \in S
  <2> HIDE DEF S
  <2> QED
    BY <1>1, <1>2, NatInSet
<1> QED
  BY <1>3

(* Two functions that begin alike and go on alike are alike. *)
LEMMA RecursionAgrees ==
  ASSUME NEW n \in Nat, NEW f, NEW g, f[0] = g[0],
         \A i \in 1 .. n : f[i - 1] = g[i - 1] => f[i] = g[i]
  PROVE  f[n] = g[n]
<1> DEFINE S == {i \in Nat : i <= n => f[i] = g[i]}
<1>1. 0 \in S
  OBVIOUS
<1>2. ASSUME NEW i \in Nat, i \in S
      PROVE  i + 1 \in S
  <2> SUFFICES ASSUME i + 1 <= n
               PROVE  f[i + 1] = g[i + 1]
    OBVIOUS
  <2>1. i + 1 \in 1 .. n /\ (i + 1) - 1 = i /\ f[i] = g[i]
    BY <1>2
  <2> QED
    BY <2>1
<1>3. n \in S
  <2> HIDE DEF S
  <2> QED
    BY <1>1, <1>2, NatInSet
<1> QED
  BY <1>3

-----------------------------------------------------------------------------
(* The keys a type has. *)
KeyOf(t) == IF t \in PortTypes THEN Nat
            ELSE IF t \in V4Types THEN Addresses(V4Bytes) ELSE Addresses(V6Bytes)

(* A byte of an address is one, and its pair a row of the square. *)
LEMMA PairFound ==
  ASSUME NEW bitset, NEW offset, NEW n \in Nat, NEW a \in Addresses(n), NEW i \in 1 .. n,
         NEW high, offset + Pair(high, a[i]) \in bitset
  PROVE  HasPairOf(bitset, high, offset)
<1>1. a \in Seq(0 .. SliceCount - 1) /\ Len(a) = n
  BY DEF Addresses
<1>2. a[i] \in 0 .. SliceCount - 1
  <2> DEFINE Byte == 0 .. SliceCount - 1
  <2>1. \A s \in Seq(Byte) : \A j \in 1 .. Len(s) : s[j] \in Byte
    <3> HIDE DEF Byte
    <3> QED
      OBVIOUS
  <2> QED
    BY <1>1, <2>1
<1> QED
  BY <1>2 DEF HasPairOf

(* What insertIPv4 sets for an address, checkIPv4 finds by every prefix.   *)
LEMMA V4Found ==
  ASSUME NEW bitset, NEW offset, NEW a \in Addresses(V4Bytes),
         V4Rows(a, offset) \subseteq bitset, NEW len \in 0 .. V4Bytes
  PROVE  V4HasPrefix(bitset, a, offset, len)
<1>1. /\ offset + Pair(a[1], a[2]) \in bitset
      /\ offset + Square + Pair(a[3], a[4]) \in bitset
  BY DEF V4Rows
<1>2. \A n \in 3 .. len :
        ByteRows(a, offset + 2 * Square, n, V4BloomLen, V4BloomLen) \subseteq bitset
  <2> TAKE n \in 3 .. len
  <2>1. n \in 3 .. V4Bytes
    BY DEF V4Bytes
  <2> QED
    BY <2>1 DEF V4Rows
<1>3. HasPairOf(bitset, a[1], offset)
  BY <1>1, PairFound, 2 \in 1 .. V4Bytes, V4Bytes \in Nat DEF V4Bytes
<1>4. HasPairOf(bitset, a[3], offset + Square)
  BY <1>1, PairFound, 4 \in 1 .. V4Bytes, V4Bytes \in Nat DEF V4Bytes
<1> QED
  BY <1>1, <1>2, <1>3, <1>4 DEF V4HasPrefix, V4Bytes

(* The same of insertIPv6 and checkIPv6, which count their regions alike.  *)
LEMMA V6Found ==
  ASSUME NEW bitset, NEW offset, NEW a \in Addresses(V6Bytes),
         V6Rows(a, offset, V6BloomLen) \subseteq bitset, NEW len \in 0 .. V6Bytes
  PROVE  V6HasPrefix(bitset, a, offset, len)
<1>1. offset + Pair(a[1], a[2]) \in bitset
  BY DEF V6Rows
<1>2. \A n \in 3 .. len :
        ByteRows(a, offset + Square, n, V4BloomLen, V6BloomLen) \subseteq bitset
  <2> TAKE n \in 3 .. len
  <2>1. n \in 3 .. V6Bytes
    BY FilterAssumption
  <2> QED
    BY <2>1, BloomAssumption DEF V6Rows
<1>3. HasPairOf(bitset, a[1], offset)
  BY <1>1, PairFound, FilterAssumption, 2 \in 1 .. V6Bytes
<1> QED
  BY <1>1, <1>2, <1>3 DEF V6HasPrefix

(* A key whose rows are set passes the filter, whole and by every prefix.  *)
LEMMA SetIsFound ==
  ASSUME NEW bitset, NEW t \in Types, NEW key \in KeyOf(t), SetRows(t, key) \subseteq bitset
  PROVE  /\ Has(bitset, t, key)
         /\ t \notin PortTypes =>
              \A len \in 0 .. Len(key) : HasPrefix(bitset, t, key, len)
<1>1. CASE t \in PortTypes
  BY <1>1 DEF SetRows, Has, PortTypes, V4Types, V6Types
<1>2. CASE t \in V4Types
  <2>1. t \notin PortTypes /\ t \notin V6Types
    BY <1>2 DEF PortTypes, V4Types, V6Types
  <2>2. key \in Addresses(V4Bytes) /\ Len(key) = V4Bytes
    BY <1>2, <2>1 DEF KeyOf, Addresses
  <2>3. V4Rows(key, OffsetOf(t)) \subseteq bitset
    BY <1>2, <2>1 DEF SetRows
  <2>4. \A len \in 0 .. V4Bytes : V4HasPrefix(bitset, key, OffsetOf(t), len)
    BY <2>2, <2>3, V4Found
  <2> QED
    BY <1>2, <2>1, <2>2, <2>3, <2>4 DEF Has, HasPrefix
<1>3. CASE t \in V6Types
  <2>1. t \notin PortTypes /\ t \notin V4Types
    BY <1>3 DEF PortTypes, V4Types, V6Types
  <2>2. key \in Addresses(V6Bytes) /\ Len(key) = V6Bytes
    BY <1>3, <2>1 DEF KeyOf, Addresses
  <2>3. V6Rows(key, OffsetOf(t), V6BloomLen) \subseteq bitset
    BY <1>3, <2>1 DEF SetRows
  <2>4. \A len \in 0 .. V6Bytes : V6HasPrefix(bitset, key, OffsetOf(t), len)
    BY <2>2, <2>3, V6Found
  <2> QED
    BY <1>3, <2>1, <2>2, <2>3, <2>4, BloomAssumption DEF Has, HasPrefix
<1> QED
  BY <1>1, <1>2, <1>3 DEF Types
-----------------------------------------------------------------------------
(* Whatever is on its way is an entry. *)
ReceiverOK ==
  /\ receiver \in [pc : {"start", "test", "wait", "put", "done"}, buffer : Seq(Entries),
                   endless : BOOLEAN, stop : BOOLEAN]
  /\ receiver.pc = "put" => receiver.buffer # <<>>

GeneratorStates(E) ==
  [pc : {"start", "get", "check", "filter", "list", "done"}, index : E, at : 1 .. 4,
   draining : BOOLEAN, stop : BOOLEAN]

GeneratorOK ==
  /\ generator \in GeneratorStates(Entries \cup {None})
  /\ generator.pc \in {"filter", "list"} => generator.index # None

OnTheWay == ring \in Seq(Entries) /\ ReceiverOK /\ GeneratorOK

(* A list of type t holds keys of the type, each set in the filter b. *)
ListOK(t, l, b) ==
  /\ l \in Seq([key : KeyOf(t), position : Nat])
  /\ \A i \in DOMAIN l : SetRows(t, l[i].key) \subseteq b

(* What the lists hold is set in the filter, and so is what is inserted    *)
(* next.                                                                   *)
Filtered ==
  /\ DOMAIN lists = Types
  /\ \A t \in Types : ListOK(t, lists[t], bits)
  /\ generator.pc = "list" => SetRows(Field.type, Field.key) \subseteq bits

(* The four keys of an entry are keys of their types. *)
LEMMA FieldsTyped ==
  ASSUME NEW e \in Entries, NEW i \in 1 .. 4
  PROVE  /\ Fields(e)[i].type \in Types
         /\ Fields(e)[i].key \in KeyOf(Fields(e)[i].type)
<1> USE FilterAssumption
<1>1. CASE e \in EntriesOf(V4Bytes)
  <2>1. /\ e.src \in Addresses(V4Bytes) /\ e.dst \in Addresses(V4Bytes)
        /\ e.sport \in Nat /\ e.dport \in Nat
    BY <1>1 DEF EntriesOf
  <2>2. Len(e.src) # V6Bytes
    <3>1. Len(e.src) = V4Bytes
      BY <2>1 DEF Addresses
    <3> QED
      BY <3>1 DEF V4Bytes
  <2>3. Fields(e) = << [type |-> "SRCIP", key |-> e.src], [type |-> "DSTIP", key |-> e.dst],
                       [type |-> "SRCPORT", key |-> e.sport],
                       [type |-> "DSTPORT", key |-> e.dport] >>
    BY <2>2 DEF Fields
  <2> QED
    BY <2>1, <2>3 DEF KeyOf, Types, PortTypes, V4Types, V6Types
<1>2. CASE e \in EntriesOf(V6Bytes)
  <2>1. /\ e.src \in Addresses(V6Bytes) /\ e.dst \in Addresses(V6Bytes)
        /\ e.sport \in Nat /\ e.dport \in Nat
    BY <1>2 DEF EntriesOf
  <2>2. Len(e.src) = V6Bytes
    BY <2>1 DEF Addresses
  <2>3. Fields(e) = << [type |-> "SRCIPv6", key |-> e.src],
                       [type |-> "DSTIPv6", key |-> e.dst],
                       [type |-> "SRCPORT", key |-> e.sport],
                       [type |-> "DSTPORT", key |-> e.dport] >>
    BY <2>2 DEF Fields
  <2> QED
    BY <2>1, <2>3 DEF KeyOf, Types, PortTypes, V4Types, V6Types
<1> QED
  BY <1>1, <1>2 DEF Entries

(* Initially nothing is on its way and nothing is listed. *)
LEMMA NodeInit == Init => OnTheWay /\ Filtered
<1> SUFFICES ASSUME Init PROVE OnTheWay /\ Filtered
  OBVIOUS
<1>1. OnTheWay
  BY DEF Init, OnTheWay, ReceiverOK, GeneratorOK, GeneratorStates
<1>2. lists = [t \in Types |-> <<>>] /\ generator.pc = "start"
  BY DEF Init
<1>3. Filtered
  BY <1>2 DEF Filtered, ListOK
<1> QED
  BY <1>1, <1>3

(* What is taken from the ring is an entry or nothing. *)
LEMMA TakenTyped ==
  ASSUME ring \in Seq(Entries)
  PROVE  Taken \in Entries \cup {None} /\ Rest \in Seq(Entries)
BY DEF Taken, Rest

(* Of a sequence that is not empty: its head, and the rest if there is one. *)
LEMMA HeadAndTail ==
  ASSUME NEW S, NEW s \in Seq(S), s # <<>>
  PROVE  /\ Head(s) \in S /\ Tail(s) \in Seq(S)
         /\ Len(s) # 1 => Tail(s) # <<>>
<1>1. Len(s) \in Nat \ {0}
  OBVIOUS
<1>2. Head(s) \in S /\ Tail(s) \in Seq(S) /\ Len(Tail(s)) = Len(s) - 1
  BY HeadTailProperties
<1>3. Len(<<>>) = 0
  OBVIOUS
<1>4. Len(s) # 1 => Tail(s) # <<>>
  BY <1>1, <1>2, <1>3
<1> QED
  BY <1>2, <1>4

(* Every step of the receiver keeps it in order. *)
LEMMA ReceiverStep ==
  ASSUME OnTheWay, \/ Receiver \/ ReceiveFails \/ StopReceiver
                   \/ \E d \in Datagrams : Receive(d)
  PROVE  ring' \in Seq(Entries) /\ ReceiverOK' /\ UNCHANGED generator
<1> USE DEF OnTheWay, ReceiverOK
<1>1. CASE TestStop
  BY <1>1 DEF TestStop
<1>2. ASSUME NEW d \in Datagrams, Receive(d)
      PROVE  ring' \in Seq(Entries) /\ ReceiverOK' /\ UNCHANGED generator
  <2>1. d.entries \in Seq(Entries) /\ d.endless \in BOOLEAN
    BY DatagramAssumption
  <2> QED
    BY <1>2, <2>1 DEF Receive
<1>3. CASE ReceiveFails
  BY <1>3 DEF ReceiveFails
<1>4. CASE PutIndex
  <2>1. /\ receiver' = [pc |-> IF Remaining = <<>> THEN "test" ELSE "put",
                        buffer |-> Remaining, endless |-> receiver.endless,
                        stop |-> receiver.stop]
        /\ ring' = Append(ring, Head(receiver.buffer)) /\ UNCHANGED generator
    BY <1>4 DEF PutIndex
  <2>2. receiver.buffer \in Seq(Entries) /\ receiver.buffer # <<>>
    BY <1>4 DEF PutIndex
  <2>3. Head(receiver.buffer) \in Entries /\ Remaining \in Seq(Entries)
    BY <2>2, HeadAndTail DEF Remaining
  <2>4. ring' \in Seq(Entries)
    BY <2>1, <2>3
  <2>5. ReceiverOK'
    BY <2>1, <2>3
  <2> QED
    BY <2>1, <2>4, <2>5
<1>5. CASE StopReceiver
  BY <1>5 DEF StopReceiver
<1>6. CASE StartReceiver
  BY <1>6 DEF StartReceiver
<1> QED
  BY <1>1, <1>2, <1>3, <1>4, <1>5, <1>6 DEF Receiver

(* Every step of the generator keeps it in order. *)
LEMMA GeneratorStep ==
  ASSUME OnTheWay, Generator \/ StopGenerator
  PROVE  ring' \in Seq(Entries) /\ GeneratorOK' /\ UNCHANGED receiver
<1> DEFINE E == Entries \cup {None}
<1>1. ring \in Seq(Entries) /\ generator \in GeneratorStates(E) /\ None \in E
      /\ (generator.pc \in {"filter", "list"} => generator.index # None)
  BY DEF OnTheWay, GeneratorOK
<1> SUFFICES /\ ring' \in Seq(Entries) /\ UNCHANGED receiver
             /\ generator' \in GeneratorStates(E)
             /\ generator'.pc \in {"filter", "list"} => generator'.index # None
  BY DEF GeneratorOK
<1>2. Taken \in E /\ Rest \in Seq(Entries)
  BY <1>1, TakenTyped
<1> HIDE DEF E
<1> USE <1>1 DEF GeneratorStates
<1>3. CASE GetIndex
  BY <1>3, <1>2 DEF GetIndex
<1>4. CASE CheckStop
  <2>1. CASE generator.stop
    BY <1>4, <2>1 DEF CheckStop
  <2>2. CASE ~ generator.stop
    <3>1. generator' = [pc |-> IF generator.index = None THEN "get" ELSE "filter",
                        index |-> generator.index, at |-> 1,
                        draining |-> generator.draining, stop |-> generator.stop]
      BY <1>4, <2>2 DEF CheckStop
    <3>2. UNCHANGED <<ring, receiver>>
      BY <1>4 DEF CheckStop
    <3> QED
      BY <3>1, <3>2
  <2> QED
    BY <2>1, <2>2
<1>5. CASE DrainIndex
  <2>1. generator' = [pc |-> IF Taken = None THEN "done" ELSE "filter", index |-> Taken,
                      at |-> 1, draining |-> generator.draining, stop |-> generator.stop]
    BY <1>5 DEF DrainIndex
  <2>2. ring' = Rest /\ UNCHANGED receiver
    BY <1>5 DEF DrainIndex
  <2> QED
    BY <1>2, <2>1, <2>2
<1>6. CASE InsertFilter
  BY <1>6 DEF InsertFilter
<1>7. CASE InsertList
  <2>1. CASE generator.at < 4
    <3>1. generator' = [pc |-> "filter", index |-> generator.index, at |-> generator.at + 1,
                        draining |-> generator.draining, stop |-> generator.stop]
      BY <1>7, <2>1 DEF InsertList
    <3>2. UNCHANGED <<ring, receiver>> /\ generator.pc = "list"
      BY <1>7 DEF InsertList
    <3>3. generator.at + 1 \in 1 .. 4
      BY <2>1
    <3> QED
      BY <3>1, <3>2, <3>3
  <2>2. CASE ~ generator.at < 4
    BY <1>7, <2>2 DEF InsertList
  <2> QED
    BY <2>1, <2>2
<1>8. CASE StopGenerator
  BY <1>8 DEF StopGenerator
<1>9. CASE StartGenerator
  BY <1>9 DEF StartGenerator
<1> QED
  BY <1>3, <1>4, <1>5, <1>6, <1>7, <1>8, <1>9 DEF Generator

(* The querier touches neither, and nothing of the index. *)
LEMMA QuerierStep ==
  ASSUME Querier \/ Quit \/ \E q \in Queries : ReadQuery(q)
  PROVE  UNCHANGED <<ring, receiver, generator, bits, lists>>
BY DEF Querier, Quit, ReadQuery, CheckFilter, Find, index

(* Every step moves entries only. *)
LEMMA OnTheWayStep == OnTheWay /\ [Next]_vars => OnTheWay'
<1> SUFFICES ASSUME OnTheWay, [Next]_vars PROVE OnTheWay'
  OBVIOUS
<1>1. CASE \/ Receiver \/ ReceiveFails \/ StopReceiver
           \/ \E d \in Datagrams : Receive(d)
  BY <1>1, ReceiverStep DEF OnTheWay, GeneratorOK
<1>2. CASE Generator \/ StopGenerator
  BY <1>2, GeneratorStep DEF OnTheWay, ReceiverOK
<1>3. CASE Querier \/ Quit \/ \E q \in Queries : ReadQuery(q)
  BY <1>3, QuerierStep DEF OnTheWay, ReceiverOK, GeneratorOK
<1>4. CASE UNCHANGED vars
  BY <1>4 DEF vars, OnTheWay, ReceiverOK, GeneratorOK
<1> QED
  BY <1>1, <1>2, <1>3, <1>4 DEF Next, Main
-----------------------------------------------------------------------------
(* A list stays in order when the filter grows, and when a key of its type *)
(* that the filter has is put at its end.                                  *)
LEMMA ListGrows ==
  ASSUME NEW t \in Types, NEW l, NEW b, NEW c, ListOK(t, l, b), b \subseteq c
  PROVE  /\ ListOK(t, l, c)
         /\ \A key \in KeyOf(t), position \in Nat :
              SetRows(t, key) \subseteq c
                => ListOK(t, Append(l, [key |-> key, position |-> position]), c)
<1>1. ListOK(t, l, c)
  BY DEF ListOK
<1>2. ASSUME NEW key \in KeyOf(t), NEW position \in Nat, SetRows(t, key) \subseteq c
      PROVE  ListOK(t, Append(l, [key |-> key, position |-> position]), c)
  <2> DEFINE S == [key : KeyOf(t), position : Nat]
             x == [key |-> key, position |-> position]
  <2>1. l \in Seq(S) /\ x \in S /\ x.key = key
    BY DEF ListOK
  <2>2. \A i \in DOMAIN l : SetRows(t, l[i].key) \subseteq c
    BY <1>1 DEF ListOK
  <2> HIDE DEF S, x
  <2>3. /\ Append(l, x) \in Seq(S) /\ DOMAIN Append(l, x) = 1 .. Len(l) + 1
        /\ DOMAIN l = 1 .. Len(l) /\ Append(l, x)[Len(l) + 1] = x
        /\ \A i \in 1 .. Len(l) : Append(l, x)[i] = l[i]
    BY <2>1
  <2>4. ASSUME NEW i \in DOMAIN Append(l, x)
        PROVE  SetRows(t, Append(l, x)[i].key) \subseteq c
    <3>1. CASE i \in 1 .. Len(l)
      BY <3>1, <2>2, <2>3
    <3>2. CASE i = Len(l) + 1
      BY <3>2, <1>2, <2>1, <2>3
    <3> QED
      BY <3>1, <3>2, <2>1, <2>3
  <2> QED
    BY <2>3, <2>4 DEF ListOK, S, x
<1> QED
  BY <1>1, <1>2

(* insertIndex sets the rows of a key before it lists it, and nothing      *)
(* else touches either.                                                    *)
LEMMA FilteredStep == OnTheWay /\ Filtered /\ [Next]_vars => Filtered'
<1> SUFFICES ASSUME OnTheWay, Filtered, [Next]_vars PROVE Filtered'
  OBVIOUS
<1>1. CASE InsertFilter
  <2>1. bits' = bits \cup SetRows(Field.type, Field.key) /\ lists' = lists
    BY <1>1 DEF InsertFilter
  <2>2. Field' = Field
    <3>1. generator'.index = generator.index /\ generator'.at = generator.at
      BY <1>1 DEF InsertFilter, OnTheWay, GeneratorOK, GeneratorStates
    <3> QED
      BY <3>1 DEF Field
  <2>3. \A t \in Types : ListOK(t, lists[t], bits')
    BY <2>1, ListGrows DEF Filtered
  <2> QED
    BY <2>1, <2>2, <2>3 DEF Filtered
<1>2. CASE InsertList
  <2> DEFINE e == generator.index
             f == Field
             x == [key |-> f.key, position |-> e.position]
  <2>1. e \in Entries /\ generator.at \in 1 .. 4
    BY <1>2 DEF InsertList, OnTheWay, GeneratorOK, GeneratorStates
  <2>2. f.type \in Types /\ f.key \in KeyOf(f.type) /\ e.position \in Nat
    BY <2>1, FieldsTyped DEF Field, Entries, EntriesOf
  <2>3. lists' = [lists EXCEPT ![f.type] = Append(@, x)] /\ bits' = bits
    BY <1>2 DEF InsertList
  <2>4. SetRows(f.type, f.key) \subseteq bits
    BY <1>2 DEF InsertList, Filtered
  <2>5. ListOK(f.type, Append(lists[f.type], x), bits)
    BY <2>2, <2>4, ListGrows DEF Filtered
  <2>6. generator'.pc # "list"
    BY <1>2 DEF InsertList, OnTheWay, GeneratorOK, GeneratorStates
  <2> HIDE DEF e, f, x
  <2> QED
    BY <2>2, <2>3, <2>5, <2>6 DEF Filtered
<1>3. CASE StartGenerator \/ GetIndex \/ CheckStop \/ DrainIndex
  <2>1. UNCHANGED <<bits, lists>>
    BY <1>3 DEF StartGenerator, GetIndex, CheckStop, DrainIndex, index
  <2>2. generator'.pc # "list"
    BY <1>3 DEF StartGenerator, GetIndex, CheckStop, DrainIndex, OnTheWay, GeneratorOK,
                GeneratorStates
  <2> QED
    BY <2>1, <2>2 DEF Filtered
<1>4. CASE StopGenerator
  <2>1. UNCHANGED <<bits, lists>>
    BY <1>4 DEF StopGenerator, index
  <2>2. UNCHANGED <<generator.pc, generator.index, generator.at>>
    BY <1>4 DEF StopGenerator, OnTheWay, GeneratorOK, GeneratorStates
  <2> QED
    BY <2>1, <2>2 DEF Filtered, Field
<1>5. CASE \/ Receiver \/ ReceiveFails \/ StopReceiver
           \/ \E d \in Datagrams : Receive(d)
  <2>1. UNCHANGED <<generator, bits, lists>>
    BY <1>5 DEF Receiver, StartReceiver, TestStop, PutIndex, Receive, ReceiveFails,
                StopReceiver, index
  <2> QED
    BY <2>1 DEF Filtered, Field
<1>6. CASE Querier \/ Quit \/ \E q \in Queries : ReadQuery(q)
  BY <1>6, QuerierStep DEF Filtered, Field
<1>7. CASE UNCHANGED vars
  BY <1>7 DEF vars, index, Filtered, Field
<1> QED
  BY <1>1, <1>2, <1>3, <1>4, <1>5, <1>6, <1>7 DEF Next, Generator, Main

(* The memory index: whatever a list holds passes the filter before it, at *)
(* every moment of an insertion, whatever the hash functions, the lengths  *)
(* of addresses and filters and the datagrams that come.                   *)
THEOREM FilterNeverHides == Spec => []FilterCoversLists
<1>1. Init => OnTheWay /\ Filtered
  BY NodeInit
<1>2. OnTheWay /\ Filtered /\ [Next]_vars => (OnTheWay /\ Filtered)'
  BY OnTheWayStep, FilteredStep
<1>3. Filtered => FilterCoversLists
  <2> SUFFICES ASSUME Filtered, NEW t \in Types, NEW i \in DOMAIN lists[t]
               PROVE  /\ Has(bits, t, lists[t][i].key)
                      /\ t \notin PortTypes =>
                           \A len \in 0 .. Len(lists[t][i].key) :
                             HasPrefix(bits, t, lists[t][i].key, len)
    BY DEF FilterCoversLists
  <2> DEFINE S == [key : KeyOf(t), position : Nat]
  <2>1. lists[t] \in Seq(S) /\ SetRows(t, lists[t][i].key) \subseteq bits
    BY DEF Filtered, ListOK
  <2>2. lists[t][i] \in S
    <3> HIDE DEF S
    <3> QED
      BY <2>1
  <2>3. lists[t][i].key \in KeyOf(t)
    BY <2>2
  <2> QED
    BY <2>1, <2>3, SetIsFound
<1> QED
  BY <1>1, <1>2, <1>3, PTL DEF Spec
-----------------------------------------------------------------------------
(* What an element adds to the positions a key has in a list.              *)
Newer(x, key, s) == IF x.key = key THEN <<x.position>> \o s ELSE s

PositionsFcn(l, key) ==
  CHOOSE f : f = [i \in 0 .. Len(l) |->
                    IF i = 0 THEN <<>>
                    ELSE IF l[i].key = key THEN <<l[i].position>> \o f[i - 1] ELSE f[i - 1]]

HavePositions(S) == \A x \in S : x.position \in Nat

(* The recursive function behind Positions exists and satisfies its        *)
(* equations.                                                              *)
LEMMA PositionsDefined ==
  ASSUME NEW S, HavePositions(S), NEW l \in Seq(S), NEW key
  PROVE  /\ Positions(l, key) = PositionsFcn(l, key)[Len(l)]
         /\ PositionsFcn(l, key)[0] = <<>>
         /\ \A i \in 1 .. Len(l) :
              PositionsFcn(l, key)[i] = Newer(l[i], key, PositionsFcn(l, key)[i - 1])
         /\ \A i \in 0 .. Len(l) : PositionsFcn(l, key)[i] \in Seq(Nat)
<1> DEFINE n == Len(l)
           T == Seq(Nat)
           none == <<>>
           step == [p \in (1 .. n) \X T |-> Newer(l[p[1]], key, p[2])]
           Def(f) == f = [i \in 0 .. n |->
                            IF i = 0 THEN <<>>
                            ELSE IF l[i].key = key THEN <<l[i].position>> \o f[i - 1]
                            ELSE f[i - 1]]
<1>1. n \in Nat /\ none \in T /\ \A i \in 1 .. n : l[i].position \in Nat
  BY DEF HavePositions
<1>2. step \in [(1 .. n) \X T -> T]
  <2>1. \A i \in 1 .. n, s \in T : Newer(l[i], key, s) \in T
    BY <1>1 DEF Newer
  <2> QED
    BY <2>1
<1>3. PICK f \in [0 .. n -> T] : Recurs(f, n, none, step)
  <2> HIDE DEF n, T, step, none
  <2> QED
    BY <1>1, <1>2, RecursionDefines
<1>4. Def(f)
  <2>1. \A i \in 1 .. n : f[i] = Newer(l[i], key, f[i - 1])
    <3> SUFFICES ASSUME NEW i \in 1 .. n
                 PROVE  f[i] = Newer(l[i], key, f[i - 1])
      OBVIOUS
    <3>1. f[i] = step[<<i, f[i - 1]>>]
      <4>1. n \in Nat /\ i \in 1 .. n
        BY <1>1
      <4> HIDE DEF n, T, step, none
      <4>2. f = [j \in 0 .. n |-> IF j = 0 THEN none ELSE step[<<j, f[j - 1]>>]]
        BY <1>3 DEF Recurs
      <4>3. i \in 0 .. n /\ i # 0
        BY <4>1
      <4> QED
        BY <4>2, <4>3
    <3>2. <<i, f[i - 1]>> \in (1 .. n) \X T
      <4> HIDE DEF n, T
      <4> QED
        BY <1>1, <1>3
    <3> QED
      BY <3>1, <3>2
  <2>2. f[0] = none /\ \A i \in 0 .. n : i = 0 \/ i \in 1 .. n
    <3>1. n \in Nat
      BY <1>1
    <3> HIDE DEF n, T, step, none
    <3>2. f = [i \in 0 .. n |-> IF i = 0 THEN none ELSE step[<<i, f[i - 1]>>]]
      BY <1>3 DEF Recurs
    <3>3. 0 \in 0 .. n
      BY <3>1
    <3>4. f[0] = none
      BY <3>2, <3>3
    <3> QED
      BY <3>1, <3>4
  <2>3. \A i \in 0 .. n : f[i] = IF i = 0 THEN <<>>
                                  ELSE IF l[i].key = key THEN <<l[i].position>> \o f[i - 1]
                                  ELSE f[i - 1]
    BY <2>1, <2>2 DEF Newer
  <2> QED
    BY <2>3
<1>5. Def(PositionsFcn(l, key))
  <2>1. PositionsFcn(l, key) = CHOOSE g : Def(g)
    BY DEF PositionsFcn
  <2> HIDE DEF Def
  <2> QED
    BY <1>4, <2>1
<1> DEFINE g == PositionsFcn(l, key)
<1> HIDE DEF g
<1>6. g[0] = <<>> /\ \A i \in 1 .. n : g[i] = Newer(l[i], key, g[i - 1])
  <2>1. \A i \in 0 .. n : g[i] = IF i = 0 THEN <<>>
                                  ELSE IF l[i].key = key THEN <<l[i].position>> \o g[i - 1]
                                  ELSE g[i - 1]
    BY <1>5 DEF g
  <2>2. 0 \in 0 .. n /\ \A i \in 1 .. n : i \in 0 .. n /\ i # 0
    BY <1>1
  <2> HIDE DEF n
  <2> QED
    BY <2>1, <2>2 DEF Newer
<1>7. \A i \in 0 .. n : g[i] \in T
  <2>1. \A i \in 1 .. n : g[i - 1] \in T => g[i] = step[<<i, g[i - 1]>>]
    BY <1>6
  <2>2. Follows(g, n, T, none, step)
    BY <1>6, <2>1 DEF Follows
  <2> HIDE DEF n, T, step, none
  <2> QED
    BY <1>1, <1>2, <2>2, RecursionType
<1>8. Positions(l, key) = g[n]
  BY DEF Positions, PositionsFcn, g
<1> QED
  BY <1>6, <1>7, <1>8 DEF g

(* The positions of a key are numbers, and one more element is the newest. *)
LEMMA PositionsAppend ==
  ASSUME NEW S, HavePositions(S), NEW l \in Seq(S), NEW key, NEW x \in S
  PROVE  /\ Positions(l, key) \in Seq(Nat)
         /\ Positions(Append(l, x), key) = Newer(x, key, Positions(l, key))
<1> DEFINE n == Len(l)
           more == Append(l, x)
           f == PositionsFcn(l, key)
           g == PositionsFcn(more, key)
<1>1. /\ n \in Nat /\ more \in Seq(S) /\ Len(more) = n + 1 /\ more[n + 1] = x
      /\ \A i \in 1 .. n : more[i] = l[i]
  OBVIOUS
<1> HIDE DEF more
<1>2. /\ Positions(l, key) = f[n] /\ f[0] = <<>>
      /\ \A i \in 1 .. n : f[i] = Newer(l[i], key, f[i - 1])
      /\ \A i \in 0 .. n : f[i] \in Seq(Nat)
  BY PositionsDefined
<1>3. /\ Positions(more, key) = g[n + 1] /\ g[0] = <<>>
      /\ \A i \in 1 .. n + 1 : g[i] = Newer(more[i], key, g[i - 1])
  BY <1>1, PositionsDefined
<1> HIDE DEF f, g
<1>4. \A i \in 1 .. n : f[i - 1] = g[i - 1] => f[i] = g[i]
  <2> SUFFICES ASSUME NEW i \in 1 .. n, f[i - 1] = g[i - 1]
               PROVE  f[i] = g[i]
    OBVIOUS
  <2>1. i \in 1 .. n + 1
    BY <1>1
  <2> QED
    BY <1>1, <1>2, <1>3, <2>1
<1>5. f[n] = g[n]
  <2>1. f[0] = g[0]
    BY <1>2, <1>3
  <2> HIDE DEF n
  <2> QED
    BY <1>1, <1>4, <2>1, RecursionAgrees
<1>6. n + 1 \in 1 .. n + 1 /\ (n + 1) - 1 = n /\ n \in 0 .. n
  BY <1>1
<1>7. Positions(l, key) \in Seq(Nat)
  BY <1>2, <1>6
<1>8. Positions(more, key) = Newer(x, key, Positions(l, key))
  BY <1>1, <1>2, <1>3, <1>5, <1>6
<1> QED
  BY <1>7, <1>8 DEF more

(* A key that no element has has no positions. *)
LEMMA PositionsNone ==
  ASSUME NEW S, HavePositions(S), NEW l \in Seq(S), NEW key,
         \A i \in 1 .. Len(l) : l[i].key # key
  PROVE  Positions(l, key) = <<>>
<1> DEFINE n == Len(l)
           f == PositionsFcn(l, key)
           g == [i \in 0 .. n |-> <<>>]
<1>1. n \in Nat
  OBVIOUS
<1>2. /\ Positions(l, key) = f[n] /\ f[0] = <<>>
      /\ \A i \in 1 .. n : f[i] = f[i - 1]
  <2>1. /\ Positions(l, key) = f[n] /\ f[0] = <<>>
        /\ \A i \in 1 .. n : f[i] = Newer(l[i], key, f[i - 1])
    BY PositionsDefined
  <2> HIDE DEF f
  <2> QED
    BY <2>1 DEF Newer
<1>3. \A i \in 1 .. n : f[i - 1] = g[i - 1] => f[i] = g[i]
  <2> SUFFICES ASSUME NEW i \in 1 .. n, f[i - 1] = g[i - 1]
               PROVE  f[i] = g[i]
    OBVIOUS
  <2>1. i \in 0 .. n /\ i - 1 \in 0 .. n
    BY <1>1
  <2> HIDE DEF f
  <2> QED
    BY <1>2, <2>1
<1>4. f[0] = g[0] /\ g[n] = <<>>
  BY <1>1, <1>2
<1> HIDE DEF n, f, g
<1>5. f[n] = g[n]
  BY <1>1, <1>3, <1>4, RecursionAgrees
<1> QED
  BY <1>2, <1>4, <1>5 DEF n
-----------------------------------------------------------------------------
(* t ends with s. *)
Ends(s, t) == /\ s \in Seq(Nat) /\ t \in Seq(Nat) /\ Len(s) <= Len(t)
              /\ \A i \in 1 .. Len(s) : s[i] = t[Len(t) - Len(s) + i]

(* A function on the first n numbers is a sequence. *)
LEMMA FunctionIsSeq ==
  ASSUME NEW n \in Nat, NEW S, NEW f \in [1 .. n -> S]
  PROVE  f \in Seq(S) /\ Len(f) = n
<1>1. f \in Seq(S)
  OBVIOUS
<1>2. DOMAIN f = 1 .. n /\ DOMAIN f = 1 .. Len(f) /\ Len(f) \in Nat
  BY <1>1, LenProperties
<1> QED
  BY <1>1, <1>2

(* What a sequence ends with is a suffix of it. *)
LEMMA EndsIsSuffix ==
  ASSUME NEW s, NEW t, Ends(s, t)
  PROVE  IsSuffix(s, t)
<1> DEFINE m == Len(s)
           n == Len(t)
           r == Reverse(s)
           u == Reverse(t)
<1>1. /\ s \in Seq(Nat) /\ t \in Seq(Nat) /\ m \in Nat /\ n \in Nat /\ m <= n
      /\ \A i \in 1 .. m : s[i] = t[n - m + i]
  BY DEF Ends
<1>2. /\ r = [i \in 1 .. m |-> s[(m - i) + 1]] /\ u = [i \in 1 .. n |-> t[(n - i) + 1]]
  BY DEF Reverse
<1>3. /\ r \in Seq(Nat) /\ Len(r) = m /\ u \in Seq(Nat) /\ Len(u) = n
  <2>1. /\ \A i \in 1 .. m : (m - i) + 1 \in 1 .. m
        /\ \A i \in 1 .. n : (n - i) + 1 \in 1 .. n
    BY <1>1
  <2>2. /\ \A i \in 1 .. m : s[(m - i) + 1] \in Nat
        /\ \A i \in 1 .. n : t[(n - i) + 1] \in Nat
    <3>1. (\A i \in 1 .. m : s[i] \in Nat) /\ (\A i \in 1 .. n : t[i] \in Nat)
      BY <1>1
    <3> QED
      BY <2>1, <3>1
  <2>3. r \in [1 .. m -> Nat] /\ u \in [1 .. n -> Nat]
    BY <1>2, <2>2
  <2> HIDE DEF r, u
  <2> QED
    BY <1>1, <2>3, FunctionIsSeq
<1>4. \A i \in 1 .. m : r[i] = u[i]
  <2> SUFFICES ASSUME NEW i \in 1 .. m
               PROVE  r[i] = u[i]
    OBVIOUS
  <2>1. /\ (m - i) + 1 \in 1 .. m /\ i \in 1 .. n
        /\ n - m + ((m - i) + 1) = (n - i) + 1
    BY <1>1
  <2>2. s[(m - i) + 1] = t[(n - i) + 1]
    BY <1>1, <2>1
  <2> QED
    BY <1>2, <2>1, <2>2
<1> HIDE DEF r, u
<1>5. SubSeq(r, 1, m) = SubSeq(u, 1, m)
  <2>1. /\ SubSeq(r, 1, m) = [i \in 1 .. m |-> r[i]]
        /\ SubSeq(u, 1, m) = [i \in 1 .. m |-> u[i]]
    BY <1>1, <1>3
  <2> QED
    BY <1>4, <2>1
<1> QED
  BY <1>1, <1>3, <1>5 DEF IsSuffix, IsPrefix, r, u

(* A sequence is its own end, and the end of all it is put behind; ends of *)
(* ends are ends, and so they are when positions are cut.                  *)
LEMMA EndsItself ==
  ASSUME NEW s \in Seq(Nat)
  PROVE  Ends(s, s)
BY DEF Ends

LEMMA EndsPushed ==
  ASSUME NEW s \in Seq(Nat), NEW p \in Nat
  PROVE  Ends(s, <<p>> \o s)
<1> DEFINE t == <<p>> \o s
<1>1. <<p>> \in Seq(Nat) /\ Len(<<p>>) = 1 /\ Len(s) \in Nat
  OBVIOUS
<1>2. /\ t \in Seq(Nat) /\ Len(t) = 1 + Len(s)
      /\ \A i \in 1 .. Len(t) : t[i] = IF i <= 1 THEN <<p>>[i] ELSE s[i - 1]
  BY <1>1, ConcatProperties
<1> HIDE DEF t
<1>3. \A i \in 1 .. Len(s) : s[i] = t[Len(t) - Len(s) + i]
  <2> SUFFICES ASSUME NEW i \in 1 .. Len(s)
               PROVE  s[i] = t[Len(t) - Len(s) + i]
    OBVIOUS
  <2>1. Len(t) - Len(s) + i = i + 1 /\ i + 1 \in 1 .. Len(t) /\ ~(i + 1 <= 1) /\ (i + 1) - 1 = i
    BY <1>1, <1>2
  <2> QED
    BY <1>2, <2>1
<1> QED
  BY <1>1, <1>2, <1>3 DEF Ends, t

LEMMA EndsOfEnds ==
  ASSUME NEW r, NEW s, NEW t, Ends(r, s), Ends(s, t)
  PROVE  Ends(r, t)
<1>1. /\ r \in Seq(Nat) /\ s \in Seq(Nat) /\ t \in Seq(Nat)
      /\ Len(r) \in Nat /\ Len(s) \in Nat /\ Len(t) \in Nat
      /\ Len(r) <= Len(s) /\ Len(s) <= Len(t)
      /\ \A i \in 1 .. Len(r) : r[i] = s[Len(s) - Len(r) + i]
      /\ \A i \in 1 .. Len(s) : s[i] = t[Len(t) - Len(s) + i]
  BY DEF Ends
<1>2. \A i \in 1 .. Len(r) : r[i] = t[Len(t) - Len(r) + i]
  <2> SUFFICES ASSUME NEW i \in 1 .. Len(r)
               PROVE  r[i] = t[Len(t) - Len(r) + i]
    OBVIOUS
  <2> DEFINE j == Len(s) - Len(r) + i
  <2>1. j \in 1 .. Len(s) /\ Len(t) - Len(s) + j = Len(t) - Len(r) + i
    BY <1>1
  <2> QED
    BY <1>1, <2>1
<1> QED
  BY <1>1, <1>2 DEF Ends

LEMMA EndsNarrowed ==
  ASSUME NEW s, NEW t, Ends(s, t)
  PROVE  Ends(Narrowed(s), Narrowed(t))
<1> DEFINE Cut(u) == Narrowed(u) \in Seq(Nat) /\ Len(Narrowed(u)) = Len(u)
                       /\ \A i \in 1 .. Len(u) : Narrowed(u)[i] = u[i] % Narrow
<1>1. ASSUME NEW u \in Seq(Nat)
      PROVE  Cut(u)
  <2>1. Narrowed(u) = [i \in 1 .. Len(u) |-> u[i] % Narrow] /\ Len(u) \in Nat
    BY DEF Narrowed
  <2>2. \A i \in 1 .. Len(u) : u[i] % Narrow \in Nat
    BY NodeAssumption
  <2>3. Narrowed(u) \in [1 .. Len(u) -> Nat]
    BY <2>1, <2>2
  <2> QED
    BY <2>1, <2>3
<1>2. /\ s \in Seq(Nat) /\ t \in Seq(Nat) /\ Len(s) <= Len(t)
      /\ Len(s) \in Nat /\ Len(t) \in Nat
      /\ \A i \in 1 .. Len(s) : s[i] = t[Len(t) - Len(s) + i]
  BY DEF Ends
<1>3. Cut(s) /\ Cut(t)
  BY <1>1, <1>2
<1>4. \A i \in 1 .. Len(s) : Len(t) - Len(s) + i \in 1 .. Len(t)
  BY <1>2
<1> QED
  BY <1>2, <1>3, <1>4 DEF Ends
-----------------------------------------------------------------------------
(* While a query is answered: what its key had when it was read is the end *)
(* of what it has; and an answer lies between the two.                     *)
Asked == querier.pc \in {"check", "find"} \/ answer # None

Here == Positions(lists[querier.query.type], querier.query.key)

Answered == answer # None => /\ Ends(Narrowed(querier.known), answer)
                             /\ Ends(answer, Narrowed(Here))

Querying ==
  /\ querier = [pc |-> querier.pc, query |-> querier.query, known |-> querier.known]
  /\ Asked => querier.query.type \in Types /\ Ends(querier.known, Here)
  /\ Answered

(* The elements of lists have positions. *)
LEMMA Listed ==
  ASSUME Filtered, NEW t \in Types
  PROVE  /\ lists[t] \in Seq([key : KeyOf(t), position : Nat])
         /\ HavePositions([key : KeyOf(t), position : Nat])
         /\ \A key : Positions(lists[t], key) \in Seq(Nat)
<1> DEFINE S == [key : KeyOf(t), position : Nat]
<1>1. lists[t] \in Seq(S) /\ HavePositions(S)
  BY DEF Filtered, ListOK, HavePositions
<1>2. ASSUME NEW key
      PROVE  Positions(lists[t], key) \in Seq(Nat)
  <2>1. CASE lists[t] = <<>>
    <3>1. \A i \in 1 .. Len(lists[t]) : lists[t][i].key # key
      BY <2>1
    <3>2. Positions(lists[t], key) = <<>>
      <4> HIDE DEF S
      <4> QED
        BY <1>1, <3>1, PositionsNone
    <3> QED
      BY <3>2
  <2>2. CASE lists[t] # <<>>
    <3> HIDE DEF S
    <3>1. lists[t][1] \in S
      BY <1>1, <2>2
    <3> QED
      BY <1>1, <3>1, PositionsAppend
  <2> QED
    BY <2>1, <2>2
<1> QED
  BY <1>1, <1>2

(* A query is for a type. *)
LEMMA Parsed ==
  ASSUME NEW q \in Queries
  PROVE  ParseQuery(q).type \in Types
BY QueryAssumption DEF ParseQuery, Types, PortTypes, V4Types, V6Types
(* Initially nothing is asked. *)
LEMMA QueryInit == Init => Querying
BY DEF Init, Querying, Asked, Answered

(* What an entry adds to a list it adds before what was there. *)
LEMMA QueryListed ==
  ASSUME OnTheWay, Filtered, Querying, InsertList
  PROVE  Querying'
<1> DEFINE e == generator.index
           f == Field
           x == [key |-> f.key, position |-> e.position]
           t == querier.query.type
           key == querier.query.key
<1>1. UNCHANGED <<querier, answer>> /\ lists' = [lists EXCEPT ![f.type] = Append(@, x)]
  BY DEF InsertList
<1>2. (Asked' <=> Asked) /\ Here' = Positions(lists'[t], key)
  BY <1>1 DEF Asked, Here
<1>3. ASSUME Asked
      PROVE  Ends(Here, Here')
  <2>1. t \in Types
    BY <1>3 DEF Querying
  <2>2. e \in Entries /\ generator.at \in 1 .. 4
    BY DEF InsertList, OnTheWay, GeneratorOK, GeneratorStates
  <2>3. f.type \in Types /\ f.key \in KeyOf(f.type) /\ e.position \in Nat
    BY <2>2, FieldsTyped DEF Field, Entries, EntriesOf
  <2>4. x \in [key : KeyOf(f.type), position : Nat] /\ x.position \in Nat
    BY <2>3
  <2>5. DOMAIN lists = Types /\ Here = Positions(lists[t], key)
    BY DEF Filtered, Here
  <2> HIDE DEF e, f, x, t, key
  <2>6. Here \in Seq(Nat)
    BY <2>1, <2>5, Listed
  <2>7. CASE f.type = t
    <3>1. lists'[t] = Append(lists[t], x)
      BY <1>1, <2>1, <2>5, <2>7
    <3>2. Positions(Append(lists[t], x), key) = Newer(x, key, Positions(lists[t], key))
      <4>1. /\ lists[t] \in Seq([key : KeyOf(t), position : Nat])
            /\ HavePositions([key : KeyOf(t), position : Nat])
            /\ x \in [key : KeyOf(t), position : Nat]
        BY <2>1, <2>4, <2>7, Listed
      <4> QED
        BY <4>1, PositionsAppend
    <3>3. Here' = Newer(x, key, Here)
      BY <1>2, <2>5, <3>1, <3>2
    <3> QED
      BY <2>4, <2>6, <3>3, EndsItself, EndsPushed DEF Newer
  <2>8. CASE f.type # t
    <3>1. lists'[t] = lists[t]
      BY <1>1, <2>1, <2>5, <2>8
    <3> QED
      BY <1>2, <2>5, <2>6, <3>1, EndsItself
  <2> QED
    BY <2>7, <2>8
<1>4. Asked => t \in Types /\ Ends(querier.known, Here')
  BY <1>3, EndsOfEnds DEF Querying
<1>5. Answered'
  <2> SUFFICES ASSUME answer' # None
               PROVE  /\ Ends(Narrowed(querier'.known), answer')
                      /\ Ends(answer', Narrowed(Here'))
    BY DEF Answered
  <2>1. Asked
    BY <1>1 DEF Asked
  <2>2. Ends(Narrowed(querier.known), answer) /\ Ends(answer, Narrowed(Here))
    BY <1>1 DEF Querying, Answered
  <2>3. Ends(Narrowed(Here), Narrowed(Here'))
    BY <1>3, <2>1, EndsNarrowed
  <2>4. Ends(answer, Narrowed(Here'))
    BY <2>2, <2>3, EndsOfEnds
  <2> QED
    BY <1>1, <2>2, <2>4
<1> QED
  BY <1>1, <1>2, <1>4, <1>5 DEF Querying

(* The steps of the querier. *)
LEMMA QueryAnswered ==
  ASSUME OnTheWay, Filtered, Querying,
         Querier \/ Quit \/ \E q \in Queries : ReadQuery(q)
  PROVE  Querying'
<1>1. lists' = lists
  BY QuerierStep
<1> DEFINE Shape == querier = [pc |-> querier.pc, query |-> querier.query,
                               known |-> querier.known]
<1>2. ASSUME NEW q \in Queries, ReadQuery(q)
      PROVE  Querying'
  <2> DEFINE p == ParseQuery(q)
  <2>1. /\ querier' = [pc |-> "check", query |-> p, known |-> Positions(lists[p.type], p.key)]
        /\ answer' = None
    BY <1>2 DEF ReadQuery
  <2>2. p.type \in Types
    BY Parsed
  <2> HIDE DEF p
  <2>3. /\ querier'.query = p /\ querier'.known = Positions(lists[p.type], p.key)
        /\ querier'.pc = "check"
    BY <2>1
  <2>4. Here' = Positions(lists[p.type], p.key)
    BY <1>1, <2>3 DEF Here
  <2>5. Positions(lists[p.type], p.key) \in Seq(Nat)
    BY <2>2, Listed
  <2>6. Ends(querier'.known, Here')
    BY <2>3, <2>4, <2>5, EndsItself
  <2> QED
    BY <2>1, <2>2, <2>3, <2>6 DEF Querying, Answered
<1>3. ASSUME querier.pc \in {"check", "find"}, NEW pc,
             querier' = [querier EXCEPT !.pc = pc]
      PROVE  /\ querier'.query = querier.query /\ querier'.known = querier.known
             /\ querier' = [pc |-> querier'.pc, query |-> querier'.query,
                            known |-> querier'.known]
             /\ Here' = Here /\ querier.query.type \in Types /\ Ends(querier.known, Here)
  <2>1. querier' = [pc |-> pc, query |-> querier.query, known |-> querier.known]
    BY <1>3 DEF Querying
  <2>2. querier'.query = querier.query /\ querier'.known = querier.known /\ querier'.pc = pc
    BY <2>1
  <2>3. Here' = Here
    BY <1>1, <2>2 DEF Here
  <2>4. Asked
    BY <1>3 DEF Asked
  <2> QED
    BY <2>1, <2>2, <2>3, <2>4 DEF Querying
<1>4. CASE CheckFilter
  <2> DEFINE t == querier.query.type
             key == querier.query.key
  <2>1. querier.pc = "check"
    BY <1>4 DEF CheckFilter
  <2>2. CASE Has(bits, t, key)
    <3>1. querier' = [querier EXCEPT !.pc = "find"] /\ answer' = answer
      BY <1>4, <2>2 DEF CheckFilter
    <3>2. /\ querier'.query = querier.query /\ querier'.known = querier.known
          /\ querier' = [pc |-> querier'.pc, query |-> querier'.query,
                         known |-> querier'.known]
          /\ Here' = Here /\ querier.query.type \in Types /\ Ends(querier.known, Here)
      BY <1>3, <2>1, <3>1
    <3> QED
      BY <3>1, <3>2 DEF Querying, Answered
  <2>3. CASE ~Has(bits, t, key)
    <3>1. querier' = [querier EXCEPT !.pc = "read"] /\ answer' = <<>>
      BY <1>4, <2>3 DEF CheckFilter
    <3>2. /\ querier'.query = querier.query /\ querier'.known = querier.known
          /\ querier' = [pc |-> querier'.pc, query |-> querier'.query,
                         known |-> querier'.known]
          /\ Here' = Here /\ querier.query.type \in Types /\ Ends(querier.known, Here)
      BY <1>3, <2>1, <3>1
    <3>3. Here = <<>>
      <4> DEFINE S == [key : KeyOf(t), position : Nat]
      <4>1. lists[t] \in Seq(S) /\ HavePositions(S)
        BY <3>2, Listed
      <4>2. \A i \in DOMAIN lists[t] : lists[t][i].key \in KeyOf(t)
                                         /\ SetRows(t, lists[t][i].key) \subseteq bits
        <5>1. \A i \in DOMAIN lists[t] : lists[t][i] \in S
          <6> HIDE DEF S
          <6> QED
            BY <4>1
        <5> QED
          BY <3>2, <5>1 DEF Filtered, ListOK
      <4>3. \A i \in DOMAIN lists[t] : Has(bits, t, lists[t][i].key)
        BY <3>2, <4>2, SetIsFound
      <4>4. \A i \in 1 .. Len(lists[t]) : lists[t][i].key # key
        BY <2>3, <4>1, <4>3
      <4> HIDE DEF S, t, key
      <4>5. Positions(lists[t], key) = <<>>
        BY <4>1, <4>4, PositionsNone
      <4> QED
        BY <4>5 DEF Here, t, key
    <3>4. Ends(Narrowed(querier.known), Narrowed(<<>>))
      BY <3>2, <3>3, EndsNarrowed
    <3>5. Narrowed(<<>>) = <<>>
      BY DEF Narrowed
    <3>6. Ends(<<>>, <<>>)
      <4>1. <<>> \in Seq(Nat)
        OBVIOUS
      <4> QED
        BY <4>1, EndsItself
    <3> QED
      BY <3>1, <3>2, <3>3, <3>4, <3>5, <3>6 DEF Querying, Answered
  <2> QED
    BY <2>2, <2>3
<1>5. CASE Find
  <2>1. /\ querier.pc = "find" /\ querier' = [querier EXCEPT !.pc = "read"]
        /\ answer' = Narrowed(Here)
    BY <1>5 DEF Find, Here
  <2>2. /\ querier'.query = querier.query /\ querier'.known = querier.known
        /\ querier' = [pc |-> querier'.pc, query |-> querier'.query,
                       known |-> querier'.known]
        /\ Here' = Here /\ querier.query.type \in Types /\ Ends(querier.known, Here)
    BY <1>3, <2>1
  <2>3. Ends(Narrowed(querier.known), Narrowed(Here))
    BY <2>2, EndsNarrowed
  <2>4. Ends(Narrowed(Here), Narrowed(Here))
    BY <2>3, EndsItself DEF Ends
  <2> QED
    BY <2>1, <2>2, <2>3, <2>4 DEF Querying, Answered
<1>6. CASE Quit
  <2>1. querier' = [querier EXCEPT !.pc = "done"] /\ answer' = answer
    BY <1>6 DEF Quit
  <2>2. querier' = [pc |-> "done", query |-> querier.query, known |-> querier.known]
    BY <2>1 DEF Querying
  <2>3. querier'.query = querier.query /\ querier'.known = querier.known /\ querier'.pc = "done"
    BY <2>2
  <2>4. Here' = Here
    BY <1>1, <2>3 DEF Here
  <2> QED
    BY <2>1, <2>2, <2>3, <2>4 DEF Querying, Answered, Asked
<1> QED
  BY <1>2, <1>4, <1>5, <1>6 DEF Querier

LEMMA QueryStep == OnTheWay /\ Filtered /\ Querying /\ [Next]_vars => Querying'
<1> SUFFICES ASSUME OnTheWay, Filtered, Querying, [Next]_vars PROVE Querying'
  OBVIOUS
<1>1. CASE InsertList
  BY <1>1, QueryListed
<1>2. CASE Querier \/ Quit \/ \E q \in Queries : ReadQuery(q)
  BY <1>2, QueryAnswered
<1>3. CASE UNCHANGED <<lists, querier, answer>>
  BY <1>3 DEF Querying, Asked, Answered, Here
<1>4. \/ InsertList \/ Querier \/ Quit \/ \E q \in Queries : ReadQuery(q)
      \/ UNCHANGED <<lists, querier, answer>>
  BY DEF Next, vars, index, Receiver, StartReceiver, TestStop, PutIndex, Receive,
         ReceiveFails, Generator, StartGenerator, GetIndex, CheckStop, DrainIndex, InsertFilter, Main, StopReceiver, StopGenerator
<1> QED
  BY <1>1, <1>2, <1>3, <1>4

(* A search of the index: what it answers was there when it looked, and    *)
(* all of what was there when it was asked is in it, though the generator  *)
(* goes on inserting between the two, and although a key the filter does   *)
(* not know is answered without a look at the list (searchIndex,           *)
(* insertIndex).                                                           *)
THEOREM AnswersAlways == Spec => []AnswersHold
<1>1. Init => OnTheWay /\ Filtered /\ Querying
  BY NodeInit, QueryInit
<1>2. OnTheWay /\ Filtered /\ Querying /\ [Next]_vars => (OnTheWay /\ Filtered /\ Querying)'
  BY OnTheWayStep, FilteredStep, QueryStep
<1>3. Querying => AnswersHold
  BY EndsIsSuffix DEF Querying, Answered, AnswersHold, Here
<1> QED
  BY <1>1, <1>2, <1>3, PTL DEF Spec
-----------------------------------------------------------------------------
(* What entry n adds to the positions of those with a number in S.         *)
Further(n, S, entries, s) == IF n \in S THEN Append(s, entries[n].position) ELSE s

PositionsOfFcn(S, entries) ==
  CHOOSE f : f = [n \in 0 .. Len(entries) |->
                    IF n = 0 THEN <<>>
                    ELSE IF n \in S THEN Append(f[n - 1], entries[n].position) ELSE f[n - 1]]

(* The recursive function behind PositionsOf exists and satisfies its      *)
(* equations.                                                              *)
LEMMA PositionsOfDefined ==
  ASSUME NEW D, HavePositions(D), NEW l \in Seq(D), NEW S
  PROVE  /\ PositionsOf(S, l) = PositionsOfFcn(S, l)[Len(l)]
         /\ PositionsOfFcn(S, l)[0] = <<>>
         /\ \A i \in 1 .. Len(l) :
              PositionsOfFcn(S, l)[i] = Further(i, S, l, PositionsOfFcn(S, l)[i - 1])
         /\ \A i \in 0 .. Len(l) : PositionsOfFcn(S, l)[i] \in Seq(Nat)
<1> DEFINE n == Len(l)
           T == Seq(Nat)
           none == <<>>
           step == [p \in (1 .. n) \X T |-> Further(p[1], S, l, p[2])]
           Def(f) == f = [i \in 0 .. n |->
                            IF i = 0 THEN <<>>
                            ELSE IF i \in S THEN Append(f[i - 1], l[i].position) ELSE f[i - 1]]
<1>1. n \in Nat /\ none \in T /\ \A i \in 1 .. n : l[i].position \in Nat
  BY DEF HavePositions
<1>2. step \in [(1 .. n) \X T -> T]
  <2>1. \A i \in 1 .. n, s \in T : Further(i, S, l, s) \in T
    BY <1>1 DEF Further
  <2> QED
    BY <2>1
<1>3. PICK f \in [0 .. n -> T] : Recurs(f, n, none, step)
  <2> HIDE DEF n, T, step, none
  <2> QED
    BY <1>1, <1>2, RecursionDefines
<1>4. Def(f)
  <2>1. f[0] = none /\ \A i \in 1 .. n : f[i] = step[<<i, f[i - 1]>>]
    <3>1. n \in Nat
      BY <1>1
    <3> HIDE DEF n, T, step, none
    <3>2. f = [i \in 0 .. n |-> IF i = 0 THEN none ELSE step[<<i, f[i - 1]>>]]
      BY <1>3 DEF Recurs
    <3>3. 0 \in 0 .. n /\ \A i \in 1 .. n : i \in 0 .. n /\ i # 0
      BY <3>1
    <3> QED
      BY <3>2, <3>3
  <2>2. \A i \in 1 .. n : f[i] = Further(i, S, l, f[i - 1])
    <3> SUFFICES ASSUME NEW i \in 1 .. n
                 PROVE  f[i] = Further(i, S, l, f[i - 1])
      OBVIOUS
    <3>1. <<i, f[i - 1]>> \in (1 .. n) \X T
      <4> HIDE DEF n, T
      <4> QED
        BY <1>1, <1>3
    <3> QED
      BY <2>1, <3>1
  <2>3. \A i \in 0 .. n : i = 0 \/ i \in 1 .. n
    BY <1>1
  <2>4. \A i \in 0 .. n : f[i] = IF i = 0 THEN <<>>
                                  ELSE IF i \in S THEN Append(f[i - 1], l[i].position)
                                  ELSE f[i - 1]
    BY <2>1, <2>2, <2>3 DEF Further
  <2> QED
    BY <2>4
<1>5. Def(PositionsOfFcn(S, l))
  <2>1. PositionsOfFcn(S, l) = CHOOSE g : Def(g)
    BY DEF PositionsOfFcn
  <2> HIDE DEF Def
  <2> QED
    BY <1>4, <2>1
<1> DEFINE g == PositionsOfFcn(S, l)
<1> HIDE DEF g
<1>6. g[0] = <<>> /\ \A i \in 1 .. n : g[i] = Further(i, S, l, g[i - 1])
  <2>1. \A i \in 0 .. n : g[i] = IF i = 0 THEN <<>>
                                  ELSE IF i \in S THEN Append(g[i - 1], l[i].position)
                                  ELSE g[i - 1]
    BY <1>5 DEF g
  <2>2. 0 \in 0 .. n /\ \A i \in 1 .. n : i \in 0 .. n /\ i # 0
    BY <1>1
  <2> HIDE DEF n
  <2> QED
    BY <2>1, <2>2 DEF Further
<1>7. \A i \in 0 .. n : g[i] \in T
  <2>1. \A i \in 1 .. n : g[i - 1] \in T => g[i] = step[<<i, g[i - 1]>>]
    BY <1>6
  <2>2. Follows(g, n, T, none, step)
    BY <1>6, <2>1 DEF Follows
  <2> HIDE DEF n, T, step, none
  <2> QED
    BY <1>1, <1>2, <2>2, RecursionType
<1>8. PositionsOf(S, l) = g[n]
  BY DEF PositionsOf, PositionsOfFcn, g
<1> QED
  BY <1>6, <1>7, <1>8 DEF g

(* An entry more, without a number more, changes nothing. *)
LEMMA PositionsOfAppend ==
  ASSUME NEW D, HavePositions(D), NEW l \in Seq(D), NEW S, S \subseteq 1 .. Len(l),
         NEW x \in D
  PROVE  PositionsOf(S, Append(l, x)) = PositionsOf(S, l)
<1> DEFINE n == Len(l)
           more == Append(l, x)
           f == PositionsOfFcn(S, l)
           g == PositionsOfFcn(S, more)
<1>1. /\ n \in Nat /\ more \in Seq(D) /\ Len(more) = n + 1
      /\ \A i \in 1 .. n : more[i] = l[i]
  OBVIOUS
<1> HIDE DEF more
<1>2. /\ PositionsOf(S, l) = f[n] /\ f[0] = <<>>
      /\ \A i \in 1 .. n : f[i] = Further(i, S, l, f[i - 1])
  BY PositionsOfDefined
<1>3. /\ PositionsOf(S, more) = g[n + 1] /\ g[0] = <<>>
      /\ \A i \in 1 .. n + 1 : g[i] = Further(i, S, more, g[i - 1])
  BY <1>1, PositionsOfDefined
<1> HIDE DEF f, g
<1>4. \A i \in 1 .. n : f[i - 1] = g[i - 1] => f[i] = g[i]
  <2> SUFFICES ASSUME NEW i \in 1 .. n, f[i - 1] = g[i - 1]
               PROVE  f[i] = g[i]
    OBVIOUS
  <2>1. i \in 1 .. n + 1
    BY <1>1
  <2> QED
    BY <1>1, <1>2, <1>3, <2>1 DEF Further
<1>5. f[n] = g[n]
  <2>1. f[0] = g[0]
    BY <1>2, <1>3
  <2> HIDE DEF n
  <2> QED
    BY <1>1, <1>4, <2>1, RecursionAgrees
<1>6. n + 1 \in 1 .. n + 1 /\ (n + 1) - 1 = n /\ n + 1 \notin S
  BY <1>1
<1> QED
  BY <1>2, <1>3, <1>5, <1>6 DEF Further, more

(* A number behind all others puts the position of its entry at the end.   *)
LEMMA PositionsOfMore ==
  ASSUME NEW D, HavePositions(D), NEW l \in Seq(D), NEW m \in 1 .. Len(l),
         NEW S, S \subseteq 1 .. m - 1
  PROVE  PositionsOf(S \cup {m}, l) = Append(PositionsOf(S, l), l[m].position)
<1> DEFINE n == Len(l)
           U == S \cup {m}
           f == PositionsOfFcn(S, l)
           g == PositionsOfFcn(U, l)
<1>1. n \in Nat /\ m \in 1 .. n
  OBVIOUS
<1> HIDE DEF n
<1>2. /\ PositionsOf(S, l) = f[n] /\ f[0] = <<>>
      /\ \A i \in 1 .. n : f[i] = Further(i, S, l, f[i - 1])
  BY PositionsOfDefined DEF n
<1>3. /\ PositionsOf(U, l) = g[n] /\ g[0] = <<>>
      /\ \A i \in 1 .. n : g[i] = Further(i, U, l, g[i - 1])
  BY PositionsOfDefined DEF n
<1> HIDE DEF f, g
<1>4. f[m - 1] = g[m - 1]
  <2>1. \A i \in 1 .. m - 1 : f[i - 1] = g[i - 1] => f[i] = g[i]
    <3> SUFFICES ASSUME NEW i \in 1 .. m - 1, f[i - 1] = g[i - 1]
                 PROVE  f[i] = g[i]
      OBVIOUS
    <3>1. i \in 1 .. n /\ (i \in S <=> i \in U)
      BY <1>1
    <3> QED
      BY <1>2, <1>3, <3>1 DEF Further
  <2>2. f[0] = g[0] /\ m - 1 \in Nat
    BY <1>1, <1>2, <1>3
  <2> QED
    BY <2>1, <2>2, RecursionAgrees
<1>5. f[m] = f[m - 1] /\ g[m] = Append(g[m - 1], l[m].position)
  <2>1. m \notin S /\ m \in U
    BY <1>1
  <2> QED
    BY <1>1, <1>2, <1>3, <2>1 DEF Further
<1> DEFINE I == {i \in Nat : m + i <= n => f[m + i] = f[m] /\ g[m + i] = g[m]}
<1>6. 0 \in I
  BY <1>1
<1>7. ASSUME NEW i \in Nat, i \in I
      PROVE  i + 1 \in I
  <2> SUFFICES ASSUME m + (i + 1) <= n
               PROVE  f[m + (i + 1)] = f[m] /\ g[m + (i + 1)] = g[m]
    OBVIOUS
  <2> DEFINE j == m + (i + 1)
  <2>1. j \in 1 .. n /\ j - 1 = m + i /\ m + i <= n /\ j \notin S /\ j \notin U
    BY <1>1
  <2> HIDE DEF j
  <2>2. f[j] = f[j - 1] /\ g[j] = g[j - 1]
    BY <1>2, <1>3, <2>1 DEF Further
  <2> QED
    BY <1>7, <2>1, <2>2 DEF j
<1>8. n - m \in Nat /\ m + (n - m) = n
  BY <1>1
<1>9. n - m \in I
  <2> HIDE DEF I
  <2> QED
    BY <1>6, <1>7, <1>8, NatInSet
<1>10. f[n] = f[m] /\ g[n] = g[m]
  BY <1>8, <1>9
<1> QED
  BY <1>2, <1>3, <1>4, <1>5, <1>10
-----------------------------------------------------------------------------
(* Where the entries are: the ring has the last of those received, the     *)
(* generator the one before them, and at most one was dropped, when the    *)
(* generator turned to draining.                                           *)
InPlace ==
  /\ received \in Seq(Entries) /\ Len(ring) <= Len(received)
  /\ \A i \in 1 .. Len(ring) : ring[i] = received[TakenNum + i]
  /\ generator.index # None => /\ TakenNum \in 1 .. Len(received)
                               /\ generator.index = received[TakenNum]
                               /\ TakenNum \notin dropped
  /\ generator.pc \in {"start", "get", "done"} => generator.index = None

Dropping ==
  /\ dropped \subseteq 1 .. TakenNum
  /\ dropped = {} \/ (generator.draining /\ \E n : dropped = {n})
  /\ generator.draining => generator.pc # "check"

EnteredOf(t) == {n \in 1 .. TakenNum : Entered(n, t)}

PositionsIn(l) == [i \in DOMAIN l |-> l[i].position]

Complete == \A t \in Types : PositionsIn(lists[t]) = PositionsOf(EnteredOf(t), received)

Accounting == InPlace /\ Dropping /\ Complete

(* Entries have positions, and each of their keys a type of its own.       *)
LEMMA EntriesPlaced == HavePositions(Entries)
BY DEF HavePositions, Entries, EntriesOf

LEMMA FieldsApart ==
  ASSUME NEW e, NEW i \in 1 .. 4, NEW j \in 1 .. 4, Fields(e)[i].type = Fields(e)[j].type
  PROVE  i = j
<1>1. CASE Len(e.src) = V6Bytes
  BY <1>1 DEF Fields
<1>2. CASE Len(e.src) # V6Bytes
  BY <1>2 DEF Fields
<1> QED
  BY <1>1, <1>2

(* How many were taken. *)
LEMMA TakenTypes ==
  ASSUME OnTheWay, InPlace
  PROVE  /\ Len(received) \in Nat /\ Len(ring) \in Nat /\ TakenNum \in Nat
         /\ TakenNum + Len(ring) = Len(received)
BY DEF OnTheWay, InPlace, TakenNum

(* Nothing is listed while no entry goes into a list. *)
LEMMA StillComplete ==
  ASSUME Complete, UNCHANGED lists,
         \A t \in Types : PositionsOf(EnteredOf(t), received)' = PositionsOf(EnteredOf(t), received)
  PROVE  Complete'
BY DEF Complete

(* Initially there is nothing. *)
LEMMA AccountingInit == Init => Accounting
<1> SUFFICES ASSUME Init
             PROVE  Accounting
  OBVIOUS
<1>1. /\ received = <<>> /\ ring = <<>> /\ dropped = {} /\ generator.index = None
      /\ generator.draining = FALSE /\ \A t \in Types : lists[t] = <<>>
  BY DEF Init
<1>2. TakenNum = 0
  BY <1>1 DEF TakenNum
<1>3. InPlace /\ Dropping
  BY <1>1, <1>2 DEF InPlace, Dropping
<1>4. ASSUME NEW t \in Types
      PROVE  PositionsIn(lists[t]) = PositionsOf(EnteredOf(t), received)
  <2>1. PositionsIn(lists[t]) = <<>>
    BY <1>1 DEF PositionsIn
  <2>2. <<>> \in Seq(Entries) /\ Len(<<>>) = 0
    OBVIOUS
  <2>3. PositionsOf(EnteredOf(t), <<>>) = <<>>
    BY <2>2, EntriesPlaced, PositionsOfDefined
  <2> QED
    BY <1>1, <2>1, <2>3
<1> QED
  BY <1>3, <1>4 DEF Accounting, Complete

(* Steps that move no entry. *)
LEMMA AccountingKept ==
  ASSUME Accounting, UNCHANGED <<ring, lists, received, dropped>>,
         UNCHANGED <<generator.pc, generator.index, generator.at, generator.draining>>
  PROVE  Accounting'
<1>1. TakenNum' = TakenNum
  BY DEF TakenNum
<1>2. \A t \in Types : EnteredOf(t)' = EnteredOf(t)
  BY <1>1 DEF EnteredOf, Entered
<1>3. Complete'
  BY <1>2, StillComplete DEF Accounting
<1>4. InPlace' /\ Dropping'
  BY <1>1 DEF Accounting, InPlace, Dropping
<1> QED
  BY <1>3, <1>4 DEF Accounting

(* A generator that begins has taken none. *)
LEMMA StartAccounted ==
  ASSUME OnTheWay, Accounting, StartGenerator
  PROVE  Accounting'
<1>1. /\ generator' = [generator EXCEPT !.pc = "get", !.stop = FALSE]
      /\ generator.pc = "start" /\ UNCHANGED <<ring, lists, received, dropped>>
  BY DEF StartGenerator, index, history
<1>2. /\ UNCHANGED <<generator.index, generator.at, generator.draining>>
      /\ generator'.pc = "get" /\ generator.index = None
  BY <1>1 DEF OnTheWay, GeneratorOK, GeneratorStates, Accounting, InPlace
<1>3. TakenNum' = TakenNum
  BY <1>1 DEF TakenNum
<1>4. \A t \in Types : EnteredOf(t)' = EnteredOf(t)
  BY <1>1, <1>2, <1>3 DEF EnteredOf, Entered
<1>5. Complete'
  BY <1>1, <1>4, StillComplete DEF Accounting
<1>6. InPlace'
  BY <1>1, <1>2, <1>3 DEF Accounting, InPlace
<1>7. Dropping'
  BY <1>1, <1>2, <1>3 DEF Accounting, Dropping
<1> QED
  BY <1>5, <1>6, <1>7 DEF Accounting

(* An entry put into the ring has not been taken. *)
LEMMA PutAccounted ==
  ASSUME OnTheWay, Accounting, PutIndex
  PROVE  Accounting'
<1> DEFINE x == Head(receiver.buffer)
<1>1. /\ ring' = Append(ring, x) /\ received' = Append(received, x)
      /\ UNCHANGED <<generator, lists, dropped>>
  BY DEF PutIndex, index
<1>2. x \in Entries
  <2>1. receiver.buffer \in Seq(Entries) /\ receiver.buffer # <<>>
    BY DEF PutIndex, OnTheWay, ReceiverOK
  <2> QED
    BY <2>1, HeadAndTail
<1> HIDE DEF x
<1>3. /\ ring \in Seq(Entries) /\ received \in Seq(Entries)
      /\ Len(ring) \in Nat /\ Len(received) \in Nat /\ TakenNum \in Nat
      /\ TakenNum + Len(ring) = Len(received)
      /\ \A i \in 1 .. Len(ring) : ring[i] = received[TakenNum + i]
  BY TakenTypes DEF Accounting, InPlace, OnTheWay
<1>4. /\ received' \in Seq(Entries)
      /\ Len(received') = Len(received) + 1 /\ Len(ring') = Len(ring) + 1
      /\ received'[Len(received) + 1] = x /\ ring'[Len(ring) + 1] = x
      /\ \A i \in 1 .. Len(received) : received'[i] = received[i]
      /\ \A i \in 1 .. Len(ring) : ring'[i] = ring[i]
  BY <1>1, <1>2, <1>3
<1>5. TakenNum' = TakenNum /\ TakenNum <= Len(received)
  BY <1>3, <1>4 DEF TakenNum
<1>6. \A i \in 1 .. Len(ring') : ring'[i] = received'[TakenNum + i]
  <2> SUFFICES ASSUME NEW i \in 1 .. Len(ring')
               PROVE  ring'[i] = received'[TakenNum + i]
    OBVIOUS
  <2>1. CASE i = Len(ring) + 1
    <3>1. TakenNum + i = Len(received) + 1
      BY <1>3, <2>1
    <3> QED
      BY <1>4, <2>1, <3>1
  <2>2. CASE i # Len(ring) + 1
    <3>1. i \in 1 .. Len(ring) /\ TakenNum + i \in 1 .. Len(received)
      BY <1>3, <1>4, <2>2
    <3> QED
      BY <1>3, <1>4, <3>1
  <2> QED
    BY <2>1, <2>2
<1>7. InPlace'
  <2>1. /\ Len(ring') <= Len(received')
        /\ generator.index # None =>
             /\ TakenNum \in 1 .. Len(received') /\ generator.index = received'[TakenNum]
             /\ TakenNum \notin dropped
    BY <1>3, <1>4 DEF Accounting, InPlace
  <2>2. generator.pc \in {"start", "get", "done"} => generator.index = None
    BY DEF Accounting, InPlace
  <2> QED
    BY <1>1, <1>4, <1>5, <1>6, <2>1, <2>2 DEF InPlace
<1>8. Dropping'
  BY <1>1, <1>5 DEF Accounting, Dropping
<1>9. ASSUME NEW t \in Types
      PROVE  PositionsOf(EnteredOf(t), received)' = PositionsOf(EnteredOf(t), received)
  <2>1. \A n \in 1 .. TakenNum : received'[n] = received[n]
    BY <1>3, <1>4, <1>5
  <2>2. EnteredOf(t)' = EnteredOf(t)
    BY <1>1, <1>5, <2>1 DEF EnteredOf, Entered
  <2>3. EnteredOf(t) \subseteq 1 .. Len(received)
    BY <1>3, <1>5 DEF EnteredOf
  <2>4. PositionsOf(EnteredOf(t), received') = PositionsOf(EnteredOf(t), received)
    BY <1>1, <1>2, <1>3, <2>3, EntriesPlaced, PositionsOfAppend
  <2> QED
    BY <2>2, <2>4
<1> QED
  BY <1>1, <1>7, <1>8, <1>9, StillComplete DEF Accounting

(* The generator takes an entry that has not entered anything yet, or      *)
(* finds the ring empty.                                                   *)
LEMMA TakeAccounted ==
  ASSUME OnTheWay, Accounting, generator.index = None,
         ring' = Rest, UNCHANGED <<lists, received, dropped>>,
         generator'.index = Taken,
         generator'.draining = generator.draining,
         \/ generator'.pc = "check" /\ ~generator.draining
         \/ generator'.pc = "done" /\ Taken = None
         \/ generator'.pc = "filter" /\ generator'.at = 1
  PROVE  Accounting'
<1>1. /\ ring \in Seq(Entries) /\ received \in Seq(Entries)
      /\ Len(ring) \in Nat /\ Len(received) \in Nat /\ TakenNum \in Nat
      /\ TakenNum + Len(ring) = Len(received)
      /\ \A i \in 1 .. Len(ring) : ring[i] = received[TakenNum + i]
      /\ dropped \subseteq 1 .. TakenNum
      /\ dropped = {} \/ (generator.draining /\ \E n : dropped = {n})
  BY TakenTypes DEF Accounting, InPlace, OnTheWay, Dropping
<1>2. CASE ring = <<>>
  <2>1. Taken = None /\ ring' = ring
    BY <1>2 DEF Taken, Rest
  <2>2. TakenNum' = TakenNum
    BY <2>1 DEF TakenNum
  <2>3. \A t \in Types : EnteredOf(t)' = EnteredOf(t)
    BY <2>1, <2>2 DEF EnteredOf, Entered
  <2>4. Complete'
    BY <2>3, StillComplete DEF Accounting
  <2>5. InPlace'
    BY <1>1, <2>1, <2>2 DEF InPlace
  <2>6. Dropping'
    BY <1>1, <2>2 DEF Dropping
  <2> QED
    BY <2>4, <2>5, <2>6 DEF Accounting
<1>3. CASE ring # <<>>
  <2>0. PICK m \in Nat : m = TakenNum + 1
    BY <1>1
  <2>1. /\ Taken = Head(ring) /\ ring' = Tail(ring)
    BY <1>3 DEF Taken, Rest
  <2>2. /\ Len(ring) \in Nat \ {0} /\ Head(ring) = ring[1] /\ Len(ring') = Len(ring) - 1
        /\ \A i \in 1 .. Len(ring') : ring'[i] = ring[i + 1]
    BY <1>1, <1>3, <2>1, HeadTailProperties
  <2>3. TakenNum' = m /\ m \in 1 .. Len(received)
    BY <1>1, <2>2, <2>0 DEF TakenNum
  <2>4. Taken = received[m] /\ Taken \in Entries /\ Taken # None /\ m \notin dropped
    <3>1. 1 \in 1 .. Len(ring) /\ ring[1] = received[m]
      BY <1>1, <2>2, <2>0
    <3>2. received[m] \in Entries
      BY <1>1, <2>3
    <3>3. m \notin dropped
      BY <1>1, <2>0
    <3> QED
      BY <2>1, <2>2, <3>1, <3>2, <3>3, DatagramAssumption
  <2>5. InPlace'
    <3>1. ASSUME NEW i \in 1 .. Len(ring')
          PROVE  ring'[i] = received[m + i]
      <4>1. i + 1 \in 1 .. Len(ring) /\ TakenNum + (i + 1) = m + i
        BY <1>1, <2>2, <2>0
      <4> QED
        BY <1>1, <2>2, <4>1
    <3>2. Len(ring') <= Len(received)
      BY <1>1, <2>2
    <3>3. generator'.pc \notin {"start", "get", "done"}
      BY <2>4
    <3> QED
      BY <1>1, <2>3, <2>4, <3>1, <3>2, <3>3 DEF InPlace
  <2>6. Dropping'
    <3>1. dropped \subseteq 1 .. m
      BY <1>1, <2>0
    <3>2. generator.draining => generator'.pc # "check"
      OBVIOUS
    <3> QED
      BY <1>1, <2>3, <3>1, <3>2 DEF Dropping
  <2>7. ASSUME NEW t \in Types
        PROVE  EnteredOf(t)' = EnteredOf(t)
    <3>1. \A n \in 1 .. TakenNum : Entered(n, t)' <=> Entered(n, t)
      <4> SUFFICES ASSUME NEW n \in 1 .. TakenNum
                   PROVE  Entered(n, t)' <=> Entered(n, t)
        OBVIOUS
      <4>1. n # TakenNum'
        BY <1>1, <2>3, <2>0
      <4> QED
        BY <4>1 DEF Entered
    <3>2. ~Entered(m, t)'
      <4>1. m = TakenNum' /\ generator'.index # None
        BY <2>3, <2>4
      <4>2. \A i \in 1 .. 4 : ~(generator'.pc \in {"filter", "list"} /\ i < generator'.at)
        BY <2>4
      <4> QED
        BY <4>1, <4>2 DEF Entered
    <3>3. \A n : n \in 1 .. m <=> n \in 1 .. TakenNum \/ n = m
      BY <1>1, <2>0
    <3> QED
      BY <2>3, <3>1, <3>2, <3>3 DEF EnteredOf
  <2>8. Complete'
    BY <2>7, StillComplete DEF Accounting
  <2> QED
    BY <2>5, <2>6, <2>8 DEF Accounting
<1> QED
  BY <1>2, <1>3

(* A flag seen with an entry in hand drops the entry, one seen without     *)
(* drops none; the next loop drops nothing.                                *)
LEMMA CheckAccounted ==
  ASSUME OnTheWay, Accounting, CheckStop
  PROVE  Accounting'
<1>1. /\ generator \in GeneratorStates(Entries \cup {None}) /\ generator.pc = "check"
      /\ UNCHANGED <<ring, lists, received>>
  BY DEF CheckStop, OnTheWay, GeneratorOK, index
<1>2. ~generator.draining /\ dropped = {}
  BY <1>1 DEF Accounting, Dropping
<1>3. TakenNum' = TakenNum
  BY <1>1 DEF TakenNum
<1>4. CASE generator.stop
  <2>1. /\ generator'.pc = "get" /\ generator'.draining = TRUE /\ generator'.index = None
        /\ dropped' = IF generator.index # None THEN dropped \cup {TakenNum} ELSE dropped
    BY <1>1, <1>4 DEF CheckStop, GeneratorStates
  <2>2. dropped' = IF generator.index # None THEN {TakenNum} ELSE {}
    BY <1>2, <2>1
  <2>3. InPlace'
    BY <1>1, <1>3, <2>1 DEF InPlace, Accounting
  <2>4. Dropping'
    <3>1. generator.index # None => TakenNum \in 1 .. TakenNum
      BY DEF Accounting, InPlace
    <3>2. dropped' = {} \/ \E n : dropped' = {n}
      BY <2>2
    <3>3. dropped' \subseteq 1 .. TakenNum
      BY <2>2, <3>1
    <3> QED
      BY <1>3, <2>1, <3>2, <3>3 DEF Dropping
  <2>5. ASSUME NEW t \in Types, NEW n \in 1 .. TakenNum
        PROVE  Entered(n, t)' <=> Entered(n, t)
    <3>1. CASE n = TakenNum /\ generator.index # None
      <4>1. ~Entered(n, t)
        BY <1>1, <3>1 DEF Entered
      <4>2. n \in dropped'
        BY <2>2, <3>1
      <4> QED
        BY <4>1, <4>2 DEF Entered
    <3>2. CASE ~(n = TakenNum /\ generator.index # None)
      <4>1. n \notin dropped' /\ n \notin dropped
        BY <1>2, <2>2, <3>2
      <4> QED
        BY <1>1, <1>3, <2>1, <3>2, <4>1 DEF Entered
    <3> QED
      BY <3>1, <3>2
  <2>6. \A t \in Types : EnteredOf(t)' = EnteredOf(t)
    BY <1>3, <2>5 DEF EnteredOf
  <2>7. Complete'
    BY <1>1, <2>6, StillComplete DEF Accounting
  <2> QED
    BY <2>3, <2>4, <2>7 DEF Accounting
<1>5. CASE ~generator.stop
  <2>1. generator' = [generator EXCEPT !.at = 1, !.pc = IF generator.index = None THEN "get"
                                                         ELSE "filter"]
    BY <1>5 DEF CheckStop
  <2>2. /\ generator'.at = 1 /\ generator'.index = generator.index
        /\ generator'.draining = generator.draining
        /\ generator'.pc = IF generator.index = None THEN "get" ELSE "filter"
    BY <1>1, <2>1 DEF GeneratorStates
  <2>3. dropped' = dropped
    BY <1>5 DEF CheckStop
  <2>4. InPlace'
    BY <1>1, <1>3, <2>2, <2>3 DEF InPlace, Accounting
  <2>5. Dropping'
    BY <1>2, <1>3, <2>2, <2>3 DEF Dropping
  <2>6. ASSUME NEW t \in Types, NEW n \in 1 .. TakenNum
        PROVE  Entered(n, t)' <=> Entered(n, t)
    <3>1. \A i \in 1 .. 4 : ~(i < generator'.at)
      BY <2>2
    <3>2. ~(generator.pc \in {"filter", "list"})
      BY <1>1
    <3> QED
      BY <1>1, <1>3, <2>2, <2>3, <3>1, <3>2 DEF Entered
  <2>7. \A t \in Types : EnteredOf(t)' = EnteredOf(t)
    BY <1>3, <2>6 DEF EnteredOf
  <2>8. Complete'
    BY <1>1, <2>7, StillComplete DEF Accounting
  <2> QED
    BY <2>4, <2>5, <2>8 DEF Accounting
<1> QED
  BY <1>4, <1>5

(* Setting the rows of a key lists nothing. *)
LEMMA FilterAccounted ==
  ASSUME OnTheWay, Accounting, InsertFilter
  PROVE  Accounting'
<1>1. /\ generator \in GeneratorStates(Entries \cup {None}) /\ generator.pc = "filter"
      /\ generator' = [generator EXCEPT !.pc = "list"]
      /\ UNCHANGED <<ring, lists, received, dropped>>
  BY DEF InsertFilter, OnTheWay, GeneratorOK, history
<1>2. /\ generator'.at = generator.at /\ generator'.index = generator.index
      /\ generator'.draining = generator.draining /\ generator'.pc = "list"
  BY <1>1 DEF GeneratorStates
<1>3. TakenNum' = TakenNum
  BY <1>1 DEF TakenNum
<1>4. InPlace' /\ Dropping'
  BY <1>1, <1>2, <1>3 DEF InPlace, Dropping, Accounting
<1>5. \A t \in Types : \A n : Entered(n, t)' <=> Entered(n, t)
  BY <1>1, <1>2, <1>3 DEF Entered
<1>6. \A t \in Types : EnteredOf(t)' = EnteredOf(t)
  BY <1>3, <1>5 DEF EnteredOf
<1>7. Complete'
  BY <1>1, <1>6, StillComplete DEF Accounting
<1> QED
  BY <1>4, <1>7 DEF Accounting

(* The positions in a list that an element more is put behind. *)
LEMMA PositionsInAppend ==
  ASSUME NEW S, NEW l \in Seq(S), NEW x \in S, HavePositions(S)
  PROVE  PositionsIn(Append(l, x)) = Append(PositionsIn(l), x.position)
<1> DEFINE n == Len(l)
           more == Append(l, x)
           p == PositionsIn(l)
<1>1. /\ n \in Nat /\ more \in Seq(S) /\ Len(more) = n + 1 /\ more[n + 1] = x
      /\ \A i \in 1 .. n : more[i] = l[i]
  OBVIOUS
<1> HIDE DEF more
<1>2. p = [i \in 1 .. n |-> l[i].position] /\ \A i \in 1 .. n : l[i].position \in Nat
  BY DEF PositionsIn, HavePositions
<1>3. p \in Seq(Nat) /\ Len(p) = n
  <2>1. p \in [1 .. n -> Nat]
    BY <1>2
  <2> HIDE DEF p
  <2> QED
    BY <1>1, <2>1, FunctionIsSeq
<1>4. PositionsIn(more) = [i \in 1 .. n + 1 |-> more[i].position]
  BY <1>1 DEF PositionsIn
<1>5. x.position \in Nat
  BY DEF HavePositions
<1> HIDE DEF p
<1>6. Append(p, x.position) = [i \in 1 .. n + 1 |-> IF i = n + 1 THEN x.position ELSE p[i]]
  BY <1>1, <1>3, <1>5
<1>7. \A i \in 1 .. n + 1 : more[i].position = IF i = n + 1 THEN x.position ELSE p[i]
  <2> SUFFICES ASSUME NEW i \in 1 .. n + 1
               PROVE  more[i].position = IF i = n + 1 THEN x.position ELSE p[i]
    OBVIOUS
  <2>1. i = n + 1 \/ i \in 1 .. n
    BY <1>1
  <2> QED
    BY <1>1, <1>2, <2>1
<1> QED
  BY <1>4, <1>6, <1>7 DEF p, more

(* The entry in hand enters the list of the type of its next key.          *)
LEMMA ListAccounted ==
  ASSUME OnTheWay, Filtered, Accounting, InsertList
  PROVE  Accounting'
<1> DEFINE e == generator.index
           f == Field
           x == [key |-> f.key, position |-> e.position]
           m == TakenNum
<1>1. /\ generator \in GeneratorStates(Entries \cup {None}) /\ generator.pc = "list"
      /\ generator.index # None
      /\ UNCHANGED <<ring, received, dropped>>
      /\ lists' = [lists EXCEPT ![f.type] = Append(@, x)]
  BY DEF InsertList, OnTheWay, GeneratorOK, history
<1>2. e \in Entries /\ generator.at \in 1 .. 4
  BY <1>1 DEF GeneratorStates
<1>3. /\ f.type \in Types /\ f.key \in KeyOf(f.type) /\ e.position \in Nat
      /\ f = Fields(e)[generator.at]
  BY <1>2, FieldsTyped DEF Field, Entries, EntriesOf
<1>4. /\ generator'.draining = generator.draining /\ generator'.pc \in {"filter", "get"}
      /\ generator'.pc = "filter" => /\ generator.at < 4 /\ generator'.at = generator.at + 1
                                     /\ generator'.index = e
      /\ generator'.pc = "get" => generator.at = 4 /\ generator'.index = None
  <2>1. CASE generator.at < 4
    <3>1. generator' = [generator EXCEPT !.pc = "filter", !.at = @ + 1]
      BY <2>1 DEF InsertList
    <3> QED
      BY <1>1, <2>1, <3>1 DEF GeneratorStates
  <2>2. CASE ~(generator.at < 4)
    <3>1. generator' = [generator EXCEPT !.pc = "get", !.index = None]
      BY <2>2 DEF InsertList
    <3>2. generator.at = 4
      BY <1>2, <2>2
    <3> QED
      BY <1>1, <3>1, <3>2 DEF GeneratorStates
  <2> QED
    BY <2>1, <2>2
<1>5. TakenNum' = TakenNum
  BY <1>1 DEF TakenNum
<1>6. /\ m \in 1 .. Len(received) /\ e = received[m] /\ m \notin dropped /\ m \in 1 .. m
      /\ received \in Seq(Entries)
  BY <1>1 DEF Accounting, InPlace
<1>7. InPlace'
  BY <1>1, <1>4, <1>5 DEF InPlace, Accounting
<1>8. Dropping'
  BY <1>1, <1>4, <1>5 DEF Dropping, Accounting
<1>9. ASSUME NEW t \in Types, NEW n \in 1 .. TakenNum, n # TakenNum
      PROVE  Entered(n, t)' <=> Entered(n, t)
  BY <1>1, <1>5, <1>9 DEF Entered
<1>10. ASSUME NEW t \in Types
       PROVE  /\ Entered(m, t)
                   <=> \E i \in 1 .. 4 : Fields(e)[i].type = t /\ i < generator.at
              /\ Entered(TakenNum, t)'
                   <=> \E i \in 1 .. 4 : Fields(e)[i].type = t /\ i <= generator.at
  <2>1. Entered(m, t) <=> \E i \in 1 .. 4 : Fields(e)[i].type = t /\ i < generator.at
    BY <1>1, <1>6 DEF Entered
  <2>2. CASE generator'.pc = "filter"
    <3>1. Entered(TakenNum, t)'
            <=> \E i \in 1 .. 4 : Fields(e)[i].type = t /\ i < generator.at + 1
      BY <1>1, <1>4, <1>5, <1>6, <2>2 DEF Entered
    <3>2. \A i \in 1 .. 4 : i < generator.at + 1 <=> i <= generator.at
      BY <1>2
    <3> QED
      BY <2>1, <3>1, <3>2
  <2>3. CASE generator'.pc = "get"
    <3>1. Entered(TakenNum, t)' <=> \E i \in 1 .. 4 : Fields(e)[i].type = t
      BY <1>1, <1>4, <1>5, <1>6, <2>3 DEF Entered
    <3>2. \A i \in 1 .. 4 : i <= generator.at
      BY <1>4, <2>3
    <3> QED
      BY <2>1, <3>1, <3>2
  <2> QED
    BY <1>4, <2>2, <2>3
<1>11. ASSUME NEW t \in Types, t # f.type
       PROVE  EnteredOf(t)' = EnteredOf(t) /\ lists'[t] = lists[t]
  <2>1. Entered(TakenNum, t)' <=> Entered(m, t)
    <3>1. \A i \in 1 .. 4 : Fields(e)[i].type = t => i # generator.at
      BY <1>3, <1>11
    <3>2. \A i \in 1 .. 4 : i # generator.at => (i <= generator.at <=> i < generator.at)
      BY <1>2
    <3> QED
      BY <1>10, <3>1, <3>2
  <2>2. \A n \in 1 .. TakenNum : Entered(n, t)' <=> Entered(n, t)
    BY <1>5, <1>9, <2>1
  <2>3. EnteredOf(t)' = EnteredOf(t)
    BY <1>5, <2>2 DEF EnteredOf
  <2>4. lists'[t] = lists[t]
    BY <1>1, <1>11 DEF Filtered
  <2> QED
    BY <2>3, <2>4
<1>12. /\ EnteredOf(f.type) \subseteq 1 .. m - 1
       /\ \A t \in Types : t = f.type => EnteredOf(t)' = EnteredOf(t) \cup {m}
  <2>1. ~Entered(m, f.type)
    <3>1. \A i \in 1 .. 4 : Fields(e)[i].type = f.type => i = generator.at
      BY <1>2, <1>3, FieldsApart
    <3>2. ~(generator.at < generator.at)
      BY <1>2
    <3> QED
      BY <1>3, <1>10, <3>1, <3>2
  <2>2. \A t \in Types : t = f.type => Entered(TakenNum, t)'
    <3>1. generator.at <= generator.at
      BY <1>2
    <3> QED
      BY <1>2, <1>3, <1>10, <3>1
  <2>3. m \in Nat \ {0} /\ \A n \in 1 .. m : n # m => n \in 1 .. m - 1
    BY <1>6
  <2>4. EnteredOf(f.type) \subseteq 1 .. m - 1
    BY <2>1, <2>3 DEF EnteredOf
  <2>5. ASSUME NEW t \in Types, t = f.type
        PROVE  EnteredOf(t)' = EnteredOf(t) \cup {m}
    <3>1. \A n \in 1 .. TakenNum : Entered(n, t)' <=> Entered(n, t) \/ n = TakenNum
      BY <1>5, <1>9, <2>2, <2>5
    <3> QED
      BY <1>5, <1>6, <3>1 DEF EnteredOf
  <2> QED
    BY <2>4, <2>5
<1>13. ASSUME NEW t \in Types
       PROVE  PositionsIn(lists'[t]) = PositionsOf(EnteredOf(t)', received')
  <2>1. PositionsIn(lists[t]) = PositionsOf(EnteredOf(t), received)
    BY DEF Accounting, Complete
  <2>2. CASE t # f.type
    BY <1>1, <1>11, <2>1, <2>2
  <2>3. CASE t = f.type
    <3>1. lists'[t] = Append(lists[t], x)
      BY <1>1, <1>3, <2>3 DEF Filtered
    <3>2. /\ lists[t] \in Seq([key : KeyOf(t), position : Nat])
          /\ HavePositions([key : KeyOf(t), position : Nat])
          /\ x \in [key : KeyOf(t), position : Nat]
      BY <1>3, <2>3, Listed
    <3>3. PositionsIn(lists'[t]) = Append(PositionsIn(lists[t]), x.position)
      BY <3>1, <3>2, PositionsInAppend
    <3>4. x.position = received[m].position
      BY <1>6
    <3>5. PositionsOf(EnteredOf(t) \cup {m}, received)
            = Append(PositionsOf(EnteredOf(t), received), received[m].position)
      BY <1>6, <1>12, <2>3, EntriesPlaced, PositionsOfMore
    <3>6. EnteredOf(t)' = EnteredOf(t) \cup {m} /\ received' = received
      BY <1>1, <1>12, <2>3
    <3> HIDE DEF x, m, e, f
    <3> QED
      BY <2>1, <3>3, <3>4, <3>5, <3>6
  <2> QED
    BY <2>2, <2>3
<1>14. Complete'
  BY <1>13 DEF Complete
<1> QED
  BY <1>7, <1>8, <1>14 DEF Accounting

LEMMA AccountingStep == OnTheWay /\ Filtered /\ Accounting /\ [Next]_vars => Accounting'
<1> SUFFICES ASSUME OnTheWay, Filtered, Accounting, [Next]_vars PROVE Accounting'
  OBVIOUS
<1>1. generator \in GeneratorStates(Entries \cup {None})
  BY DEF OnTheWay, GeneratorOK
<1>2. CASE PutIndex
  BY <1>2, PutAccounted
<1>3. CASE GetIndex
  <2>1. /\ generator.pc = "get" /\ ~generator.draining
        /\ generator' = [generator EXCEPT !.pc = "check", !.index = Taken]
        /\ ring' = Rest /\ UNCHANGED <<lists, received, dropped>>
    BY <1>3 DEF GetIndex, index, history
  <2>2. /\ generator'.index = Taken /\ generator'.draining = generator.draining
        /\ generator'.pc = "check"
    BY <1>1, <2>1 DEF GeneratorStates
  <2>3. generator.index = None
    BY <2>1 DEF Accounting, InPlace
  <2> QED
    BY <2>1, <2>2, <2>3, TakeAccounted
<1>4. CASE DrainIndex
  <2>1. /\ generator.pc = "get" /\ ring' = Rest /\ UNCHANGED <<lists, received, dropped>>
        /\ generator' = [generator EXCEPT !.pc = IF Taken = None THEN "done" ELSE "filter",
                           !.index = Taken, !.at = 1]
    BY <1>4 DEF DrainIndex, index, history
  <2>2. /\ generator'.index = Taken /\ generator'.draining = generator.draining
        /\ generator'.pc = IF Taken = None THEN "done" ELSE "filter"
        /\ generator'.at = 1
    BY <1>1, <2>1 DEF GeneratorStates
  <2>3. generator.index = None
    BY <2>1 DEF Accounting, InPlace
  <2> QED
    BY <2>1, <2>2, <2>3, TakeAccounted
<1>5. CASE CheckStop
  BY <1>5, CheckAccounted
<1>6. CASE InsertFilter
  BY <1>6, FilterAccounted
<1>7. CASE InsertList
  BY <1>7, ListAccounted
<1>8. CASE StopGenerator
  <2>1. /\ generator' = [generator EXCEPT !.stop = TRUE]
        /\ UNCHANGED <<ring, lists, received, dropped>>
    BY <1>8 DEF StopGenerator, index, history
  <2>2. UNCHANGED <<generator.pc, generator.index, generator.at, generator.draining>>
    BY <1>1, <2>1 DEF GeneratorStates
  <2> QED
    BY <2>1, <2>2, AccountingKept
<1>9. CASE UNCHANGED <<ring, lists, received, dropped, generator>>
  BY <1>9, AccountingKept
<1>10. CASE StartGenerator
  BY <1>10, StartAccounted
<1>11. \/ PutIndex \/ GetIndex \/ DrainIndex \/ CheckStop \/ InsertFilter \/ InsertList
       \/ StopGenerator \/ StartGenerator
       \/ UNCHANGED <<ring, lists, received, dropped, generator>>
  BY DEF Next, vars, index, history, Receiver, StartReceiver, TestStop, Receive,
         ReceiveFails, Generator,
         Main, StopReceiver, Querier, Quit, ReadQuery, CheckFilter, Find
<1> QED
  BY <1>2, <1>3, <1>4, <1>5, <1>6, <1>7, <1>8, <1>9, <1>10, <1>11

(* No entry that came is lost between the network and the lists, indexed   *)
(* twice or out of order, however receiver, generator and the stop are     *)
(* interleaved; the one exception is the entry the generator has just      *)
(* taken when it sees its flag (readIndexFromBuffer, run, insertIndex).    *)
THEOREM AccountedAlways == Spec => []Accounted
<1>1. Init => OnTheWay /\ Filtered /\ Accounting
  BY NodeInit, AccountingInit
<1>2. OnTheWay /\ Filtered /\ Accounting /\ [Next]_vars
        => (OnTheWay /\ Filtered /\ Accounting)'
  BY OnTheWayStep, FilteredStep, AccountingStep
<1>3. Accounting => Accounted
  <2> SUFFICES ASSUME Accounting PROVE Accounted
    OBVIOUS
  <2>1. Cardinality(dropped) <= 1 /\ (dropped # {} => generator.draining)
    <3>1. CASE dropped = {}
      <4>1. Cardinality(dropped) = 0
        BY <3>1, FS_EmptySet
      <4> QED
        BY <3>1, <4>1
    <3>2. CASE dropped # {}
      <4>1. generator.draining /\ \E n : dropped = {n}
        BY <3>2 DEF Accounting, Dropping
      <4>2. Cardinality(dropped) = 1
        BY <4>1, FS_Singleton
      <4> QED
        BY <4>1, <4>2
    <3> QED
      BY <3>1, <3>2
  <2>2. \A t \in Types :
          [i \in DOMAIN lists[t] |-> lists[t][i].position]
            = PositionsOf({n \in 1 .. TakenNum : Entered(n, t)}, received)
    BY DEF Accounting, Complete, PositionsIn, EnteredOf
  <2> QED
    BY <2>1, <2>2 DEF Accounted
<1> QED
  BY <1>1, <1>2, <1>3, PTL DEF Spec
-----------------------------------------------------------------------------
(* The heartbeats: what the controller's table shows, for any number of    *)
(* nodes and any periods and timeouts that fit the threshold.              *)

(* Nothing that is written down lies ahead, and no node is longer at a     *)
(* thing than it may be.                                                   *)
InTime ==
  /\ checkedAt <= now
  /\ checking => now - checkedAt <= CheckPeriod
  /\ \A n \in Nodes :
       /\ lastHeartbeat[n] <= now /\ since[n] <= now
       /\ client[n] = "send" => now - since[n] <= SendTime
       /\ client[n] = "read" => now - since[n] <= ReadTime
       /\ client[n] = "sleep" => now - since[n] <= Interval

(* Who is shown as dead is silent; who is shown as alive was not when the  *)
(* table was gone through last.                                            *)
Checked ==
  \A n \in known :
    /\ ~ alive[n] => now - lastHeartbeat[n] > Threshold
    /\ alive[n] /\ checking /\ ~ stop => checkedAt - lastHeartbeat[n] <= Threshold

(* How long ago the last heartbeat of a node can have been that missed     *)
(* none, by what the node is doing.                                        *)
Recent ==
  \A n \in Nodes : ~ missed[n] =>
    /\ client[n] # "down"
    /\ n \in known => alive[n]
    /\ client[n] = "read" => since[n] <= lastHeartbeat[n]
    /\ client[n] = "sleep" => since[n] - lastHeartbeat[n] <= ReadTime
    /\ client[n] = "send" => since[n] - lastHeartbeat[n] <= ReadTime + Interval

HInv == TypeOK /\ InTime /\ Checked /\ Recent

(* A node that missed none is not silent for longer than the threshold.    *)
LEMMA RecentNotSilent ==
  ASSUME HInv, NEW n \in Nodes, ~ missed[n]
  PROVE  ~ Silent(n)
<1> USE TimeAssumption, IntervalAssumption DEF HInv, TypeOK, InTime, Recent
<1>1. client[n] \in {"send", "read", "sleep"}
  OBVIOUS
<1>2. /\ now \in Int /\ lastHeartbeat[n] \in Int /\ since[n] \in Int
  OBVIOUS
<1>3. CASE client[n] = "send"
  BY <1>2, <1>3 DEF Silent
<1>4. CASE client[n] = "read"
  BY <1>2, <1>4 DEF Silent
<1>5. CASE client[n] = "sleep"
  BY <1>2, <1>5 DEF Silent
<1> QED
  BY <1>1, <1>3, <1>4, <1>5

(* Initially the table is empty and all nodes are down.                    *)
LEMMA HInit == HeartbeatInit => HInv
<1> SUFFICES ASSUME HeartbeatInit PROVE HInv
  OBVIOUS
<1> USE TimeAssumption DEF HeartbeatInit
<1>1. TypeOK
  BY DEF TypeOK
<1>2. InTime
  BY DEF InTime
<1>3. Checked
  BY DEF Checked
<1>4. Recent
  BY DEF Recent
<1> QED
  BY <1>1, <1>2, <1>3, <1>4 DEF HInv

(* Every step keeps the types. *)
LEMMA TypeStep == TypeOK /\ [HeartbeatNext]_heartbeatVars => TypeOK'
<1> SUFFICES ASSUME TypeOK, [HeartbeatNext]_heartbeatVars PROVE TypeOK'
  OBVIOUS
<1> USE DEF TypeOK, table, server, Does
<1>1. ASSUME NEW n \in Nodes, StartClient(n) PROVE TypeOK'
  BY <1>1 DEF StartClient
<1>2. ASSUME NEW n \in Nodes, Handle(n) PROVE TypeOK'
  BY <1>2 DEF Handle, Register
<1>3. ASSUME NEW n \in Nodes, HandleLate(n) PROVE TypeOK'
  BY <1>3 DEF HandleLate, Register
<1>4. ASSUME NEW n \in Nodes, SendFails(n) PROVE TypeOK'
  BY <1>4 DEF SendFails
<1>5. ASSUME NEW n \in Nodes, PostAnswered(n) PROVE TypeOK'
  BY <1>5 DEF PostAnswered
<1>6. ASSUME NEW n \in Nodes, Wake(n) PROVE TypeOK'
  BY <1>6 DEF Wake
<1>7. ASSUME NEW n \in Nodes, EndClient(n) PROVE TypeOK'
  BY <1>7 DEF EndClient
<1>8. CASE HealthCheck
  BY <1>8 DEF HealthCheck
<1>9. CASE HealthEnds
  BY <1>9 DEF HealthEnds
<1>10. CASE StopServer
  BY <1>10 DEF StopServer
<1>11. CASE RestartServer
  BY <1>11 DEF RestartServer
<1>12. CASE Tick
  BY <1>12 DEF Tick
<1>13. CASE UNCHANGED heartbeatVars
  BY <1>13 DEF heartbeatVars
<1> QED
  BY <1>1, <1>2, <1>3, <1>4, <1>5, <1>6, <1>7, <1>8, <1>9, <1>10, <1>11, <1>12, <1>13
     DEF HeartbeatNext

(* Every step keeps within the times: the clock goes on only when nothing   *)
(* is overdue.                                                             *)
LEMMA InTimeStep == HInv /\ [HeartbeatNext]_heartbeatVars => InTime'
<1> SUFFICES ASSUME HInv, [HeartbeatNext]_heartbeatVars PROVE InTime'
  OBVIOUS
<1> USE TimeAssumption, TypeStep DEF HInv, InTime, TypeOK, table, server, Does
<1>1. ASSUME NEW n \in Nodes, StartClient(n) PROVE InTime'
  BY <1>1 DEF StartClient
<1>2. ASSUME NEW n \in Nodes, Handle(n) PROVE InTime'
  BY <1>2 DEF Handle, Register
<1>3. ASSUME NEW n \in Nodes, HandleLate(n) PROVE InTime'
  BY <1>3 DEF HandleLate, Register
<1>4. ASSUME NEW n \in Nodes, SendFails(n) PROVE InTime'
  BY <1>4 DEF SendFails
<1>5. ASSUME NEW n \in Nodes, PostAnswered(n) PROVE InTime'
  BY <1>5 DEF PostAnswered
<1>6. ASSUME NEW n \in Nodes, Wake(n) PROVE InTime'
  BY <1>6 DEF Wake
<1>7. ASSUME NEW n \in Nodes, EndClient(n) PROVE InTime'
  BY <1>7 DEF EndClient
<1>8. CASE HealthCheck
  BY <1>8 DEF HealthCheck
<1>9. CASE HealthEnds
  BY <1>9 DEF HealthEnds
<1>10. CASE StopServer
  BY <1>10 DEF StopServer
<1>11. CASE RestartServer
  BY <1>11 DEF RestartServer
<1>12. CASE Tick
  BY <1>12 DEF Tick, Overdue
<1>13. CASE UNCHANGED heartbeatVars
  BY <1>13 DEF heartbeatVars
<1> QED
  BY <1>1, <1>2, <1>3, <1>4, <1>5, <1>6, <1>7, <1>8, <1>9, <1>10, <1>11, <1>12, <1>13
     DEF HeartbeatNext

(* Every step keeps the table checked. *)
LEMMA CheckedStep == HInv /\ [HeartbeatNext]_heartbeatVars => Checked'
<1> SUFFICES ASSUME HInv, [HeartbeatNext]_heartbeatVars PROVE Checked'
  OBVIOUS
<1> USE TimeAssumption, TypeStep DEF HInv, Checked, TypeOK, table, server, Does, InTime
<1>1. ASSUME NEW n \in Nodes, StartClient(n) PROVE Checked'
  BY <1>1 DEF StartClient
<1>2. ASSUME NEW n \in Nodes, Handle(n) PROVE Checked'
  BY <1>2 DEF Handle, Register
<1>3. ASSUME NEW n \in Nodes, HandleLate(n) PROVE Checked'
  BY <1>3 DEF HandleLate, Register
<1>4. ASSUME NEW n \in Nodes, SendFails(n) PROVE Checked'
  BY <1>4 DEF SendFails
<1>5. ASSUME NEW n \in Nodes, PostAnswered(n) PROVE Checked'
  BY <1>5 DEF PostAnswered
<1>6. ASSUME NEW n \in Nodes, Wake(n) PROVE Checked'
  BY <1>6 DEF Wake
<1>7. ASSUME NEW n \in Nodes, EndClient(n) PROVE Checked'
  BY <1>7 DEF EndClient
<1>8. CASE HealthCheck
  BY <1>8 DEF HealthCheck, Silent
<1>9. CASE HealthEnds
  BY <1>9 DEF HealthEnds
<1>10. CASE StopServer
  BY <1>10 DEF StopServer
<1>11. CASE RestartServer
  BY <1>11 DEF RestartServer
<1>12. CASE Tick
  BY <1>12 DEF Tick
<1>13. CASE UNCHANGED heartbeatVars
  BY <1>13 DEF heartbeatVars
<1> QED
  BY <1>1, <1>2, <1>3, <1>4, <1>5, <1>6, <1>7, <1>8, <1>9, <1>10, <1>11, <1>12, <1>13
     DEF HeartbeatNext

(* Every step keeps track of the nodes that missed none. *)
LEMMA RecentStep == HInv /\ [HeartbeatNext]_heartbeatVars => Recent'
<1> SUFFICES ASSUME HInv, [HeartbeatNext]_heartbeatVars PROVE Recent'
  OBVIOUS
<1> USE TimeAssumption, TypeStep DEF HInv, Recent, TypeOK, table, server, Does, InTime
<1>1. ASSUME NEW n \in Nodes, StartClient(n) PROVE Recent'
  BY <1>1 DEF StartClient
<1>2. ASSUME NEW n \in Nodes, Handle(n) PROVE Recent'
  BY <1>2 DEF Handle, Register
<1>3. ASSUME NEW n \in Nodes, HandleLate(n) PROVE Recent'
  BY <1>3 DEF HandleLate, Register
<1>4. ASSUME NEW n \in Nodes, SendFails(n) PROVE Recent'
  BY <1>4 DEF SendFails
<1>5. ASSUME NEW n \in Nodes, PostAnswered(n) PROVE Recent'
  BY <1>5 DEF PostAnswered
<1>6. ASSUME NEW n \in Nodes, Wake(n) PROVE Recent'
  BY <1>6 DEF Wake
<1>7. ASSUME NEW n \in Nodes, EndClient(n) PROVE Recent'
  BY <1>7 DEF EndClient
<1>8. CASE HealthCheck
  BY <1>8, RecentNotSilent DEF HealthCheck
<1>9. CASE HealthEnds
  BY <1>9 DEF HealthEnds
<1>10. CASE StopServer
  BY <1>10 DEF StopServer
<1>11. CASE RestartServer
  BY <1>11 DEF RestartServer
<1>12. CASE Tick
  BY <1>12 DEF Tick
<1>13. CASE UNCHANGED heartbeatVars
  BY <1>13 DEF heartbeatVars
<1> QED
  BY <1>1, <1>2, <1>3, <1>4, <1>5, <1>6, <1>7, <1>8, <1>9, <1>10, <1>11, <1>12, <1>13
     DEF HeartbeatNext

(* The inductive invariant holds in every state (handle_heartbeat,         *)
(* health_check_thread, HeartbeatClient::run).                             *)
THEOREM HInvAlways == HeartbeatSpec => []HInv
<1>1. HInv /\ [HeartbeatNext]_heartbeatVars => HInv'
  BY TypeStep, InTimeStep, CheckedStep, RecentStep DEF HInv
<1> QED
  BY HInit, <1>1, PTL DEF HeartbeatSpec

(* Every variable keeps to its values (HeartbeatServer, HeartbeatClient).  *)
THEOREM TypesKept == HeartbeatSpec => []TypeOK
<1>1. HInv => TypeOK
  BY DEF HInv
<1> QED
  BY <1>1, HInvAlways, PTL

(* The table shows a node as dead only when its last heartbeat is older    *)
(* than the threshold, and as alive no longer than a round of the health   *)
(* thread after that (handle_heartbeat, health_check_thread).              *)
THEOREM TableInTime == HeartbeatSpec => []ShownInTime
<1>1. ASSUME HInv, NEW n \in known
      PROVE  /\ ~ alive[n] => now - lastHeartbeat[n] > Threshold
             /\ alive[n] /\ checking /\ ~ stop =>
                  now - lastHeartbeat[n] <= Threshold + CheckPeriod
  <2> USE <1>1 DEF HInv
  <2>1. /\ now \in Int /\ checkedAt \in Int /\ lastHeartbeat[n] \in Int
        /\ Threshold \in Int /\ CheckPeriod \in Int
    BY TimeAssumption DEF TypeOK
  <2>2. checking => now - checkedAt <= CheckPeriod
    BY DEF InTime
  <2>3. alive[n] /\ checking /\ ~ stop => checkedAt - lastHeartbeat[n] <= Threshold
    BY DEF Checked
  <2>4. ~ alive[n] => now - lastHeartbeat[n] > Threshold
    BY DEF Checked
  <2> QED
    BY <2>1, <2>2, <2>3, <2>4
<1>2. HInv => ShownInTime
  BY <1>1 DEF ShownInTime
<1> QED
  BY <1>2, HInvAlways, PTL

(* However posts, answers and rounds of the health thread fall, a node     *)
(* whose posts all arrive within their timeouts is shown as alive, if the  *)
(* timeouts and the interval fit the threshold (HeartbeatClient::run,      *)
(* health_check_thread).                                                   *)
THEOREM HealthyShownAlive == HeartbeatSpec => []HealthyIsAlive
<1>1. HInv => HealthyIsAlive
  BY DEF HInv, TypeOK, Recent, HealthyIsAlive
<1> QED
  BY <1>1, HInvAlways, PTL
=============================================================================
