----------------------------- MODULE MCIndexNode -----------------------------
EXTENDS IndexNode

Flow(src, dst, sport, dport, position) ==
  [src |-> src, dst |-> dst, sport |-> sport, dport |-> dport, position |-> position]

(* The second flow has the source address of the first, and a position of  *)
(* another node with the same lower bits.                                  *)
Flow1 == Flow(<<0, 1, 1, 0>>, <<0, 0, 1, 0>>, 0, 1, 1)
Flow2 == Flow(<<0, 1, 1, 0>>, <<1, 0, 0, 1>>, 1, 1, 5)
Flow3 == Flow(<<1, 0, 0, 0, 1>>, <<1, 1, 0, 0, 0>>, 0, 0, 2)

Datagram(entries, endless) == [entries |-> entries, endless |-> endless]

(* None, two or one entry, and one that repeats itself for ever.           *)
SomeDatagrams == {Datagram(<<>>, FALSE), Datagram(<<Flow1, Flow2>>, FALSE),
                  Datagram(<<Flow3>>, FALSE), Datagram(<<Flow1>>, TRUE)}

(* Addresses that read the same from behind are found, others are not.     *)
SomeQueries == [field : {"SRCPORT"}, value : {0}] \cup [field : {"DSTPORT"}, value : {1}]
  \cup [field : {"SRCIP"}, value : {<<0, 1, 1, 0>>, <<1, 0, 0, 0, 1>>}]
  \cup [field : {"DSTIP"}, value : {<<0, 0, 1, 0>>, <<0, 1, 0, 0>>}]

SomeHash(prefix, i) == FoldSeq(LAMBDA byte, h : 3 * h + byte, i, prefix)

(* All keys of the instance. *)
Bytes(n) == [1 .. n -> 0 .. SliceCount - 1]
KeysOf(type) == IF type \in PortTypes THEN 0 .. PortBits - 1
                ELSE IF type \in V4Types THEN Bytes(V4Bytes) ELSE Bytes(V6Bytes)
RowsOf(type) == UNION {SetRows(type, key) : key \in KeysOf(type)}

(* The rows set for the types lie apart, and within the bitmap.            *)
ASSUME RowsFit == \A t \in Types : RowsOf(t) \subseteq 0 .. RowCount - 1
ASSUME TypesApart == \A s, t \in Types : s # t => RowsOf(s) \cap RowsOf(t) = {}
=============================================================================
