---------------------------- MODULE PrefixFilter ----------------------------
(***************************************************************************)
(* The filter before the lists of the memory index                         *)
(* (src/src-old/lib/prefixBloomFilter.hpp): which rows of the bitmap a     *)
(* port or an address sets, and which are asked for when one is looked     *)
(* for, whole or by its first bytes.  A row of the one column in use is a  *)
(* number; the filter is the set of rows whose bit is set.                 *)
(*                                                                         *)
(* An address is its bytes, the most significant first.  The two leading   *)
(* bytes set a row of a square; of an IPv4 address the others do as well;  *)
(* and each byte from the third on sets rows of a bloom filter of its own, *)
(* hashed by the bytes before it.                                          *)
(***************************************************************************)
EXTENDS Integers, Sequences

CONSTANTS SliceCount,  \* SLICE_VALUE_COUNT: values of a byte
          V4BloomLen,  \* IPV4_BLOOM_LEN
          V6BloomLen,  \* IPV6_BLOOM_LEN
          PortBits,    \* PORT_BIT_LEN
          V6Bytes,     \* sizeof(IPv6Address)
          HashNum,     \* k
          Hash(_, _)   \* hashFunction of a prefix and a number below k

V4Bytes == 4

(* An address of n bytes. *)
Addresses(n) == {a \in Seq(0 .. SliceCount - 1) : Len(a) = n}

ASSUME FilterAssumption ==
  /\ SliceCount \in Nat \ {0} /\ PortBits \in Nat
  /\ V4BloomLen \in Nat \ {0} /\ V6BloomLen \in Nat \ {0}
  /\ V6Bytes \in Nat /\ V6Bytes > 4 /\ HashNum \in Nat

(* The lengths of the bloom filters are the same number in the code, and   *)
(* must be: setIPv6 counts the regions by the one, checkIPv6 by the other. *)
ASSUME BloomAssumption == V4BloomLen = V6BloomLen

PortTypes == {"SRCPORT", "DSTPORT"}
V4Types == {"SRCIP", "DSTIP"}
V6Types == {"SRCIPv6", "DSTIPv6"}
Types == PortTypes \cup V4Types \cup V6Types

Square == SliceCount * SliceCount
V4BitLen == Square * 2 + SliceCount * V4BloomLen * 2
V6BitLen == Square + SliceCount * V6BloomLen * (V6Bytes - 2)

(* The rows a bitmap must have: constructor of PrefixBloomFilter.          *)
RowCount == (PortBits + V4BitLen + V6BitLen) * 2

(* Where the rows of an index type begin: insertPort, insertIPv4,          *)
(* insertIPv6 and their get counterparts.                                  *)
OffsetOf(type) ==
  CASE type = "SRCPORT" -> 0
    [] type = "DSTPORT" -> PortBits
    [] type = "SRCIP" -> PortBits * 2
    [] type = "DSTIP" -> PortBits * 2 + V4BitLen
    [] type = "SRCIPv6" -> PortBits * 2 + V4BitLen * 2
    [] type = "DSTIPv6" -> PortBits * 2 + V4BitLen * 2 + V6BitLen

Pair(high, low) == high * SliceCount + low

(* setBloom, getBloom.  The rows of a byte reach into those of the next.   *)
BloomRows(prefix, offset, byte, bloomLen) ==
  {offset + byte * SliceCount + (Hash(prefix, i) % bloomLen) : i \in 0 .. HashNum - 1}

(* The bloom filter of the n-th byte, in a region of its own behind the    *)
(* squares: the rows of all regions before it, and how many rows it hashes *)
(* to.                                                                     *)
ByteRows(a, squares, n, regionLen, bloomLen) ==
  BloomRows(SubSeq(a, 1, n - 1), squares + SliceCount * regionLen * (n - 3), a[n], bloomLen)

(* setIPv4, and checkIPv4 of a whole address. *)
V4Rows(a, offset) ==
  {offset + Pair(a[1], a[2]), offset + Square + Pair(a[3], a[4])}
    \cup UNION {ByteRows(a, offset + 2 * Square, n, V4BloomLen, V4BloomLen) :
                  n \in 3 .. V4Bytes}

(* setIPv6 and checkIPv6, of which the check counts its regions by the     *)
(* length of those of IPv4.                                                *)
V6Rows(a, offset, regionLen) ==
  {offset + Pair(a[1], a[2])}
    \cup UNION {ByteRows(a, offset + Square, n, regionLen, V6BloomLen) :
                  n \in 3 .. V6Bytes}

(* Faulty variant: the filter of the last byte is not set. *)
SetRowsShort(type, key) ==
  CASE type \in PortTypes -> {OffsetOf(type) + key}
    [] type \in V4Types -> V4Rows(SubSeq(key, 1, 3) \o <<0>>, OffsetOf(type))
    [] type \in V6Types -> V6Rows(key, OffsetOf(type), V6BloomLen)

(* insertPort, insertIPv4, insertIPv6: the rows set.                       *)
SetRows(type, key) ==
  CASE type \in PortTypes -> {OffsetOf(type) + key}
    [] type \in V4Types -> V4Rows(key, OffsetOf(type))
    [] type \in V6Types -> V6Rows(key, OffsetOf(type), V6BloomLen)

(* getPort, getIPv4, getIPv6 of a whole key. *)
Has(bits, type, key) ==
  CASE type \in PortTypes -> OffsetOf(type) + key \in bits
    [] type \in V4Types -> V4Rows(key, OffsetOf(type)) \subseteq bits
    [] type \in V6Types -> V6Rows(key, OffsetOf(type), V4BloomLen) \subseteq bits

(* A row of a square for a first byte and some second.                     *)
HasPairOf(bits, high, offset) ==
  \E low \in 0 .. SliceCount - 1 : offset + Pair(high, low) \in bits

(* checkIPv4 of the first len bytes.                                       *)
V4HasPrefix(bits, a, offset, len) ==
  \/ len = 0
  \/ len = 1 /\ HasPairOf(bits, a[1], offset)
  \/ /\ len > 1
     /\ offset + Pair(a[1], a[2]) \in bits
     /\ len = 3 => HasPairOf(bits, a[3], offset + Square)
     /\ len = 4 => offset + Square + Pair(a[3], a[4]) \in bits
     /\ \A n \in 3 .. len :
          ByteRows(a, offset + 2 * Square, n, V4BloomLen, V4BloomLen) \subseteq bits

(* checkIPv6 of the first len bytes.                                       *)
V6HasPrefix(bits, a, offset, len) ==
  \/ len = 0
  \/ len = 1 /\ HasPairOf(bits, a[1], offset)
  \/ /\ len > 1
     /\ offset + Pair(a[1], a[2]) \in bits
     /\ \A n \in 3 .. len :
          ByteRows(a, offset + Square, n, V4BloomLen, V6BloomLen) \subseteq bits

(* getIPv4 and getIPv6 with a prefix length. *)
HasPrefix(bits, type, a, len) ==
  IF type \in V4Types THEN V4HasPrefix(bits, a, OffsetOf(type), len)
  ELSE V6HasPrefix(bits, a, OffsetOf(type), len)
=============================================================================
