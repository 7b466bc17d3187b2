------------------------ MODULE DataBlockBufferProofs ------------------------
(***************************************************************************)
(* Proofs about DataBlockBuffer, for any sizes and threads, when DelayFits *)
(* holds.                                                                  *)
(*                                                                         *)
(* The counters of the buffer go around the disk.  The invariant is about  *)
(* numbers that do not: B, the disk block of the oldest memory block, so   *)
(* that memory is the window from B to B + BlockNum - 1; N, the cells      *)
(* taken so far; per capture thread d, the furthest block it has told, a,  *)
(* its cell, o, the cell before it, g, the cell its packet starts in (o, or*)
(* the one after o for a packet gone astray), and k, the writes of the     *)
(* packet left besides a link; per disk thread c, the block it looks at. A *)
(* state satisfies the invariant when there are such numbers.              *)
(***************************************************************************)
EXTENDS DataBlockBuffer, FiniteSetTheorems, WellFoundedInduction, TLAPS

-----------------------------------------------------------------------------
(* Remainders *)

LEMMA DivMod ==
  ASSUME NEW x \in Nat, NEW m \in Nat \ {0}
  PROVE  /\ x \div m \in Nat
         /\ x % m \in 0 .. m - 1
         /\ x = m * (x \div m) + (x % m)
  OBVIOUS

(* Quotient and remainder are the only ones. *)
LEMMA DivModIs ==
  ASSUME NEW m \in Nat \ {0}, NEW q \in Nat, NEW r \in 0 .. m - 1
  PROVE  (m * q + r) \div m = q /\ (m * q + r) % m = r
<1> DEFINE x == m * q + r
           qx == x \div m
           rx == x % m
<1>0. x \in Nat
  OBVIOUS
<1> HIDE DEF x
<1>1. /\ qx \in Nat /\ rx \in 0 .. m - 1 /\ x = m * qx + rx
  BY <1>0, DivMod
<1>2. m * q + r = m * qx + rx
  BY <1>1 DEF x
<1> HIDE DEF qx, rx
<1>3. qx = q
  <2>1. CASE qx > q
    <3>1. m * qx >= m * (q + 1)
      BY <1>1, <2>1
    <3> QED
      BY <1>1, <1>2, <3>1
  <2>2. CASE qx < q
    <3>1. m * q >= m * (qx + 1)
      BY <1>1, <2>2
    <3> QED
      BY <1>1, <1>2, <3>1
  <2> QED
    BY <1>1, <2>1, <2>2
<1> QED
  BY <1>2, <1>3, <1>1 DEF qx, rx, x

LEMMA ModPlus ==
  ASSUME NEW x \in Nat, NEW j \in Nat, NEW m \in Nat \ {0}
  PROVE  ((x % m) + j) % m = (x + j) % m
<1> DEFINE q == x \div m
           r == x % m
           y == r + j
           p == y \div m
           s == y % m
<1>1. q \in Nat /\ r \in 0 .. m - 1 /\ x = m * q + r
  BY DivMod
<1>2. y \in Nat
  BY <1>1
<1>3. p \in Nat /\ s \in 0 .. m - 1 /\ y = m * p + s
  BY <1>2, DivMod
<1> HIDE DEF q, p, s, r
<1>4. x + j = m * (q + p) + s
  BY <1>1, <1>3
<1>5. (m * (q + p) + s) % m = s
  <2>1. q + p \in Nat
    BY <1>1, <1>3
  <2> QED
    BY <1>3, <2>1, DivModIs
<1> QED
  BY <1>4, <1>5 DEF s, r

LEMMA ModMod ==
  ASSUME NEW x \in Nat, NEW m \in Nat \ {0}, NEW k \in Nat \ {0}
  PROVE  /\ (x % (m * k)) % m = x % m
         /\ (x % (m * k)) \div m = (x \div m) % k
<1> DEFINE q == x \div (m * k)
           r == x % (m * k)
           p == r \div m
           s == r % m
<1>1. m * k \in Nat \ {0}
  OBVIOUS
<1>2. q \in Nat /\ r \in 0 .. (m * k) - 1 /\ x = (m * k) * q + r
  BY <1>1, DivMod
<1> HIDE DEF q, r
<1>3. p \in Nat /\ s \in 0 .. m - 1 /\ r = m * p + s
  <2>1. r \in Nat
    BY <1>1, <1>2
  <2> QED
    BY <2>1, DivMod
<1> HIDE DEF p, s
<1>4. k * q \in Nat /\ (m * k) * q = m * (k * q)
  BY <1>2
<1>5. x = m * (k * q + p) + s
  BY <1>2, <1>3, <1>4
<1>6. x % m = s /\ x \div m = k * q + p
  <2> DEFINE z == k * q + p
  <2>1. z \in Nat
    BY <1>3, <1>4
  <2> HIDE DEF z
  <2>2. (m * z + s) % m = s /\ (m * z + s) \div m = z
    BY <1>3, <2>1, DivModIs
  <2> QED
    BY <1>5, <2>2 DEF z
<1>7. p < k
  <2> SUFFICES ASSUME p >= k PROVE FALSE
    BY <1>3
  <2>1. m * p >= m * k
    BY <1>3
  <2> QED
    BY <1>2, <1>3, <2>1
<1>8. (k * q + p) % k = p
  BY <1>2, <1>3, <1>7, DivModIs
<1> QED
  BY <1>6, <1>8 DEF s, r, p

(* Less than a round apart remainders tell numbers apart. *)
LEMMA ModApart ==
  ASSUME NEW u \in Nat, NEW v \in Nat, NEW m \in Nat \ {0},
         u % m = v % m, u < v + m, v < u + m
  PROVE  u = v
<1> DEFINE p == u \div m
           q == v \div m
           r == u % m
<1>1. p \in Nat /\ q \in Nat /\ r \in 0 .. m - 1 /\ u = m * p + r /\ v = m * q + r
  BY DivMod
<1> HIDE DEF p, q, r
<1>2. CASE p > q
  <2>1. m * p >= m * q + m
    BY <1>1, <1>2
  <2> QED
    BY <1>1, <2>1
<1>3. CASE p < q
  <2>1. m * q >= m * p + m
    BY <1>1, <1>3
  <2> QED
    BY <1>1, <2>1
<1> QED
  BY <1>1, <1>2, <1>3

(* The remainder of a number that is j less. *)
LEMMA ModMinus ==
  ASSUME NEW x \in Nat, NEW j \in Nat, NEW m \in Nat \ {0}, j < m
  PROVE  x % m = IF (x + j) % m >= j THEN ((x + j) % m) - j ELSE ((x + j) % m) + m - j
<1> DEFINE p == x \div m
           r == x % m
<1>1. p \in Nat /\ r \in 0 .. m - 1 /\ x = m * p + r
  BY DivMod
<1> HIDE DEF p, r
<1>2. CASE r + j < m
  <2>1. x + j = m * p + (r + j) /\ r + j \in 0 .. m - 1
    BY <1>1, <1>2
  <2>2. (x + j) % m = r + j
    BY <1>1, <2>1, DivModIs
  <2> QED
    BY <1>1, <2>2 DEF r
<1>3. CASE r + j >= m
  <2>1. x + j = m * (p + 1) + (r + j - m) /\ r + j - m \in 0 .. m - 1
    BY <1>1, <1>3
  <2>2. (x + j) % m = r + j - m
    BY <1>1, <2>1, DivModIs
  <2> QED
    BY <1>1, <2>2, <1>3 DEF r
<1> QED
  BY <1>1, <1>2, <1>3

(* A set of natural numbers that is not empty has a least one. *)
LEMMA Least ==
  ASSUME NEW T, T \subseteq Nat, T # {}
  PROVE  \E x \in T : \A y \in T : x <= y
<1> DEFINE R == {p \in Nat \X Nat : p[1] < p[2]}
<1>1. IsWellFoundedOn(R, Nat)
  BY NatLessThanWellFounded DEF OpToRel
<1>2. \A x, y \in Nat : y < x => <<y, x>> \in R
  OBVIOUS
<1> HIDE DEF R
<1>3. PICK x \in T : \A y \in T : ~(<<y, x>> \in R)
  BY <1>1, WFMin
<1>4. \A y \in T : ~(y < x)
  BY <1>2, <1>3
<1> QED
  BY <1>4

(* Every remainder is that of a number of each round. *)
LEMMA InRound ==
  ASSUME NEW B \in Nat, NEW m \in Nat \ {0}, NEW b \in 0 .. m - 1
  PROVE  \E u \in B .. B + m - 1 : u % m = b
<1> DEFINE x == m * B + b
           j == (x - B) % m
<1>1. x \in Nat /\ x - B \in Nat
  <2>1. m * B \in Nat /\ m * B >= B
    OBVIOUS
  <2> QED
    BY <2>1
<1>2. x % m = b
  BY DivModIs
<1> HIDE DEF x
<1>3. j \in 0 .. m - 1
  BY <1>1, DivMod
<1>4. (j + B) % m = ((x - B) + B) % m
  BY <1>1, ModPlus
<1>5. (x - B) + B = x
  BY <1>1
<1> HIDE DEF j
<1>6. j + B \in B .. B + m - 1 /\ (j + B) % m = b
  BY <1>2, <1>3, <1>4, <1>5
<1> QED
  BY <1>6
-----------------------------------------------------------------------------
(* Cells and blocks, counted on without going around the disk *)

Blk(n)    == n \div CellsPerBlock
CellAt(n) == n % CellNum

LEMMA Sizes ==
  /\ BlockNum \in Nat \ {0} /\ DiskBlockNum \in Nat \ {0} /\ DiskBlockNum > 4 * BlockNum
  /\ \E k \in Nat \ {0} : DiskBlockNum = BlockNum * k
  /\ CellsPerBlock \in Nat \ {0} /\ CellNum = CellsPerBlock * DiskBlockNum
  /\ CellNum \in Nat \ {0}
  /\ RSSNum \in 1 .. BlockNum /\ CheckNum \in 1 .. BlockNum
  /\ None \notin Nat
<1>1. /\ BlockNum \in Nat \ {0} /\ DiskBlockNum \in Nat \ {0} /\ DiskBlockNum > 4 * BlockNum
      /\ CellsPerBlock \in Nat \ {0} /\ DiskBlockNum % BlockNum = 0
      /\ RSSNum \in 1 .. BlockNum /\ CheckNum \in 1 .. BlockNum
      /\ None \notin Nat
  BY BufferAssumption
<1>2. /\ DiskBlockNum \div BlockNum \in Nat
      /\ DiskBlockNum = BlockNum * (DiskBlockNum \div BlockNum) + (DiskBlockNum % BlockNum)
  BY <1>1, DivMod
<1>3. DiskBlockNum = BlockNum * (DiskBlockNum \div BlockNum)
  BY <1>1, <1>2
<1>4. DiskBlockNum \div BlockNum # 0
  BY <1>1, <1>3
<1>5. CellNum = CellsPerBlock * DiskBlockNum /\ CellNum \in Nat \ {0}
  BY <1>1 DEF CellNum
<1> QED
  BY <1>1, <1>2, <1>3, <1>4, <1>5

LEMMA CellFacts ==
  ASSUME NEW n \in Nat
  PROVE  /\ Blk(n) \in Nat /\ CellAt(n) \in Cells
         /\ DiskIdOf(CellAt(n)) = Blk(n) % DiskBlockNum
         /\ CellAt(n) % CellsPerBlock = n % CellsPerBlock
         /\ n % CellsPerBlock \in 0 .. CellsPerBlock - 1
         /\ (CellAt(n) + 1) % CellNum = CellAt(n + 1)
<1>1. Blk(n) \in Nat /\ n % CellsPerBlock \in 0 .. CellsPerBlock - 1
  BY Sizes, DivMod DEF Blk
<1>2. CellAt(n) \in Cells
  BY Sizes, DivMod DEF CellAt, Cells
<1>3. /\ DiskIdOf(CellAt(n)) = Blk(n) % DiskBlockNum
      /\ CellAt(n) % CellsPerBlock = n % CellsPerBlock
  BY Sizes, ModMod DEF DiskIdOf, CellAt, Blk
<1>4. (CellAt(n) + 1) % CellNum = CellAt(n + 1)
  BY Sizes, ModPlus DEF CellAt
<1> QED
  BY <1>1, <1>2, <1>3, <1>4

LEMMA BlkOrder ==
  ASSUME NEW m \in Nat, NEW n \in Nat, m < n
  PROVE  /\ Blk(m) <= Blk(n)
         /\ m % CellsPerBlock = CellsPerBlock - 1 => Blk(m) + 1 <= Blk(n)
<1> DEFINE C == CellsPerBlock
           p == Blk(m)
           q == Blk(n)
           r == m % C
           s == n % C
<1>1. C \in Nat \ {0}
  BY Sizes
<1>2. /\ p \in Nat /\ r \in 0 .. C - 1 /\ m = C * p + r
      /\ q \in Nat /\ s \in 0 .. C - 1 /\ n = C * q + s
  <2>1. \A x \in Nat : /\ x \div C \in Nat /\ x % C \in 0 .. C - 1
                        /\ x = C * (x \div C) + (x % C)
    <3> TAKE x \in Nat
    <3> HIDE DEF C
    <3> QED
      BY <1>1, DivMod
  <2> QED
    BY <2>1 DEF Blk
<1> HIDE DEF C, p, q, r, s
<1>3. ~ p > q
  <2> SUFFICES ASSUME p >= q + 1 PROVE FALSE
    BY <1>2
  <2>1. C * p >= C * (q + 1)
    BY <1>1, <1>2
  <2>2. C * (q + 1) = C * q + C
    BY <1>1, <1>2
  <2> QED
    BY <1>1, <1>2, <2>1, <2>2
<1>4. r = C - 1 => p # q
  BY <1>1, <1>2
<1> QED
  BY <1>2, <1>3, <1>4 DEF C, p, q, r

LEMMA BlkNext ==
  ASSUME NEW n \in Nat
  PROVE  Blk(n + 1) = IF n % CellsPerBlock = CellsPerBlock - 1 THEN Blk(n) + 1 ELSE Blk(n)
<1> DEFINE C == CellsPerBlock
           q == Blk(n)
           s == n % C
<1>1. C \in Nat \ {0}
  BY Sizes
<1>2. q \in Nat /\ s \in 0 .. C - 1 /\ n = C * q + s
  BY <1>1, DivMod DEF Blk
<1> HIDE DEF C, q, s
<1>3. CASE s = C - 1
  <2>1. n + 1 = C * (q + 1) + 0 /\ q + 1 \in Nat /\ 0 \in 0 .. C - 1
    BY <1>1, <1>2, <1>3
  <2>2. (C * (q + 1) + 0) \div C = q + 1
    BY <1>1, <2>1, DivModIs
  <2> QED
    BY <1>3, <2>1, <2>2 DEF Blk, C, q, s
<1>4. CASE s # C - 1
  <2>1. n + 1 = C * q + (s + 1) /\ s + 1 \in 0 .. C - 1
    BY <1>1, <1>2, <1>4
  <2>2. (C * q + (s + 1)) \div C = q
    BY <1>1, <1>2, <2>1, DivModIs
  <2> QED
    BY <1>4, <2>1, <2>2 DEF Blk, C, q, s
<1> QED
  BY <1>3, <1>4

LEMMA BlkOf ==
  ASSUME NEW u \in Nat, NEW j \in 0 .. CellsPerBlock - 1
  PROVE  /\ CellsPerBlock * u + j \in Nat /\ CellsPerBlock * u \in Nat
         /\ Blk(CellsPerBlock * u + j) = u
         /\ (CellsPerBlock * u + j) % CellsPerBlock = j
<1>1. CellsPerBlock \in Nat \ {0}
  BY Sizes
<1>2. CellsPerBlock * u + j \in Nat /\ CellsPerBlock * u \in Nat
  BY <1>1
<1> QED
  BY <1>1, <1>2, DivModIs DEF Blk

LEMMA BlkBound ==
  ASSUME NEW n \in Nat, NEW u \in Nat
  PROVE  Blk(n) < u <=> n < CellsPerBlock * u
<1> DEFINE C == CellsPerBlock
           q == Blk(n)
           s == n % C
<1>1. C \in Nat \ {0}
  BY Sizes
<1>2. q \in Nat /\ s \in 0 .. C - 1 /\ n = C * q + s
  BY <1>1, DivMod DEF Blk
<1> HIDE DEF C, q, s
<1>3. CASE q < u
  <2>1. C * u >= C * (q + 1) /\ C * (q + 1) = C * q + C
    BY <1>1, <1>2, <1>3
  <2> QED
    BY <1>1, <1>2, <1>3, <2>1 DEF C, q
<1>4. CASE q >= u
  <2>1. C * q >= C * u
    BY <1>1, <1>2, <1>4
  <2>2. C * u \in Nat /\ C * q \in Nat
    BY <1>1, <1>2
  <2> QED
    BY <1>1, <1>2, <1>4, <2>1, <2>2 DEF C, q
<1> QED
  BY <1>2, <1>3, <1>4

LEMMA DiskFacts ==
  ASSUME NEW u \in Nat
  PROVE  /\ u % DiskBlockNum \in DiskIds /\ u % BlockNum \in Blocks
         /\ BlockOf(u % DiskBlockNum) = u % BlockNum
         /\ Next1(u % DiskBlockNum) = (u + 1) % DiskBlockNum
         /\ \A n \in Nat : AddMod(u % DiskBlockNum, n) = (u + n) % DiskBlockNum
<1>1. u % DiskBlockNum \in DiskIds /\ u % BlockNum \in Blocks
  BY Sizes, DivMod DEF DiskIds, Blocks
<1>2. BlockOf(u % DiskBlockNum) = u % BlockNum
  <2>1. PICK k \in Nat \ {0} : DiskBlockNum = BlockNum * k
    BY Sizes
  <2>2. BlockNum \in Nat \ {0}
    BY Sizes
  <2>3. (u % (BlockNum * k)) % BlockNum = u % BlockNum
    BY <2>2, ModMod
  <2> QED
    BY <2>1, <2>3 DEF BlockOf
<1>3. \A n \in Nat : AddMod(u % DiskBlockNum, n) = (u + n) % DiskBlockNum
  BY Sizes, ModPlus DEF AddMod
<1>4. Next1(u % DiskBlockNum) = (u + 1) % DiskBlockNum
  BY Sizes, ModPlus DEF Next1
<1> QED
  BY <1>1, <1>2, <1>3, <1>4

(* A thread up to twice the buffer behind right is not past it.            *)
LEMMA NotPast ==
  ASSUME NEW x \in Nat, NEW j \in 0 .. 2 * BlockNum
  PROVE  ~ Past(x % DiskBlockNum, (x + j) % DiskBlockNum)
<1> DEFINE D == DiskBlockNum
           rr == (x + j) % D
           xx == x % D
           left == AddMod(rr, D - 2 * BlockNum)
<1>1. D \in Nat \ {0} /\ BlockNum \in Nat \ {0} /\ D > 4 * BlockNum
  BY Sizes
<1>2. rr \in 0 .. D - 1 /\ xx \in 0 .. D - 1
  <2>1. x + j \in Nat
    OBVIOUS
  <2> QED
    BY <1>1, <2>1, DivMod
<1>3. xx = IF rr >= j THEN rr - j ELSE rr + D - j
  <2>1. j \in Nat /\ j < D
    BY <1>1
  <2> QED
    BY <1>1, <2>1, ModMinus
<1>4. left = IF rr >= 2 * BlockNum THEN rr - 2 * BlockNum ELSE rr + D - 2 * BlockNum
  <2> HIDE DEF rr
  <2>1. CASE rr >= 2 * BlockNum
    <3>1. rr + (D - 2 * BlockNum) = D * 1 + (rr - 2 * BlockNum)
      BY <1>1, <1>2
    <3>2. rr - 2 * BlockNum \in 0 .. D - 1
      BY <1>1, <1>2, <2>1
    <3>3. (D * 1 + (rr - 2 * BlockNum)) % D = rr - 2 * BlockNum
      BY <1>1, <3>2, DivModIs
    <3> QED
      BY <2>1, <3>1, <3>3 DEF AddMod
  <2>2. CASE ~ rr >= 2 * BlockNum
    <3>1. rr + (D - 2 * BlockNum) = D * 0 + (rr + D - 2 * BlockNum)
      BY <1>1, <1>2
    <3>2. rr + D - 2 * BlockNum \in 0 .. D - 1
      BY <1>1, <1>2, <2>2
    <3>3. (D * 0 + (rr + D - 2 * BlockNum)) % D = rr + D - 2 * BlockNum
      BY <1>1, <3>2, DivModIs
    <3> QED
      BY <2>2, <3>1, <3>3 DEF AddMod
  <2> QED
    BY <2>1, <2>2
<1> HIDE DEF rr, xx, left, D
<1>5. ~(left < rr /\ (xx > rr \/ xx < left))
  BY <1>1, <1>2, <1>3, <1>4
<1>6. ~(left > rr /\ xx > rr /\ xx < left)
  BY <1>1, <1>2, <1>3, <1>4
<1> QED
  BY <1>5, <1>6 DEF Past, left, rr, xx, D

(* One further than right, but not by nearly a disk, is past it.           *)
LEMMA IsPast ==
  ASSUME NEW x \in Nat, NEW j \in 1 .. 3 * BlockNum - 1
  PROVE  Past((x + j) % DiskBlockNum, x % DiskBlockNum)
<1> DEFINE D == DiskBlockNum
           rr == x % D
           xx == (x + j) % D
           left == AddMod(rr, D - 2 * BlockNum)
<1>1. D \in Nat \ {0} /\ BlockNum \in Nat \ {0} /\ D >= 5 * BlockNum
  <2>1. PICK k \in Nat \ {0} : D = BlockNum * k
    BY Sizes
  <2>2. BlockNum \in Nat \ {0} /\ D > 4 * BlockNum
    BY Sizes
  <2>3. k >= 5
    <3> SUFFICES ASSUME k <= 4 PROVE FALSE
      BY <2>1
    <3>1. BlockNum * k <= BlockNum * 4
      BY <2>2
    <3> QED
      BY <2>1, <2>2, <3>1
  <2>4. BlockNum * k >= BlockNum * 5
    BY <2>2, <2>3
  <2> QED
    BY <2>1, <2>2, <2>4
<1>2. rr \in 0 .. D - 1
  BY <1>1, DivMod
<1>3. (rr + j) % D = xx
  <2>1. j \in Nat
    BY <1>1
  <2> QED
    BY <1>1, <2>1, ModPlus
<1> HIDE DEF rr, xx
<1>4. xx = IF rr + j < D THEN rr + j ELSE rr + j - D
  <2>1. CASE rr + j < D
    <3>1. rr + j = D * 0 + (rr + j) /\ rr + j \in 0 .. D - 1
      BY <1>1, <1>2, <2>1
    <3>2. (D * 0 + (rr + j)) % D = rr + j
      BY <1>1, <3>1, DivModIs
    <3> QED
      BY <1>3, <2>1, <3>1, <3>2
  <2>2. CASE ~ rr + j < D
    <3>1. rr + j = D * 1 + (rr + j - D) /\ rr + j - D \in 0 .. D - 1
      BY <1>1, <1>2, <2>2
    <3>2. (D * 1 + (rr + j - D)) % D = rr + j - D
      BY <1>1, <3>1, DivModIs
    <3> QED
      BY <1>3, <2>2, <3>1, <3>2
  <2> QED
    BY <2>1, <2>2
<1>5. left = IF rr >= 2 * BlockNum THEN rr - 2 * BlockNum ELSE rr + D - 2 * BlockNum
  <2>1. CASE rr >= 2 * BlockNum
    <3>1. rr + (D - 2 * BlockNum) = D * 1 + (rr - 2 * BlockNum)
      BY <1>1, <1>2
    <3>2. rr - 2 * BlockNum \in 0 .. D - 1
      BY <1>1, <1>2, <2>1
    <3>3. (D * 1 + (rr - 2 * BlockNum)) % D = rr - 2 * BlockNum
      BY <1>1, <3>2, DivModIs
    <3> QED
      BY <2>1, <3>1, <3>3 DEF AddMod
  <2>2. CASE ~ rr >= 2 * BlockNum
    <3>1. rr + (D - 2 * BlockNum) = D * 0 + (rr + D - 2 * BlockNum)
      BY <1>1, <1>2
    <3>2. rr + D - 2 * BlockNum \in 0 .. D - 1
      BY <1>1, <1>2, <2>2
    <3>3. (D * 0 + (rr + D - 2 * BlockNum)) % D = rr + D - 2 * BlockNum
      BY <1>1, <3>2, DivModIs
    <3> QED
      BY <2>2, <3>1, <3>3 DEF AddMod
  <2> QED
    BY <2>1, <2>2
<1> HIDE DEF left, D
<1>6. CASE rr >= 2 * BlockNum
  <2>1. left < rr /\ (xx > rr \/ xx < left)
    BY <1>1, <1>2, <1>4, <1>5, <1>6
  <2> QED
    BY <2>1 DEF Past, left, rr, xx, D
<1>7. CASE ~ rr >= 2 * BlockNum
  <2>1. left > rr /\ xx > rr /\ xx < left
    BY <1>1, <1>2, <1>4, <1>5, <1>7
  <2> QED
    BY <2>1 DEF Past, left, rr, xx, D
<1> QED
  BY <1>6, <1>7
-----------------------------------------------------------------------------
(* Types *)

Writing == [cell : Cells, part : {"data", "pointer", "link", "stray", "end", "rest"}]

TypeOK ==
  /\ diskWriteCell \in Cells
  /\ diskWriteIds \in [Writers -> DiskIds]
  /\ blockDiskId \in [Blocks -> DiskIds]
  /\ blockCheckIds \in [Checkers -> Blocks]
  /\ writeCell \in [Writers -> Cells \cup {None}]
  /\ todo \in [Writers -> Seq(Writing)]
  /\ copying \in [Writers -> BOOLEAN]
  /\ \A w \in Writers : copying[w] => todo[w] # << >>
  /\ passed \in [Checkers -> 0 .. RSSNum]
  /\ held \in [Checkers -> Blocks \cup {None}]
  /\ flight \in [Blocks -> Seq(DiskIds)]
  /\ phase \in [Checkers -> {"run", "drain", "end"}]
  /\ quit \subseteq Writers
  /\ out \subseteq Writers /\ stopping \subseteq Writers /\ alive \in BOOLEAN
  /\ dirty \subseteq Blocks /\ done \subseteq Cells

LEMMA Remainders ==
  /\ \A x \in Nat : x % BlockNum \in Blocks /\ x % DiskBlockNum \in DiskIds
                    /\ x % CellNum \in Cells /\ x % CellsPerBlock \in 0 .. CellsPerBlock - 1
  /\ \A c \in Cells : DiskIdOf(c) \in DiskIds
<1>1. \A x \in Nat : x % BlockNum \in Blocks /\ x % DiskBlockNum \in DiskIds
                    /\ x % CellNum \in Cells /\ x % CellsPerBlock \in 0 .. CellsPerBlock - 1
  BY Sizes, DivMod DEF Blocks, DiskIds, Cells
<1>2. ASSUME NEW c \in Cells
      PROVE  DiskIdOf(c) \in DiskIds
  <2>1. c \in Nat /\ c < CellsPerBlock * DiskBlockNum
    BY Sizes DEF Cells
  <2>2. Blk(c) < DiskBlockNum /\ Blk(c) \in Nat
    BY <2>1, Sizes, BlkBound, CellFacts
  <2> QED
    BY <2>2, Sizes DEF Blk, DiskIdOf, DiskIds
<1> QED
  BY <1>1, <1>2

LEMMA MoreRemainders ==
  /\ \A d \in DiskIds : BlockOf(d) \in Blocks /\ Next1(d) \in DiskIds /\ d \in Nat
                        /\ AddMod(d, BlockNum) \in DiskIds
  /\ \A b \in Blocks : (b + CheckNum) % BlockNum \in Blocks
  /\ \A c \in Cells : (c + 1) % CellNum \in Cells /\ c \in Nat
<1>1. /\ \A d \in DiskIds : d \in Nat
      /\ \A b \in Blocks : b + CheckNum \in Nat
      /\ \A c \in Cells : c \in Nat
      /\ BlockNum \in Nat
  BY Sizes DEF DiskIds, Blocks, Cells
<1>2. \A d \in DiskIds : d % BlockNum \in Blocks /\ (d + 1) % DiskBlockNum \in DiskIds
                        /\ (d + BlockNum) % DiskBlockNum \in DiskIds
  BY <1>1, Remainders
<1>3. \A b \in Blocks : (b + CheckNum) % BlockNum \in Blocks
  BY <1>1, Remainders
<1>4. \A c \in Cells : (c + 1) % CellNum \in Cells
  BY <1>1, Remainders
<1> QED
  BY <1>1, <1>2, <1>3, <1>4 DEF BlockOf, Next1, AddMod

LEMMA ToldType ==
  ASSUME NEW x \in Writing
  PROVE  Told(x) \in DiskIds /\ DiskIdOf(x.cell) \in DiskIds
BY Remainders, MoreRemainders DEF Writing, Told

LEMMA TypeInit == Init => TypeOK
<1> SUFFICES ASSUME Init PROVE TypeOK
  OBVIOUS
<1>1. /\ 0 \in Cells /\ \A w \in Writers : w \in DiskIds
      /\ \A b \in Blocks : b \in DiskIds
      /\ \A t \in Checkers : t \in Blocks
      /\ 0 \in 0 .. RSSNum
  BY Sizes DEF Cells, Writers, Checkers, Blocks, DiskIds
<1>2. /\ diskWriteIds \in [Writers -> DiskIds]
      /\ blockDiskId \in [Blocks -> DiskIds]
      /\ blockCheckIds \in [Checkers -> Blocks]
  BY <1>1 DEF Init
<1>3. /\ todo \in [Writers -> Seq(Writing)]
      /\ flight \in [Blocks -> Seq(DiskIds)]
      /\ copying \in [Writers -> BOOLEAN]
      /\ \A w \in Writers : ~copying[w]
  BY DEF Init
<1> QED
  BY <1>1, <1>2, <1>3 DEF Init, TypeOK

LEMMA TailType ==
  ASSUME NEW S, NEW s \in Seq(S), s # << >>
  PROVE  Head(s) \in S /\ Tail(s) \in Seq(S)
  OBVIOUS

(* What a packet's writes are. *)
LEMMA PacketType ==
  ASSUME TypeOK, NEW w \in Writers, NEW c, NEW writes \in Seq(Writing), writes # << >>,
         Packet(w, c, writes)
  PROVE  /\ todo' \in [Writers -> Seq(Writing)]
         /\ \A v \in Writers : copying[v] => todo'[v] # << >>
<1>2. PICK link \in Links(c) : todo' = [todo EXCEPT ![w] = writes \o link]
  BY DEF Packet
<1>3. link = << >> \/ \E x \in Writing : link = <<x>> /\ x.part = "link"
  BY DEF Links, Part, Writing
<1>4. link \in Seq(Writing)
  <2>1. ASSUME NEW x \in Writing, link = <<x>> PROVE link \in Seq(Writing)
    BY <2>1
  <2>2. CASE link = << >>
    BY <2>2
  <2> QED
    BY <1>3, <2>1, <2>2
<1>5. writes \o link \in Seq(Writing) /\ writes \o link # << >>
  BY <1>4
<1> QED
  BY <1>2, <1>5 DEF TypeOK

LEMMA TypeWriter ==
  ASSUME TypeOK, NEW w \in Writers, Writer(w)
  PROVE  TypeOK'
<1> USE DEF place, probe, history, checks, capture
<1>0. /\ diskWriteCell \in Cells /\ (diskWriteCell + 1) % CellNum \in Cells
      /\ writeCell[w] # None => writeCell[w] \in Cells
  BY MoreRemainders DEF TypeOK
<1>1. CASE Start(w)
  BY <1>0, <1>1 DEF Start, TakeCell, TypeOK
<1>2. CASE PacketFits(w)
  <2> DEFINE writes == <<Data(writeCell[w])>>
  <2>1. Packet(w, writeCell[w], writes) /\ UNCHANGED <<diskWriteCell, writeCell, out, done>>
    BY <1>2 DEF PacketFits
  <2>2. writes \in Seq(Writing) /\ writes # << >>
    BY <1>0, <2>1 DEF Packet, Idle, Data, Part, Writing
  <2> HIDE DEF writes
  <2>3. /\ todo' \in [Writers -> Seq(Writing)]
        /\ \A v \in Writers : copying[v] => todo'[v] # << >>
    BY <2>1, <2>2, PacketType
  <2> QED
    BY <2>1, <2>3 DEF Packet, TypeOK
<1>3. CASE PacketSplit(w)
  <2> DEFINE old == writeCell[w]
             writes == <<Data(old), Pointer(old), Data(diskWriteCell)>>
  <2>1. Packet(w, old, writes) /\ TakeCell(w) /\ UNCHANGED <<out, done>>
    BY <1>3 DEF PacketSplit
  <2>2. writes \in Seq(Writing) /\ writes # << >>
    BY <1>0, <2>1 DEF Packet, Idle, Data, Pointer, Part, Writing
  <2> HIDE DEF writes
  <2>3. /\ todo' \in [Writers -> Seq(Writing)]
        /\ \A v \in Writers : copying[v] => todo'[v] # << >>
    BY <2>1, <2>2, PacketType
  <2> QED
    BY <1>0, <2>1, <2>3 DEF Packet, TakeCell, TypeOK
<1>s. CASE PacketStray(w)
  <2> DEFINE old == writeCell[w]
  <2>0. old \in Cells
    BY <1>0, <1>s DEF PacketStray, Packet, Idle
  <2>1. PICK n \in 1 .. MaxStray : LET at == (old + n) % CellNum IN
          Packet(w, at, <<Part("stray", at), Part("end", at), Part("rest", diskWriteCell)>>)
    BY <1>s DEF PacketStray
  <2> DEFINE at == (old + n) % CellNum
             writes == <<Part("stray", at), Part("end", at), Part("rest", diskWriteCell)>>
  <2>2. at \in Cells
    <3>1. old + n \in Nat
      BY <2>0 DEF Cells
    <3> QED
      BY <3>1, Remainders
  <2>3. Packet(w, at, writes)
    BY <2>1
  <2> HIDE DEF at
  <2>4. writes \in Seq(Writing) /\ writes # << >>
    BY <1>0, <2>2 DEF Part, Writing
  <2>5. TakeCell(w) /\ out' = out \ {w} /\ done' = done \cup {old}
    BY <1>s DEF PacketStray
  <2> HIDE DEF writes
  <2>6. /\ todo' \in [Writers -> Seq(Writing)]
        /\ \A v \in Writers : copying[v] => todo'[v] # << >>
    BY <2>3, <2>4, PacketType
  <2> QED
    BY <1>0, <2>0, <2>3, <2>5, <2>6 DEF Packet, TakeCell, TypeOK
<1>d. CASE PacketDropped(w)
  BY <1>d DEF PacketDropped, TypeOK
<1>4. CASE WriteBegin(w)
  BY <1>4 DEF WriteBegin, TypeOK
<1>5. CASE WriteFails(w)
  <2> DEFINE x == Head(todo[w])
  <2>1. x \in Writing /\ Tail(todo[w]) \in Seq(Writing) /\ todo[w] \in Seq(Writing)
    BY <1>5, TailType DEF WriteFails, TypeOK
  <2>2. Told(x) \in DiskIds
    BY <2>1, ToldType
  <2>3. diskWriteIds' \in [Writers -> DiskIds]
    BY <1>5, <2>2 DEF WriteFails, Tell, TypeOK
  <2>4. todo' \in [Writers -> Seq(Writing)] /\ copying' = copying /\ ~copying[w]
        /\ \A v \in Writers : v # w => todo'[v] = todo[v]
    BY <1>5, <2>1 DEF WriteFails, TypeOK
  <2>5. \A v \in Writers : copying'[v] => todo'[v] # << >>
    BY <2>4 DEF TypeOK
  <2> QED
    BY <1>5, <2>3, <2>4, <2>5 DEF WriteFails, TypeOK
<1>6. CASE WriteEnd(w)
  <2> DEFINE x == Head(todo[w])
  <2>1. x \in Writing /\ Tail(todo[w]) \in Seq(Writing)
    BY <1>6, TailType DEF WriteEnd, TypeOK
  <2>2. Told(x) \in DiskIds /\ DiskIdOf(x.cell) \in DiskIds /\ x.cell \in Cells
    BY <2>1, ToldType DEF Writing
  <2>3. diskWriteIds' \in [Writers -> DiskIds]
    BY <1>6, <2>2 DEF WriteEnd, Tell, TypeOK
  <2>4. todo' \in [Writers -> Seq(Writing)] /\ copying' \in [Writers -> BOOLEAN]
        /\ ~copying'[w] /\ \A v \in Writers : v # w => todo'[v] = todo[v] /\ copying'[v] = copying[v]
    BY <1>6, <2>1 DEF WriteEnd, TypeOK
  <2>5. dirty' \subseteq Blocks /\ done' \subseteq Cells
    <3>1. BlockOf(DiskIdOf(x.cell)) \in Blocks
      BY <2>2, MoreRemainders
    <3> QED
      BY <1>6, <2>2, <3>1 DEF WriteEnd, TypeOK
  <2> QED
    BY <1>6, <2>3, <2>4, <2>5 DEF WriteEnd, TypeOK
<1>7. CASE Quit(w)
  BY <1>7 DEF Quit, TypeOK
<1>8. CASE Dies(w)
  BY <1>8 DEF Dies, TypeOK
<1>9. CASE StopCapture(w)
  BY <1>9 DEF StopCapture, TypeOK
<1> QED
  BY <1>1, <1>2, <1>3, <1>s, <1>d, <1>4, <1>5, <1>6, <1>7, <1>8, <1>9 DEF Writer, Write, Full

LEMMA TypeGet ==
  ASSUME TypeOK, NEW t \in Checkers, GetBlock(t)
  PROVE  TypeOK'
<1>1. blockCheckIds[t] \in Blocks /\ (blockCheckIds[t] + CheckNum) % BlockNum \in Blocks
  BY MoreRemainders DEF TypeOK
<1>2. 0 \in 0 .. RSSNum
  BY Sizes
<1> QED
  BY <1>1, <1>2 DEF GetBlock, TypeOK, capture, place, probe, history

LEMMA TypeRecycled ==
  ASSUME TypeOK, NEW b \in Blocks, Recycled(b)
  PROVE  /\ blockDiskId' \in [Blocks -> DiskIds]
         /\ dirty' \subseteq Blocks /\ done' \subseteq Cells
BY MoreRemainders DEF Recycled, TypeOK

LEMMA TypeChecker ==
  ASSUME TypeOK, NEW t \in Checkers, Checker(t) \/ StopDisk(t)
  PROVE  TypeOK'
<1> USE DEF capture, place, probe, history
<1>0. 0 \in 0 .. RSSNum
  BY Sizes
<1>1. CASE CheckNext(t)
  <2>1. passed' \in [Checkers -> 0 .. RSSNum]
    BY <1>1, <1>0, Sizes DEF CheckNext, TypeOK
  <2> QED
    BY <1>1, <2>1 DEF CheckNext, TypeOK
<1>2. CASE TakeBlock(t) \/ DrainBlock(t)
  BY <1>2, TypeGet DEF TakeBlock, DrainBlock
<1>3. CASE Drained(t)
  BY <1>3 DEF Drained, TypeOK
<1>4. CASE AddBlock(t)
  <2>1. held[t] \in Blocks /\ held[t] # None
    BY <1>4 DEF AddBlock, TypeOK
  <2>2. flight' \in [Blocks -> Seq(DiskIds)]
    BY <1>4, <2>1 DEF AddBlock, TypeOK
  <2> QED
    BY <1>4, <2>2 DEF AddBlock, TypeOK
<1>5. CASE AddBlockFails(t)
  <2>1. held[t] \in Blocks /\ Recycled(held[t])
    BY <1>5 DEF AddBlockFails, TypeOK
  <2> QED
    BY <1>5, <2>1, TypeRecycled DEF AddBlockFails, TypeOK
<1>6. CASE StopDisk(t)
  BY <1>0, <1>6 DEF StopDisk, TypeOK
<1> QED
  BY <1>1, <1>2, <1>3, <1>4, <1>5, <1>6 DEF Checker

LEMMA TypeStep == TypeOK /\ [Next]_vars => TypeOK'
<1> USE DEF capture, place, probe, history, checks
<1> SUFFICES ASSUME TypeOK, [Next]_vars PROVE TypeOK'
  OBVIOUS
<1>1. ASSUME NEW w \in Writers, Writer(w) PROVE TypeOK'
  BY <1>1, TypeWriter
<1>2. ASSUME NEW t \in Checkers, Checker(t) \/ StopDisk(t) PROVE TypeOK'
  BY <1>2, TypeChecker
<1>3. ASSUME NEW b \in Blocks, Complete(b) PROVE TypeOK'
  <2>1. Recycled(b)
    BY <1>3 DEF Complete
  <2>2. flight' \in [Blocks -> Seq(DiskIds)]
    <3>1. flight[b] \in Seq(DiskIds) /\ flight[b] # << >>
      BY <1>3 DEF Complete, TypeOK
    <3>2. Tail(flight[b]) \in Seq(DiskIds)
      BY <3>1, TailType
    <3> QED
      BY <1>3, <3>2 DEF Complete, TypeOK
  <2> QED
    BY <1>3, <2>1, <2>2, TypeRecycled DEF Complete, TypeOK
<1>5. CASE UNCHANGED vars
  BY <1>5 DEF vars, TypeOK
<1> QED
  BY <1>1, <1>2, <1>3, <1>5 DEF Next
-----------------------------------------------------------------------------
(* The invariant *)

LastOf(n) == n % CellsPerBlock = CellsPerBlock - 1

(* What a thread at cell a still has to write: the last k of a packet's    *)
(* three writes, whose first two go to cell g, and perhaps a link.  Cell o *)
(* is the one the thread leaves; g is o unless the packet is a stray one.  *)
Shape(s, k, a, o, g) ==
  /\ Len(s) \in {k, k + 1}
  /\ k >= 1 => s[k].cell = CellAt(a) /\ s[k].part \in {"data", "rest"}
  /\ k >= 2 => /\ s[k - 1].cell = CellAt(g) /\ s[k - 1].part \in {"pointer", "end"}
               /\ g = o => s[k - 1].part = "pointer"
  /\ k = 3  => s[1].cell = CellAt(g) /\ s[1].part \in {"data", "stray"}
  /\ Len(s) = k + 1 => s[k + 1].part = "link"

(* The block of the thread's next write, what that write tells, and the    *)
(* furthest block the thread may have told.                                *)
Here(k, a, g)    == IF k < 2 THEN Blk(a) ELSE Blk(g)
Ahead(k, a, g)   == IF k < 2 THEN Blk(a)
                    ELSE IF k = 2 /\ LastOf(g) THEN Blk(g) + 1 ELSE Blk(g)
Further(k, a, g) == IF k < 2 THEN Blk(a + 1) ELSE Blk(g + 1)

(* A stray packet's pointer tells the block after the one the thread then  *)
(* goes on in when it ends the very cell taken next: so what is told now   *)
(* may be one less than d, the furthest told.                              *)
Tells(w, k, a, d) == \E e \in Nat : /\ diskWriteIds[w] = e % DiskBlockNum
                                    /\ e = d \/ (e + 1 = d /\ (k < 2 => Blk(a) <= e))

(* The cell a thread leaves astray never gets its pointer.                 *)
Gone(o, B) == Blk(o) < B \/ CellAt(o) \in done

WriterOK(w, B, N, k, a, o, g, d) ==
  /\ Tells(w, k, a, d)
  /\ Shape(todo[w], k, a, o, g)
  /\ w \in quit => todo[w] = << >>
  /\ writeCell[w] = None => todo[w] = << >>
  /\ writeCell[w] # None => writeCell[w] = CellAt(a) /\ a < N
  /\ k >= 2 => o < a /\ (g = o \/ (g = o + 1 /\ CellsPerBlock > 1 /\ Gone(o, B)))
  /\ k = 2 => Blk(g) < B + BlockNum
  /\ d < BlockNum \/ (/\ writeCell[w] # None /\ d <= Further(k, a, g)
                      /\ d <= Ahead(k, a, g) \/ d < B + BlockNum)
  /\ B = 0 \/ d >= B + BlockNum - 1
  /\ k = 0 /\ todo[w] # << >> => d < B + BlockNum
  /\ copying[w] => d < B + BlockNum /\ CanWrite(Head(todo[w]))

Holds(w, k, a, o, n) == writeCell[w] # None /\ (n = a \/ (k >= 2 /\ n = o))

Filled(n, B) == Blk(n) < B + BlockNum /\ (Blk(n) >= B => CellAt(n) \in done)

CellsOK(B, N, k, a, o) ==
  \A n \in 0 .. N - 1 : Filled(n, B) \/ \E w \in Writers : Holds(w, k[w], a[w], o[w], n)

(* A thread has told that it has come to block u, and will not go back.    *)
Reached(w, k, a, g, d, u) == writeCell[w] # None /\ u <= d /\ u <= Here(k, a, g)

DirtyOK(B, k, a, g, d) ==
  \A u \in B .. B + BlockNum - 1 : u % BlockNum \in dirty =>
    \E w \in Writers : Reached(w, k[w], a[w], g[w], d[w], u)

BlocksOK(B) == \A u \in B .. B + BlockNum - 1 : blockDiskId[u % BlockNum] = u % DiskBlockNum

CheckersOK(d, c) ==
  /\ \A t \in Checkers : /\ blockCheckIds[t] = c[t] % BlockNum
                         /\ \A w \in Writers : w < passed[t] => d[w] >= c[t] + BlockNum
  /\ \A s, t \in Checkers : s # t => c[s] # c[t]

AllPast(B, d) == \A w \in Writers : d[w] >= B + BlockNum

NoneFlying == \A b \in Blocks : flight[b] = << >>
NoneHeld   == \A t \in Checkers : held[t] = None
Holding(t, B) == held[t] = B % BlockNum /\ (\A s \in Checkers \ {t} : held[s] = None) /\ NoneFlying
Flying(B) == /\ NoneHeld
             /\ \A b \in Blocks : IF b = B % BlockNum THEN Len(flight[b]) = 1 ELSE flight[b] = << >>

TakenOK(B, d, c) ==
  \/ NoneHeld /\ NoneFlying /\ \A t \in Checkers : c[t] \in B .. B + CheckNum - 1
  \/ /\ Flying(B) \/ \E t \in Checkers : Holding(t, B)
     /\ AllPast(B, d)
     /\ \A t \in Checkers : c[t] \in B + 1 .. B + CheckNum

RInv(B, N, k, a, o, g, d, c) ==
  /\ diskWriteCell = CellAt(N)
  /\ \A w \in Writers : WriterOK(w, B, N, k[w], a[w], o[w], g[w], d[w])
  /\ CellsOK(B, N, k, a, o)
  /\ DirtyOK(B, k, a, g, d)
  /\ BlocksOK(B)
  /\ CheckersOK(d, c)
  /\ TakenOK(B, d, c)

Ghosts(B, N, k, a, o, g, d, c) ==
  /\ B \in Nat /\ N \in Nat
  /\ k \in [Writers -> 0 .. 3]
  /\ a \in [Writers -> Nat] /\ o \in [Writers -> Nat] /\ g \in [Writers -> Nat]
  /\ d \in [Writers -> Nat] /\ c \in [Checkers -> Nat]

Ordered == \E B, N, k, a, o, g, d, c : Ghosts(B, N, k, a, o, g, d, c) /\ RInv(B, N, k, a, o, g, d, c)
-----------------------------------------------------------------------------
LEMMA Fits ==
  ASSUME DelayFits
  PROVE  /\ BlockNum \in Nat /\ BlockNum >= 2 /\ CheckNum \in 1 .. BlockNum - 1
         /\ DiskBlockNum \in Nat /\ DiskBlockNum >= 4 * BlockNum + 1
         /\ RSSNum \in 1 .. BlockNum /\ Delay = BlockNum - 1
         /\ MaxStray = 0 \/ (MaxStray = 1 /\ CellsPerBlock > 1)
BY Sizes DEF DelayFits

(* A block stands for a place of the disk when that is in the window.      *)
LEMMA StandsIs ==
  ASSUME NEW B \in Nat, BlocksOK(B), NEW u \in Nat, B <= u, u < B + 3 * BlockNum + 1
  PROVE  Stands(u % DiskBlockNum) <=> u < B + BlockNum
<1>1. BlockOf(u % DiskBlockNum) = u % BlockNum
  BY DiskFacts
<1>2. BlockNum \in Nat \ {0} /\ DiskBlockNum \in Nat \ {0} /\ DiskBlockNum > 4 * BlockNum
  BY Sizes
<1>3. CASE u < B + BlockNum
  <2>1. u \in B .. B + BlockNum - 1
    BY <1>2, <1>3
  <2>2. blockDiskId[u % BlockNum] = u % DiskBlockNum
    BY <2>1 DEF BlocksOK
  <2> QED
    BY <1>1, <1>3, <2>2 DEF Stands
<1>4. CASE u >= B + BlockNum
  <2> DEFINE j == (u - B) % BlockNum
             v == B + j
  <2>1. j \in 0 .. BlockNum - 1 /\ u - B \in Nat
    BY <1>2, DivMod
  <2>2. v % BlockNum = u % BlockNum
    <3>1. (((u - B) % BlockNum) + B) % BlockNum = ((u - B) + B) % BlockNum
      BY <1>2, <2>1, ModPlus
    <3>2. (u - B) + B = u /\ ((u - B) % BlockNum) + B = v
      BY <2>1
    <3> QED
      BY <3>1, <3>2
  <2> HIDE DEF j
  <2>3. v \in B .. B + BlockNum - 1 /\ v \in Nat /\ v < u /\ u < v + DiskBlockNum
    BY <1>2, <1>4, <2>1
  <2>4. blockDiskId[u % BlockNum] = v % DiskBlockNum
    BY <2>2, <2>3 DEF BlocksOK
  <2>5. ASSUME v % DiskBlockNum = u % DiskBlockNum PROVE FALSE
    <3> HIDE DEF v
    <3>1. v \in Nat /\ v < u + DiskBlockNum /\ u < v + DiskBlockNum /\ v # u
      BY <1>2, <2>3
    <3>2. v = u
      BY <1>2, <2>5, <3>1, ModApart
    <3> QED
      BY <3>1, <3>2
  <2> QED
    BY <1>1, <1>2, <1>4, <2>4, <2>5 DEF Stands
<1> QED
  BY <1>2, <1>3, <1>4

(* A thread that shares a window with a block is past it only when it has  *)
(* told that it is.                                                        *)
LEMMA PastIs ==
  ASSUME DelayFits, NEW B \in Nat, NEW c \in B .. B + BlockNum - 1, NEW d \in Nat,
         B = 0 \/ d >= B + BlockNum - 1, BlocksOK(B),
         NEW w \in Writers, NEW e \in Nat, diskWriteIds[w] = e % DiskBlockNum, e = d \/ e + 1 = d,
         CheckRSS(c % BlockNum, w)
  PROVE  d >= c + BlockNum
<1>1. BlockNum \in Nat /\ BlockNum >= 2 /\ Delay = BlockNum - 1
  BY Fits
<1>2. blockDiskId[c % BlockNum] = c % DiskBlockNum
  BY DEF BlocksOK
<1>3. AddMod(c % DiskBlockNum, Delay) = (c + Delay) % DiskBlockNum
  <2>1. c \in Nat /\ Delay \in Nat
    BY <1>1
  <2> QED
    BY <2>1, DiskFacts
<1>4. Past(e % DiskBlockNum, (c + Delay) % DiskBlockNum)
  BY <1>2, <1>3 DEF CheckRSS
<1> SUFFICES ASSUME e <= c + Delay PROVE FALSE
  BY <1>1
<1> DEFINE j == (c + Delay) - e
<1>5. j \in 0 .. 2 * BlockNum /\ c + Delay = e + j
  BY <1>1
<1> HIDE DEF j
<1>6. ~ Past(e % DiskBlockNum, (e + j) % DiskBlockNum)
  BY <1>5, NotPast
<1> QED
  BY <1>4, <1>5, <1>6

(* After a stop a thread that has come to a block is found to have.        *)
LEMMA DirectIs ==
  ASSUME NEW B \in Nat, BlocksOK(B), NEW v \in B .. B + BlockNum - 1, NEW d \in Nat,
         v <= d, d < B + 3 * BlockNum,
         NEW w \in Writers, diskWriteIds[w] = d % DiskBlockNum
  PROVE  DirectCheckRSS(v % BlockNum, w)
<1>0. v \in Nat /\ BlockNum \in Nat
  BY Sizes
<1>1. blockDiskId[v % BlockNum] = v % DiskBlockNum /\ v \in Nat /\ BlockNum \in Nat
  BY <1>0 DEF BlocksOK
<1>2. CASE d = v
  BY <1>1, <1>2 DEF DirectCheckRSS
<1>3. CASE d # v
  <2> DEFINE j == d - v
  <2>1. j \in 1 .. 3 * BlockNum - 1 /\ d = v + j
    BY <1>1, <1>3
  <2> HIDE DEF j
  <2>2. Past((v + j) % DiskBlockNum, v % DiskBlockNum)
    BY <1>1, <2>1, IsPast
  <2> QED
    BY <1>1, <2>1, <2>2 DEF DirectCheckRSS
<1> QED
  BY <1>2, <1>3

(* Cells taken reach over no more than three buffers.                      *)
Near(B, N) == \A n \in Nat : n < N => Blk(n) < B + 3 * BlockNum

LEMMA CellsNear ==
  ASSUME NEW B \in Nat, NEW N \in Nat, NEW k, NEW a, NEW o, CellsOK(B, N, k, a, o)
  PROVE  Near(B, N)
<1> DEFINE first == CellsPerBlock * (B + BlockNum)
           T == 0 .. 2 * RSSNum - 1
           Has2(n, i) == IF i < RSSNum THEN a[i] = n ELSE o[i - RSSNum] = n
           f == [n \in first .. N - 1 |-> CHOOSE i \in T : Has2(n, i)]
<1>1. /\ BlockNum \in Nat \ {0} /\ RSSNum \in 1 .. BlockNum /\ CellsPerBlock \in Nat \ {0}
  BY Sizes
<1>2. first \in Nat
  BY <1>1
<1>3. ASSUME NEW n \in first .. N - 1
      PROVE  \E i \in T : Has2(n, i)
  <2>1. n \in 0 .. N - 1 /\ n \in Nat /\ ~ n < first
    BY <1>2
  <2>2. B + BlockNum \in Nat
    BY <1>1
  <2>3. ~ Blk(n) < B + BlockNum
    BY <2>1, <2>2, BlkBound
  <2>4. PICK w \in Writers : Holds(w, k[w], a[w], o[w], n)
    BY <2>1, <2>3 DEF CellsOK, Filled
  <2>5. w \in T /\ w < RSSNum /\ w + RSSNum \in T /\ ~ w + RSSNum < RSSNum
        /\ (w + RSSNum) - RSSNum = w
    BY <1>1 DEF Writers
  <2>6. a[w] = n \/ o[w] = n
    BY <2>4 DEF Holds
  <2>7. CASE a[w] = n
    BY <2>5, <2>7
  <2>8. CASE o[w] = n
    BY <2>5, <2>8
  <2> QED
    BY <2>6, <2>7, <2>8
<1>4. f \in [first .. N - 1 -> T] /\ \A n \in first .. N - 1 : Has2(n, f[n])
  <2> HIDE DEF T, Has2, first
  <2> QED
    BY <1>3
<1>5. \A m, n \in first .. N - 1 : f[m] = f[n] => m = n
  BY <1>4
<1>6. N - first <= 2 * RSSNum
  <2> SUFFICES ASSUME N - first > 2 * RSSNum PROVE FALSE
    BY <1>1, <1>2
  <2> HIDE DEF f, first
  <2>1. IsFiniteSet(first .. N - 1) /\ Cardinality(first .. N - 1) = N - first
    <3>1. first \in Int /\ N - 1 \in Int /\ ~ first > N - 1 /\ (N - 1) - first + 1 = N - first
      BY <1>1, <1>2
    <3> QED
      BY <3>1, FS_Interval
  <2>2. IsFiniteSet(T) /\ Cardinality(T) = 2 * RSSNum
    <3>1. 0 \in Int /\ 2 * RSSNum - 1 \in Int /\ ~ 0 > 2 * RSSNum - 1
          /\ (2 * RSSNum - 1) - 0 + 1 = 2 * RSSNum
      BY <1>1
    <3> QED
      BY <3>1, FS_Interval
  <2>3. Cardinality(T) < Cardinality(first .. N - 1)
    BY <1>1, <1>2, <2>1, <2>2
  <2>4. \E m, n \in first .. N - 1 : m # n /\ f[m] = f[n]
    <3> DEFINE S == first .. N - 1
    <3>1. IsFiniteSet(S) /\ IsFiniteSet(T) /\ Cardinality(T) < Cardinality(S) /\ f \in [S -> T]
      BY <1>4, <2>1, <2>2, <2>3
    <3> HIDE DEF T, S
    <3>2. \E m, n \in S : m # n /\ f[m] = f[n]
      BY ONLY <3>1, FS_PigeonHole
    <3> QED
      BY <3>2 DEF S
  <2> QED
    BY <1>5, <2>4
<1>7. N <= CellsPerBlock * (B + 3 * BlockNum)
  <2>1. CellsPerBlock * (B + 3 * BlockNum) = first + CellsPerBlock * (2 * BlockNum)
    BY <1>1
  <2>2. CellsPerBlock * (2 * BlockNum) >= 1 * (2 * BlockNum)
    BY <1>1
  <2> QED
    BY <1>1, <1>2, <1>6, <2>1, <2>2
<1>8. ASSUME NEW n \in Nat, n < N
      PROVE  Blk(n) < B + 3 * BlockNum
  <2>1. n < CellsPerBlock * (B + 3 * BlockNum) /\ B + 3 * BlockNum \in Nat
    <3> DEFINE z == CellsPerBlock * (B + 3 * BlockNum)
    <3>1. z \in Nat /\ B + 3 * BlockNum \in Nat
      BY <1>1
    <3> HIDE DEF z
    <3>2. N <= z
      BY <1>7 DEF z
    <3>3. n < z
      BY <1>8, <3>1, <3>2
    <3> QED
      BY <3>1, <3>3 DEF z
  <2> QED
    BY <2>1, BlkBound
<1> QED
  BY <1>8 DEF Near
-----------------------------------------------------------------------------
(* A capture thread's step *)

LEMMA AheadType ==
  ASSUME NEW k \in 0 .. 3, NEW a \in Nat, NEW g \in Nat
  PROVE  /\ Ahead(k, a, g) \in Nat /\ Further(k, a, g) \in Nat /\ Here(k, a, g) \in Nat
         /\ Blk(a) \in Nat /\ Blk(g) \in Nat
         /\ Here(k, a, g) <= Ahead(k, a, g) /\ Ahead(k, a, g) <= Further(k, a, g)
         /\ Further(k, a, g) <= Here(k, a, g) + 1
         /\ k = 2 => Ahead(k, a, g) = Further(k, a, g)
         /\ k # 2 => Ahead(k, a, g) = Here(k, a, g)
<1>1. Blk(a) \in Nat /\ Blk(g) \in Nat
  BY CellFacts
<1>2. /\ Blk(a + 1) = IF LastOf(a) THEN Blk(a) + 1 ELSE Blk(a)
      /\ Blk(g + 1) = IF LastOf(g) THEN Blk(g) + 1 ELSE Blk(g)
  BY BlkNext DEF LastOf
<1>3. CASE k < 2
  BY <1>1, <1>2, <1>3 DEF Ahead, Further, Here
<1>4. CASE k \in {2, 3}
  BY <1>1, <1>2, <1>4 DEF Ahead, Further, Here
<1> QED
  BY <1>3, <1>4

LEMMA HereGrows ==
  ASSUME NEW k \in 1 .. 3, NEW a \in Nat, NEW g \in Nat, k >= 2 => g <= a
  PROVE  /\ Here(k, a, g) <= Here(k - 1, a, g)
         /\ Further(k, a, g) <= Further(k - 1, a, g)
<1>1. \A n \in Nat : Blk(n) \in Nat /\ Blk(n + 1) \in Nat
  BY CellFacts
<1>2. k = 2 => Blk(g) <= Blk(a) /\ Blk(g + 1) <= Blk(a + 1)
  <2>1. CASE g < a
    <3>1. g + 1 \in Nat /\ a + 1 \in Nat /\ g + 1 < a + 1
      BY <2>1
    <3> QED
      BY <2>1, <3>1, BlkOrder
  <2>2. CASE g = a
    <3>1. \A m \in Nat : m <= m
      OBVIOUS
    <3> QED
      BY <1>1, <2>2, <3>1
  <2>3. k = 2 => g = a \/ g < a
    OBVIOUS
  <2> QED
    BY <2>1, <2>2, <2>3
<1> QED
  BY <1>1, <1>2 DEF Further, Here

(* What a thread goes to lies in the window or not far before it.          *)
LEMMA Targets ==
  ASSUME DelayFits, NEW B \in Nat, NEW N \in Nat, Near(B, N), NEW w \in Writers, todo[w] \in Seq(Writing),
         NEW k \in 1 .. 3, NEW a \in Nat, NEW o \in Nat, NEW g \in Nat, NEW d \in Nat,
         WriterOK(w, B, N, k, a, o, g, d)
  PROVE  /\ todo[w] # << >> /\ writeCell[w] # None
         /\ B <= Here(k, a, g)
         /\ Ahead(k, a, g) < B + 3 * BlockNum + 1 /\ Here(k, a, g) < B + 3 * BlockNum
         /\ (d < BlockNum /\ B = 0) \/ d <= Further(k, a, g)
         /\ k >= 2 => g <= a
<1>1. todo[w] # << >>
  BY DEF WriterOK, Shape
<1>2. writeCell[w] # None /\ a < N
  BY <1>1 DEF WriterOK
<1>3. BlockNum >= 2 /\ BlockNum \in Nat
  BY Fits
<1>4. /\ Blk(a) \in Nat /\ Blk(g) \in Nat /\ Ahead(k, a, g) \in Nat /\ Further(k, a, g) \in Nat
      /\ Here(k, a, g) \in Nat
      /\ Ahead(k, a, g) <= Further(k, a, g) /\ Further(k, a, g) <= Here(k, a, g) + 1
  <2>1. k \in 0 .. 3
    OBVIOUS
  <2> QED
    BY <2>1, AheadType
<1>5. ((d < BlockNum /\ B = 0) \/ d <= Further(k, a, g)) /\ (B = 0 \/ d >= B + BlockNum - 1)
  BY <1>3, <1>4 DEF WriterOK
<1>6. k >= 2 => g <= a
  BY DEF WriterOK
<1>7. Here(k, a, g) < B + 3 * BlockNum
  BY <1>2, <1>6 DEF Near, Here
<1>8. B <= Here(k, a, g)
  BY <1>3, <1>4, <1>5
<1> QED
  BY <1>1, <1>2, <1>3, <1>4, <1>5, <1>6, <1>7, <1>8

(* What its next write is, where it goes, and what it tells.               *)
LEMMA Pending ==
  ASSUME DelayFits, NEW B \in Nat, NEW N \in Nat, Near(B, N), NEW w \in Writers, todo[w] \in Seq(Writing),
         NEW k \in 1 .. 3, NEW a \in Nat, NEW o \in Nat, NEW g \in Nat, NEW d \in Nat,
         WriterOK(w, B, N, k, a, o, g, d), BlocksOK(B)
  PROVE  /\ Head(todo[w]).cell = CellAt(IF k = 1 THEN a ELSE g)
         /\ Head(todo[w]).part # "link"
         /\ k = 2 /\ g = o => Head(todo[w]).part = "pointer"
         /\ Told(Head(todo[w])) = Ahead(k, a, g) % DiskBlockNum
         /\ CanWrite(Head(todo[w])) => Ahead(k, a, g) < B + BlockNum
<1> DEFINE x == Head(todo[w])
           p == IF k = 1 THEN a ELSE g
<1>0. /\ todo[w] # << >> /\ writeCell[w] # None
      /\ B <= Here(k, a, g) /\ Ahead(k, a, g) < B + 3 * BlockNum + 1
      /\ Here(k, a, g) < B + 3 * BlockNum
  BY Targets
<1>a. k \in 0 .. 3
  OBVIOUS
<1>b. Ahead(k, a, g) \in Nat /\ Blk(g) \in Nat /\ Here(k, a, g) <= Ahead(k, a, g)
      /\ Here(k, a, g) \in Nat
  BY <1>a, AheadType
<1>1. todo[w] # << >> /\ x = todo[w][1]
  BY <1>0
<1>2. /\ x.cell = CellAt(p)
      /\ x.part \in IF k = 2 THEN {"pointer", "end"} ELSE {"data", "rest", "stray"}
      /\ k = 2 /\ g = o => x.part = "pointer"
  BY <1>1 DEF WriterOK, Shape
<1> HIDE DEF x
<1>4. /\ p \in Nat /\ Blk(p) \in Nat
      /\ DiskIdOf(x.cell) = Blk(p) % DiskBlockNum
      /\ x.cell % CellsPerBlock = p % CellsPerBlock
      /\ Next1(Blk(p) % DiskBlockNum) = (Blk(p) + 1) % DiskBlockNum
  BY <1>2, CellFacts, DiskFacts
<1>5. EndsBlock(x) <=> k = 2 /\ LastOf(g)
  BY <1>2, <1>4 DEF EndsBlock, LastOf
<1>6. k = 2 => Stands(Blk(p) % DiskBlockNum)
  <2> SUFFICES ASSUME k = 2 PROVE Stands(Blk(g) % DiskBlockNum)
    OBVIOUS
  <2>1. B <= Blk(g) /\ Blk(g) < B + BlockNum /\ Blk(g) \in Nat
    BY <1>0, <1>b DEF WriterOK, Here
  <2>2. Blk(g) < B + 3 * BlockNum + 1
    BY <2>1, Sizes
  <2> QED
    BY <2>1, <2>2, StandsIs
<1>7. Told(x) = Ahead(k, a, g) % DiskBlockNum
  BY <1>4, <1>5, <1>6 DEF Told, Ahead
<1>8. CanWrite(x) => Ahead(k, a, g) < B + BlockNum
  <2>1. CanWrite(x) => Stands(Ahead(k, a, g) % DiskBlockNum)
    BY <1>7 DEF CanWrite
  <2>2. B <= Ahead(k, a, g) /\ Ahead(k, a, g) < B + 3 * BlockNum + 1 /\ Ahead(k, a, g) \in Nat
    BY <1>0, <1>b
  <2> QED
    BY <2>1, <2>2, StandsIs
<1>9. x.part # "link"
  BY <1>2
<1> QED
  BY <1>2, <1>7, <1>8, <1>9 DEF x

(* After the three only a link is left. *)
LEMMA Linking ==
  ASSUME NEW B, NEW N, NEW w \in Writers, todo[w] \in Seq(Writing),
         NEW a, NEW o, NEW g, NEW d, WriterOK(w, B, N, 0, a, o, g, d), todo[w] # << >>
  PROVE  /\ Head(todo[w]).part = "link" /\ Len(Tail(todo[w])) = 0
         /\ d < B + BlockNum
<1>1. Len(todo[w]) = 1 /\ todo[w][1].part = "link"
  BY DEF WriterOK, Shape
<1>2. Head(todo[w]) = todo[w][1] /\ Len(Tail(todo[w])) = Len(todo[w]) - 1
  OBVIOUS
<1> QED
  BY <1>1, <1>2 DEF WriterOK

Same(v) == /\ diskWriteIds'[v] = diskWriteIds[v] /\ todo'[v] = todo[v] /\ copying'[v] = copying[v]
           /\ writeCell'[v] = writeCell[v] /\ (v \in quit' <=> v \in quit)

LEMMA WriterFrame ==
  ASSUME NEW B \in Nat, NEW N \in Nat, NEW M \in Nat, N <= M, NEW v \in Writers,
         NEW k, NEW a \in Nat, NEW o, NEW g, NEW d, WriterOK(v, B, N, k, a, o, g, d),
         Same(v), blockDiskId' = blockDiskId, done \subseteq done'
  PROVE  WriterOK(v, B, M, k, a, o, g, d)'
<1>1. /\ diskWriteIds'[v] = diskWriteIds[v] /\ todo'[v] = todo[v] /\ copying'[v] = copying[v]
      /\ writeCell'[v] = writeCell[v] /\ (v \in quit' <=> v \in quit)
  BY DEF Same
<1>2. CanWrite(Head(todo[v]))' <=> CanWrite(Head(todo[v]))
  BY <1>1 DEF CanWrite, Told, Stands
<1>3. copying[v] => CanWrite(Head(todo[v]))
  BY DEF WriterOK
<1>4. a < N => a < M
  OBVIOUS
<1>5. Tells(v, k, a, d)' <=> Tells(v, k, a, d)
  BY <1>1 DEF Tells
<1>6. Gone(o, B) => Gone(o, B)'
  BY DEF Gone
<1> QED
  BY <1>1, <1>2, <1>3, <1>4, <1>5, <1>6 DEF WriterOK

(* What the step of one thread must keep. *)
LEMMA ThreadKeeps ==
  ASSUME NEW B, NEW N, NEW k, NEW a, NEW o, NEW g, NEW d, NEW c, Ghosts(B, N, k, a, o, g, d, c),
         TypeOK, RInv(B, N, k, a, o, g, d, c), NEW w \in Writers,
         NEW M \in Nat, N <= M, diskWriteCell' = CellAt(M),
         NEW kk \in 0 .. 3, NEW aa \in Nat, NEW oo \in Nat, NEW gg \in Nat, NEW dd \in Nat,
         \A v \in Writers \ {w} : Same(v), blockDiskId' = blockDiskId,
         WriterOK(w, B, M, kk, aa, oo, gg, dd)', d[w] < BlockNum \/ dd >= d[w],
         UNCHANGED <<checks, flight>>,
         done \subseteq done',
         \A n \in 0 .. M - 1 : n >= N \/ Holds(w, k[w], a[w], o[w], n) =>
                                 Filled(n, B)' \/ Holds(w, kk, aa, oo, n)',
         \A u \in Nat : Reached(w, k[w], a[w], g[w], d[w], u) => Reached(w, kk, aa, gg, dd, u)',
         \A u \in B .. B + BlockNum - 1 : u % BlockNum \in dirty' =>
                                 u % BlockNum \in dirty \/ Reached(w, kk, aa, gg, dd, u)'
  PROVE  Ordered'
<1> DEFINE k2 == [k EXCEPT ![w] = kk]
           a2 == [a EXCEPT ![w] = aa]
           o2 == [o EXCEPT ![w] = oo]
           g2 == [g EXCEPT ![w] = gg]
           d2 == [d EXCEPT ![w] = dd]
<1>0. /\ B \in Nat /\ N \in Nat /\ k \in [Writers -> 0 .. 3] /\ a \in [Writers -> Nat]
      /\ o \in [Writers -> Nat] /\ g \in [Writers -> Nat] /\ d \in [Writers -> Nat]
      /\ c \in [Checkers -> Nat] /\ BlockNum \in Nat
  BY Sizes DEF Ghosts
<1>1. Ghosts(B, M, k2, a2, o2, g2, d2, c)
  BY <1>0 DEF Ghosts
<1>2. /\ k2[w] = kk /\ a2[w] = aa /\ o2[w] = oo /\ g2[w] = gg /\ d2[w] = dd
      /\ \A v \in Writers \ {w} : /\ k2[v] = k[v] /\ a2[v] = a[v] /\ o2[v] = o[v]
                                  /\ g2[v] = g[v] /\ d2[v] = d[v]
  BY <1>0
<1> HIDE DEF k2, a2, o2, g2, d2
<1>3. ASSUME NEW v \in Writers
      PROVE  WriterOK(v, B, M, k2[v], a2[v], o2[v], g2[v], d2[v])'
  <2>1. CASE v = w
    BY <1>2, <2>1
  <2>2. CASE v # w
    <3>1. WriterOK(v, B, N, k[v], a[v], o[v], g[v], d[v]) /\ Same(v) /\ a[v] \in Nat
      BY <1>0, <2>2 DEF RInv
    <3>2. WriterOK(v, B, M, k[v], a[v], o[v], g[v], d[v])'
      BY <1>0, <3>1, WriterFrame
    <3> QED
      BY <1>2, <2>2, <3>2
  <2> QED
    BY <2>1, <2>2
<1>4. CellsOK(B, M, k2, a2, o2)'
  <2>1. ASSUME NEW n \in 0 .. M - 1
        PROVE  Filled(n, B)' \/ \E v \in Writers : Holds(v, k2[v], a2[v], o2[v], n)'
    <3>1. CASE n >= N \/ Holds(w, k[w], a[w], o[w], n)
      BY <1>2, <3>1
    <3>2. CASE ~(n >= N \/ Holds(w, k[w], a[w], o[w], n))
      <4>1. n \in 0 .. N - 1 /\ n \in Nat
        BY <1>0, <3>2
      <4>2. Filled(n, B) \/ \E v \in Writers : Holds(v, k[v], a[v], o[v], n)
        BY <4>1 DEF RInv, CellsOK
      <4>3. ASSUME NEW v \in Writers, Holds(v, k[v], a[v], o[v], n)
            PROVE  Holds(v, k2[v], a2[v], o2[v], n)'
        <5>1. v # w /\ Same(v)
          BY <3>2, <4>3
        <5> QED
          BY <1>2, <4>3, <5>1 DEF Same, Holds
      <4>4. Filled(n, B) => Filled(n, B)'
        BY DEF Filled
      <4> QED
        BY <4>2, <4>3, <4>4
    <3> QED
      BY <3>1, <3>2
  <2> QED
    BY <2>1 DEF CellsOK
<1>5. BlocksOK(B)'
  BY DEF RInv, BlocksOK
<1>6. \A v \in Writers : \A m \in Nat : m >= BlockNum /\ d[v] >= m => d2[v] >= m
  <2>1. ASSUME NEW v \in Writers, NEW m \in Nat, m >= BlockNum, d[v] >= m
        PROVE  d2[v] >= m
    <3>1. d[v] \in Nat /\ ~ d[v] < BlockNum
      BY <1>0, <2>1
    <3> QED
      BY <1>0, <1>2, <2>1, <3>1
  <2> QED
    BY <2>1
<1>7. CheckersOK(d2, c)'
  <2>1. CheckersOK(d, c)
    BY DEF RInv
  <2>2. \A t \in Checkers : c[t] + BlockNum \in Nat /\ c[t] + BlockNum >= BlockNum
    BY <1>0
  <2>3. blockCheckIds' = blockCheckIds /\ passed' = passed
    BY DEF checks
  <2> QED
    BY <1>6, <2>1, <2>2, <2>3 DEF CheckersOK
<1>8. TakenOK(B, d2, c)'
  <2>1. TakenOK(B, d, c)
    BY DEF RInv
  <2>2. B + BlockNum \in Nat /\ B + BlockNum >= BlockNum
    BY <1>0
  <2>3. AllPast(B, d) => AllPast(B, d2)
    BY <1>6, <2>2 DEF AllPast
  <2>4. held' = held /\ flight' = flight
    BY DEF checks
  <2> QED
    BY <2>1, <2>3, <2>4 DEF TakenOK, AllPast, NoneHeld, NoneFlying, Flying, Holding
<1>m. DirtyOK(B, k2, a2, g2, d2)'
  <2>1. ASSUME NEW u \in B .. B + BlockNum - 1, u % BlockNum \in dirty'
        PROVE  \E v \in Writers : Reached(v, k2[v], a2[v], g2[v], d2[v], u)'
    <3>1. CASE Reached(w, kk, aa, gg, dd, u)'
      BY <1>2, <3>1
    <3>2. CASE u % BlockNum \in dirty
      <4>1. PICK v \in Writers : Reached(v, k[v], a[v], g[v], d[v], u)
        BY <3>2 DEF RInv, DirtyOK
      <4>2. CASE v = w
        <5>1. u \in Nat
          BY <1>0
        <5> QED
          BY <1>2, <4>1, <4>2, <5>1
      <4>3. CASE v # w
        <5>1. Same(v)
          BY <4>3
        <5> QED
          BY <1>2, <4>1, <4>3, <5>1 DEF Same, Reached
      <4> QED
        BY <4>2, <4>3
    <3> QED
      BY <2>1, <3>1, <3>2
  <2> QED
    BY <2>1 DEF DirtyOK
<1>9. RInv(B, M, k2, a2, o2, g2, d2, c)'
  BY <1>3, <1>4, <1>5, <1>7, <1>8, <1>m DEF RInv
<1> QED
  BY <1>1, <1>9 DEF Ordered, Ghosts

(* What is written before the link. *)
LEMMA Linked ==
  ASSUME NEW S, NEW s \in Seq(S), NEW t \in Seq(S)
  PROVE  /\ Len(s \o t) = Len(s) + Len(t)
         /\ \A i \in 1 .. Len(s) : (s \o t)[i] = s[i]
         /\ \A i \in 1 .. Len(t) : (s \o t)[i + Len(s)] = t[i]
  OBVIOUS

LEMMA LinkedOne ==
  ASSUME NEW x \in Writing, NEW link \in Seq(Writing), Len(link) \in {0, 1},
         Len(link) = 1 => link[1].part = "link"
  PROVE  /\ Len(<<x>> \o link) \in {1, 2} /\ (<<x>> \o link)[1] = x
         /\ Len(<<x>> \o link) = 2 => (<<x>> \o link)[2].part = "link"
<1> DEFINE s == <<x>>
           r == s \o link
<1>1. s \in Seq(Writing) /\ Len(s) = 1 /\ s[1] = x
  OBVIOUS
<1> HIDE DEF s
<1>2. /\ Len(r) = Len(s) + Len(link)
      /\ \A i \in 1 .. Len(s) : r[i] = s[i]
      /\ \A i \in 1 .. Len(link) : r[i + Len(s)] = link[i]
  BY <1>1, Linked
<1> HIDE DEF r
<1>3. Len(r) \in {1, 2} /\ r[1] = x
  BY <1>1, <1>2
<1>4. ASSUME Len(r) = 2 PROVE r[2].part = "link"
  <2>1. Len(link) = 1
    <3>1. Len(link) \in {0, 1} /\ Len(r) = 1 + Len(link)
      BY <1>1, <1>2
    <3> QED
      BY <1>4, <3>1
  <2>2. r[1 + Len(s)] = link[1] /\ 1 + Len(s) = 2
    BY <1>1, <1>2, <2>1
  <2> QED
    BY <2>1, <2>2
<1> QED
  BY <1>3, <1>4 DEF r, s

LEMMA LinkedThree ==
  ASSUME NEW x \in Writing, NEW y \in Writing, NEW z \in Writing,
         NEW link \in Seq(Writing), Len(link) \in {0, 1},
         Len(link) = 1 => link[1].part = "link"
  PROVE  /\ Len(<<x, y, z>> \o link) \in {3, 4}
         /\ (<<x, y, z>> \o link)[1] = x /\ (<<x, y, z>> \o link)[2] = y
         /\ (<<x, y, z>> \o link)[3] = z
         /\ Len(<<x, y, z>> \o link) = 4 => (<<x, y, z>> \o link)[4].part = "link"
<1> DEFINE s == <<x, y, z>>
           r == s \o link
<1>1. Len(s) = 3 /\ s[1] = x /\ s[2] = y /\ s[3] = z
  OBVIOUS
<1>0. s \in Seq(Writing)
  OBVIOUS
<1> HIDE DEF s
<1>2. /\ Len(r) = Len(s) + Len(link)
      /\ \A i \in 1 .. Len(s) : r[i] = s[i]
      /\ \A i \in 1 .. Len(link) : r[i + Len(s)] = link[i]
  BY <1>0, Linked
<1> HIDE DEF r
<1>3. Len(r) \in {3, 4} /\ r[1] = x /\ r[2] = y /\ r[3] = z
  BY <1>1, <1>2
<1>4. ASSUME Len(r) = 4 PROVE r[4].part = "link"
  <2>1. Len(link) = 1
    <3>1. Len(link) \in {0, 1} /\ Len(r) = 3 + Len(link)
      BY <1>1, <1>2
    <3> QED
      BY <1>4, <3>1
  <2>2. r[1 + Len(s)] = link[1] /\ 1 + Len(s) = 4
    BY <1>1, <1>2, <2>1
  <2> QED
    BY <2>1, <2>2
<1> QED
  BY <1>3, <1>4 DEF r, s

LEMMA PacketLinks ==
  ASSUME TypeOK, NEW w \in Writers, NEW cell, NEW writes, Packet(w, cell, writes)
  PROVE  /\ \E link \in Seq(Writing) : /\ Len(link) \in {0, 1} /\ (Len(link) = 1 => link[1].part = "link")
                                       /\ todo'[w] = writes \o link
         /\ todo[w] = << >> /\ writeCell[w] \in Cells /\ writeCell[w] # None /\ w \notin quit
         /\ \A v \in Writers \ {w} : todo'[v] = todo[v]
         /\ UNCHANGED <<diskWriteIds, blockDiskId, copying, quit, checks, flight, dirty>>
         /\ ~copying[w]
<1>1. writeCell[w] \in Cells /\ writeCell[w] # None
  BY DEF Packet, Idle, TypeOK
<1>2. PICK link \in Links(cell) : todo' = [todo EXCEPT ![w] = writes \o link]
  BY DEF Packet
<1>3. link = << >> \/ \E x \in Writing : link = <<x>> /\ x.part = "link"
  BY DEF Links, Part, Writing
<1>4. link \in Seq(Writing) /\ Len(link) \in {0, 1} /\ (Len(link) = 1 => link[1].part = "link")
  <2>1. ASSUME NEW x \in Writing, link = <<x>>, x.part = "link"
        PROVE  link \in Seq(Writing) /\ Len(link) \in {0, 1} /\ (Len(link) = 1 => link[1].part = "link")
    BY <2>1
  <2>2. CASE link = << >>
    BY <2>2
  <2> QED
    BY <1>3, <2>1, <2>2
<1>5. todo'[w] = writes \o link /\ \A v \in Writers \ {w} : todo'[v] = todo[v]
  BY <1>2 DEF TypeOK
<1> QED
  BY <1>1, <1>4, <1>5 DEF Packet, Idle, TypeOK

(* A thread's ghosts as RInv has them. *)
LEMMA ThreadOf ==
  ASSUME NEW B, NEW N, NEW k, NEW a, NEW o, NEW g, NEW d, NEW c, Ghosts(B, N, k, a, o, g, d, c),
         RInv(B, N, k, a, o, g, d, c), NEW w \in Writers
  PROVE  /\ B \in Nat /\ N \in Nat /\ k[w] \in 0 .. 3 /\ a[w] \in Nat /\ o[w] \in Nat /\ g[w] \in Nat /\ d[w] \in Nat
         /\ diskWriteCell = CellAt(N) /\ (N + 1) \in Nat /\ (diskWriteCell + 1) % CellNum = CellAt(N + 1)
         /\ WriterOK(w, B, N, k[w], a[w], o[w], g[w], d[w])
         /\ Near(B, N) /\ BlocksOK(B)
<1>1. CellsOK(B, N, k, a, o) /\ B \in Nat /\ N \in Nat
  BY DEF RInv, Ghosts
<1>2. Near(B, N)
  BY <1>1, CellsNear
<1>3. (CellAt(N) + 1) % CellNum = CellAt(N + 1)
  BY <1>1, CellFacts
<1> QED
  BY <1>1, <1>2, <1>3 DEF RInv, Ghosts

LEMMA StartStep ==
  ASSUME TypeOK, Ordered, NEW w \in Writers, Start(w)
  PROVE  Ordered'
<1>1. PICK B, N, k, a, o, g, d, c : Ghosts(B, N, k, a, o, g, d, c) /\ RInv(B, N, k, a, o, g, d, c)
  BY DEF Ordered
<1>2. /\ B \in Nat /\ N \in Nat /\ k[w] \in 0 .. 3 /\ a[w] \in Nat /\ o[w] \in Nat /\ g[w] \in Nat /\ d[w] \in Nat
      /\ diskWriteCell = CellAt(N) /\ (N + 1) \in Nat /\ (diskWriteCell + 1) % CellNum = CellAt(N + 1)
      /\ WriterOK(w, B, N, k[w], a[w], o[w], g[w], d[w])
  BY <1>1, ThreadOf
<1>3. /\ writeCell[w] = None /\ writeCell'[w] = CellAt(N) /\ diskWriteCell' = CellAt(N + 1)
      /\ \A v \in Writers \ {w} : writeCell'[v] = writeCell[v]
      /\ UNCHANGED <<diskWriteIds, blockDiskId, todo, copying, quit, checks, flight, dirty, done>>
  BY <1>2 DEF Start, TakeCell, TypeOK, history
<1>4. \A v \in Writers \ {w} : Same(v)
  BY <1>3 DEF Same
<1>5. k[w] = 0 /\ todo[w] = << >> /\ ~copying[w]
  <2>1. todo[w] = << >>
    BY <1>2, <1>3 DEF WriterOK
  <2>2. Len(todo[w]) = 0
    BY <2>1
  <2>3. Len(todo[w]) \in {k[w], k[w] + 1}
    BY <1>2 DEF WriterOK, Shape
  <2>4. k[w] = 0
    BY <1>2, <2>2, <2>3
  <2> QED
    BY <2>1, <2>4 DEF TypeOK
<1>6. CellAt(N) # None
  BY <1>2, CellFacts, Sizes DEF Cells
<1>7. d[w] < BlockNum /\ B = 0
  BY <1>2, <1>3, Sizes DEF WriterOK
<1>8. PICK dd \in Nat : diskWriteIds[w] = dd % DiskBlockNum /\ dd < BlockNum
  <2>1. PICK e \in Nat : diskWriteIds[w] = e % DiskBlockNum /\ (e = d[w] \/ e + 1 = d[w])
    BY <1>2 DEF WriterOK, Tells
  <2>2. e < BlockNum
    BY <1>2, <1>7, <2>1, Sizes
  <2> QED
    BY <2>1, <2>2
<1>9. WriterOK(w, B, N + 1, 0, N, o[w], g[w], dd)'
  <2>1. Shape(todo[w], 0, N, o[w], g[w])
    BY <1>5 DEF Shape
  <2>2. Tells(w, 0, N, dd)'
    BY <1>3, <1>8 DEF Tells
  <2> QED
    BY <1>2, <1>3, <1>5, <1>6, <1>7, <1>8, <2>1, <2>2 DEF WriterOK
<1>10. \A n \in 0 .. (N + 1) - 1 : n >= N \/ Holds(w, k[w], a[w], o[w], n) =>
                                 Filled(n, B)' \/ Holds(w, 0, N, o[w], n)'
  BY <1>2, <1>3, <1>6 DEF Holds
<1>11. UNCHANGED <<checks, flight>> /\ done \subseteq done' /\ blockDiskId' = blockDiskId
  BY <1>3
<1>12. 0 \in 0 .. 3 /\ N <= N + 1
  BY <1>2
<1>13. \A u \in Nat : Reached(w, k[w], a[w], g[w], d[w], u) => Reached(w, 0, N, g[w], dd, u)'
  BY <1>3 DEF Reached
<1>14. \A u \in B .. B + BlockNum - 1 : u % BlockNum \in dirty' =>
                                 u % BlockNum \in dirty \/ Reached(w, 0, N, g[w], dd, u)'
  BY <1>3
<1> QED
  BY <1>1, <1>2, <1>3, <1>4, <1>7, <1>8, <1>9, <1>10, <1>11, <1>12, <1>13, <1>14, ThreadKeeps

LEMMA FitsStep ==
  ASSUME TypeOK, Ordered, NEW w \in Writers, PacketFits(w)
  PROVE  Ordered'
<1>1. PICK B, N, k, a, o, g, d, c : Ghosts(B, N, k, a, o, g, d, c) /\ RInv(B, N, k, a, o, g, d, c)
  BY DEF Ordered
<1>2. /\ B \in Nat /\ N \in Nat /\ k[w] \in 0 .. 3 /\ a[w] \in Nat /\ o[w] \in Nat /\ g[w] \in Nat /\ d[w] \in Nat
      /\ diskWriteCell = CellAt(N)
      /\ WriterOK(w, B, N, k[w], a[w], o[w], g[w], d[w])
  BY <1>1, ThreadOf
<1>3. Packet(w, writeCell[w], <<Data(writeCell[w])>>) /\ UNCHANGED <<diskWriteCell, writeCell, done>>
  BY DEF PacketFits, place
<1>4. /\ todo[w] = << >> /\ writeCell[w] \in Cells /\ writeCell[w] # None /\ w \notin quit
      /\ \A v \in Writers \ {w} : todo'[v] = todo[v]
      /\ UNCHANGED <<diskWriteIds, blockDiskId, copying, quit, checks, flight, dirty>>
      /\ ~copying[w]
  BY <1>3, PacketLinks
<1>5. PICK link \in Seq(Writing) : /\ Len(link) \in {0, 1} /\ (Len(link) = 1 => link[1].part = "link")
                                   /\ todo'[w] = <<Data(writeCell[w])>> \o link
  BY <1>3, PacketLinks
<1>6. k[w] = 0 /\ writeCell[w] = CellAt(a[w]) /\ a[w] < N
  BY <1>2, <1>4 DEF WriterOK, Shape
<1>7. Shape(todo'[w], 1, a[w], o[w], g[w]) /\ todo'[w] # << >>
  <2> DEFINE x == Data(writeCell[w])
  <2>1. x \in Writing
    BY <1>4 DEF Data, Part, Writing
  <2> HIDE DEF x
  <2>2. /\ Len(<<x>> \o link) \in {1, 2} /\ (<<x>> \o link)[1] = x
        /\ Len(<<x>> \o link) = 2 => (<<x>> \o link)[2].part = "link"
    BY <1>5, <2>1, LinkedOne
  <2> DEFINE s == <<x>> \o link
  <2>3. todo'[w] = s
    BY <1>5 DEF x
  <2>4. x = Data(CellAt(a[w]))
    BY <1>6 DEF x
  <2>5. Len(s) \in {1, 2} /\ s[1] = Data(CellAt(a[w])) /\ (Len(s) = 2 => s[2].part = "link") /\ s # << >>
    BY <2>2, <2>4
  <2> HIDE DEF s
  <2> QED
    BY <2>3, <2>5 DEF Shape, Data, Part
<1>8. WriterOK(w, B, N, 1, a[w], o[w], g[w], d[w])'
  <2>1. /\ Further(1, a[w], g[w]) = Further(k[w], a[w], g[w])
        /\ Ahead(1, a[w], g[w]) = Ahead(k[w], a[w], g[w])
    BY <1>6 DEF Ahead, Further
  <2>2. Tells(w, 1, a[w], d[w])'
    BY <1>2, <1>4, <1>6 DEF WriterOK, Tells
  <2>3. /\ d[w] < BlockNum \/ (/\ d[w] <= Further(1, a[w], g[w])
                               /\ d[w] <= Ahead(1, a[w], g[w]) \/ d[w] < B + BlockNum)
        /\ B = 0 \/ d[w] >= B + BlockNum - 1
    BY <1>2, <2>1 DEF WriterOK
  <2> QED
    BY <1>3, <1>4, <1>6, <1>7, <2>2, <2>3 DEF WriterOK
<1>9. \A n \in 0 .. N - 1 : n >= N \/ Holds(w, k[w], a[w], o[w], n) =>
                                 Filled(n, B)' \/ Holds(w, 1, a[w], o[w], n)'
  BY <1>2, <1>3, <1>6 DEF Holds
<1>10. \A v \in Writers \ {w} : Same(v)
  BY <1>3, <1>4 DEF Same
<1>11. UNCHANGED <<checks, flight, dirty>> /\ done \subseteq done'
       /\ diskWriteCell' = CellAt(N) /\ blockDiskId' = blockDiskId
  BY <1>2, <1>3, <1>4
<1>12. 1 \in 0 .. 3 /\ N <= N /\ d[w] >= d[w]
  BY <1>2
<1>m. \A u \in Nat : Reached(w, k[w], a[w], g[w], d[w], u) => Reached(w, 1, a[w], g[w], d[w], u)'
  BY <1>3, <1>6 DEF Reached, Here
<1> QED
  BY <1>1, <1>2, <1>8, <1>9, <1>10, <1>11, <1>12, <1>m, ThreadKeeps

LEMMA SplitStep ==
  ASSUME TypeOK, Ordered, NEW w \in Writers, PacketSplit(w)
  PROVE  Ordered'
<1>1. PICK B, N, k, a, o, g, d, c : Ghosts(B, N, k, a, o, g, d, c) /\ RInv(B, N, k, a, o, g, d, c)
  BY DEF Ordered
<1>2. /\ B \in Nat /\ N \in Nat /\ k[w] \in 0 .. 3 /\ a[w] \in Nat /\ o[w] \in Nat /\ g[w] \in Nat /\ d[w] \in Nat
      /\ diskWriteCell = CellAt(N) /\ (N + 1) \in Nat /\ (diskWriteCell + 1) % CellNum = CellAt(N + 1)
      /\ WriterOK(w, B, N, k[w], a[w], o[w], g[w], d[w])
  BY <1>1, ThreadOf
<1> DEFINE x == Data(writeCell[w])
           y == Pointer(writeCell[w])
           z == Data(diskWriteCell)
<1>3. /\ Packet(w, writeCell[w], <<x, y, z>>)
      /\ writeCell' = [writeCell EXCEPT ![w] = diskWriteCell]
      /\ diskWriteCell' = CellAt(N + 1)
      /\ done' = done
  BY <1>2 DEF PacketSplit, TakeCell
<1>4. /\ todo[w] = << >> /\ writeCell[w] \in Cells /\ writeCell[w] # None /\ w \notin quit
      /\ \A v \in Writers \ {w} : todo'[v] = todo[v]
      /\ UNCHANGED <<diskWriteIds, blockDiskId, copying, quit, checks, flight, dirty>>
      /\ ~copying[w]
  <2> HIDE DEF x, y, z
  <2> QED
    BY <1>3, PacketLinks
<1>5. PICK link \in Seq(Writing) : /\ Len(link) \in {0, 1} /\ (Len(link) = 1 => link[1].part = "link")
                                   /\ todo'[w] = <<x, y, z>> \o link
  <2> DEFINE writes == <<x, y, z>>
  <2>1. Packet(w, writeCell[w], writes)
    BY <1>3
  <2> HIDE DEF writes, x, y, z
  <2>2. \E link \in Seq(Writing) : /\ Len(link) \in {0, 1} /\ (Len(link) = 1 => link[1].part = "link")
                                   /\ todo'[w] = writes \o link
    BY <2>1, PacketLinks
  <2> QED
    BY <2>2 DEF writes
<1>6. k[w] = 0 /\ writeCell[w] = CellAt(a[w]) /\ a[w] < N
  BY <1>2, <1>4 DEF WriterOK, Shape
<1>7. Shape(todo'[w], 3, N, a[w], a[w]) /\ todo'[w] # << >>
  <2>1. x \in Writing /\ y \in Writing /\ z \in Writing
    BY <1>4 DEF Data, Pointer, Part, Writing, TypeOK
  <2>2. x = Data(CellAt(a[w])) /\ y = Pointer(CellAt(a[w])) /\ z = Data(CellAt(N))
    BY <1>2, <1>6
  <2> HIDE DEF x, y, z
  <2> DEFINE s == <<x, y, z>> \o link
  <2>3. /\ Len(s) \in {3, 4} /\ s[1] = x /\ s[2] = y /\ s[3] = z
        /\ Len(s) = 4 => s[4].part = "link"
    BY <1>5, <2>1, LinkedThree
  <2>4. todo'[w] = s
    BY <1>5
  <2>5. s # << >>
    BY <2>3
  <2> HIDE DEF s
  <2> QED
    BY <2>2, <2>3, <2>4, <2>5 DEF Shape, Data, Pointer, Part
<1>8. writeCell'[w] = CellAt(N) /\ CellAt(N) # None /\ \A v \in Writers \ {w} : writeCell'[v] = writeCell[v]
  BY <1>2, <1>3, CellFacts, Sizes DEF Cells, TypeOK
<1>9. WriterOK(w, B, N + 1, 3, N, a[w], a[w], d[w])'
  <2>1. /\ Further(3, N, a[w]) = Further(k[w], a[w], g[w])
        /\ Ahead(3, N, a[w]) = Ahead(k[w], a[w], g[w])
    BY <1>6 DEF Ahead, Further
  <2>2. Tells(w, 3, N, d[w])'
    BY <1>2, <1>4 DEF WriterOK, Tells
  <2> QED
    BY <1>2, <1>4, <1>6, <1>7, <1>8, <2>1, <2>2 DEF WriterOK
<1>10. \A n \in 0 .. (N + 1) - 1 : n >= N \/ Holds(w, k[w], a[w], o[w], n) =>
                                 Filled(n, B)' \/ Holds(w, 3, N, a[w], n)'
  BY <1>2, <1>6, <1>8 DEF Holds
<1>11. \A v \in Writers \ {w} : Same(v)
  BY <1>4, <1>8 DEF Same
<1>12. UNCHANGED <<checks, flight, dirty>> /\ done \subseteq done'
       /\ diskWriteCell' = CellAt(N + 1) /\ blockDiskId' = blockDiskId
  BY <1>3, <1>4
<1>13. 3 \in 0 .. 3 /\ N <= N + 1 /\ d[w] >= d[w]
  BY <1>2
<1>m. \A u \in Nat : Reached(w, k[w], a[w], g[w], d[w], u) => Reached(w, 3, N, a[w], d[w], u)'
  BY <1>6, <1>8 DEF Reached, Here
<1> QED
  BY <1>1, <1>2, <1>9, <1>10, <1>11, <1>12, <1>13, <1>m, ThreadKeeps

LEMMA StrayStep ==
  ASSUME DelayFits, TypeOK, Ordered, NEW w \in Writers, PacketStray(w)
  PROVE  Ordered'
<1>1. PICK B, N, k, a, o, g, d, c : Ghosts(B, N, k, a, o, g, d, c) /\ RInv(B, N, k, a, o, g, d, c)
  BY DEF Ordered
<1>2. /\ B \in Nat /\ N \in Nat /\ k[w] \in 0 .. 3 /\ a[w] \in Nat /\ o[w] \in Nat /\ g[w] \in Nat /\ d[w] \in Nat
      /\ diskWriteCell = CellAt(N) /\ (N + 1) \in Nat /\ (diskWriteCell + 1) % CellNum = CellAt(N + 1)
      /\ WriterOK(w, B, N, k[w], a[w], o[w], g[w], d[w])
  BY <1>1, ThreadOf
<1>0. MaxStray = 1 /\ CellsPerBlock > 1
  BY Fits DEF PacketStray
<1> DEFINE at == (writeCell[w] + 1) % CellNum
           x == Part("stray", at)
           y == Part("end", at)
           z == Part("rest", diskWriteCell)
<1>3. /\ Packet(w, at, <<x, y, z>>)
      /\ writeCell' = [writeCell EXCEPT ![w] = diskWriteCell]
      /\ diskWriteCell' = CellAt(N + 1)
      /\ done' = done \cup {writeCell[w]}
  BY <1>0, <1>2 DEF PacketStray, TakeCell
<1>4. /\ todo[w] = << >> /\ writeCell[w] \in Cells /\ writeCell[w] # None /\ w \notin quit
      /\ \A v \in Writers \ {w} : todo'[v] = todo[v]
      /\ UNCHANGED <<diskWriteIds, blockDiskId, copying, quit, checks, flight, dirty>>
      /\ ~copying[w]
  <2> HIDE DEF at, x, y, z
  <2> QED
    BY <1>3, PacketLinks
<1>5. PICK link \in Seq(Writing) : /\ Len(link) \in {0, 1} /\ (Len(link) = 1 => link[1].part = "link")
                                   /\ todo'[w] = <<x, y, z>> \o link
  <2> DEFINE writes == <<x, y, z>>
  <2>1. Packet(w, at, writes)
    BY <1>3
  <2> HIDE DEF writes, at, x, y, z
  <2>2. \E link \in Seq(Writing) : /\ Len(link) \in {0, 1} /\ (Len(link) = 1 => link[1].part = "link")
                                   /\ todo'[w] = writes \o link
    BY <2>1, PacketLinks
  <2> QED
    BY <2>2 DEF writes
<1>6. k[w] = 0 /\ writeCell[w] = CellAt(a[w]) /\ a[w] < N
  BY <1>2, <1>4 DEF WriterOK, Shape
<1>7. Shape(todo'[w], 3, N, a[w], a[w] + 1) /\ todo'[w] # << >>
  <2>0. at = CellAt(a[w] + 1) /\ at \in Cells /\ a[w] + 1 # a[w]
    <3>1. (CellAt(a[w]) + 1) % CellNum = CellAt(a[w] + 1)
      BY <1>2, CellFacts
    <3>2. at = CellAt(a[w] + 1)
      BY <1>6, <3>1
    <3>3. at \in Cells
      BY <1>4, MoreRemainders
    <3> QED
      BY <1>2, <3>2, <3>3
  <2>1. x \in Writing /\ y \in Writing /\ z \in Writing
    BY <2>0 DEF Part, Writing, TypeOK
  <2>2. /\ x = Part("stray", CellAt(a[w] + 1)) /\ y = Part("end", CellAt(a[w] + 1))
        /\ z = Part("rest", CellAt(N)) /\ a[w] + 1 # a[w]
    BY <1>2, <2>0
  <2> HIDE DEF at, x, y, z
  <2> DEFINE s == <<x, y, z>> \o link
  <2>3. /\ Len(s) \in {3, 4} /\ s[1] = x /\ s[2] = y /\ s[3] = z
        /\ Len(s) = 4 => s[4].part = "link"
    BY <1>5, <2>1, LinkedThree
  <2>4. todo'[w] = s
    BY <1>5
  <2>5. s # << >>
    BY <2>3
  <2> HIDE DEF s
  <2> QED
    BY <2>2, <2>3, <2>4, <2>5 DEF Shape, Part
<1>8. writeCell'[w] = CellAt(N) /\ CellAt(N) # None /\ \A v \in Writers \ {w} : writeCell'[v] = writeCell[v]
  BY <1>2, <1>3, CellFacts, Sizes DEF Cells, TypeOK
<1>9. WriterOK(w, B, N + 1, 3, N, a[w], a[w] + 1, d[w])'
  <2>1. /\ Further(k[w], a[w], g[w]) <= Further(3, N, a[w] + 1)
        /\ Ahead(k[w], a[w], g[w]) <= Ahead(3, N, a[w] + 1)
        /\ Further(k[w], a[w], g[w]) \in Nat /\ Ahead(k[w], a[w], g[w]) \in Nat
        /\ Further(3, N, a[w] + 1) \in Nat /\ Ahead(3, N, a[w] + 1) \in Nat
    <3>1. a[w] + 1 \in Nat /\ (a[w] + 1) + 1 \in Nat /\ a[w] < a[w] + 1 /\ a[w] + 1 < (a[w] + 1) + 1
      BY <1>2
    <3>2. /\ Blk(a[w]) <= Blk(a[w] + 1) /\ Blk(a[w] + 1) <= Blk((a[w] + 1) + 1)
          /\ Blk(a[w]) \in Nat /\ Blk(a[w] + 1) \in Nat /\ Blk((a[w] + 1) + 1) \in Nat
      BY <1>2, <3>1, BlkOrder, CellFacts
    <3> QED
      BY <1>6, <3>2 DEF Ahead, Further
  <2>2. Tells(w, 3, N, d[w])'
    BY <1>2, <1>4 DEF WriterOK, Tells
  <2> QED
    <3>1. Gone(a[w], B)'
      BY <1>3, <1>6 DEF Gone
    <3>2. /\ d[w] < BlockNum \/ (/\ d[w] <= Further(3, N, a[w] + 1)
                                 /\ d[w] <= Ahead(3, N, a[w] + 1) \/ d[w] < B + BlockNum)
          /\ B = 0 \/ d[w] >= B + BlockNum - 1
      <4>1. /\ d[w] < BlockNum \/ (/\ d[w] <= Further(k[w], a[w], g[w])
                                   /\ d[w] <= Ahead(k[w], a[w], g[w]) \/ d[w] < B + BlockNum)
            /\ B = 0 \/ d[w] >= B + BlockNum - 1
        BY <1>2 DEF WriterOK
      <4> DEFINE f == Further(k[w], a[w], g[w])
                 h == Ahead(k[w], a[w], g[w])
                 F == Further(3, N, a[w] + 1)
                 H == Ahead(3, N, a[w] + 1)
                 e == d[w]
      <4>2. /\ e \in Nat /\ f \in Nat /\ h \in Nat /\ F \in Nat /\ H \in Nat
            /\ f <= F /\ h <= H
        BY <1>2, <2>1
      <4>3. e < BlockNum \/ (e <= f /\ (e <= h \/ e < B + BlockNum))
        BY <4>1
      <4> HIDE DEF f, h, F, H, e
      <4>4. e < BlockNum \/ (e <= F /\ (e <= H \/ e < B + BlockNum))
        BY <4>2, <4>3
      <4> QED
        BY <4>1, <4>4 DEF F, H, e
    <3> QED
      BY <1>0, <1>2, <1>4, <1>6, <1>7, <1>8, <2>2, <3>1, <3>2 DEF WriterOK
<1>10. \A n \in 0 .. (N + 1) - 1 : n >= N \/ Holds(w, k[w], a[w], o[w], n) =>
                                 Filled(n, B)' \/ Holds(w, 3, N, a[w], n)'
  BY <1>2, <1>6, <1>8 DEF Holds
<1>11. \A v \in Writers \ {w} : Same(v)
  BY <1>4, <1>8 DEF Same
<1>12. UNCHANGED <<checks, flight, dirty>> /\ done \subseteq done'
       /\ diskWriteCell' = CellAt(N + 1) /\ blockDiskId' = blockDiskId
  BY <1>3, <1>4
<1>13. 3 \in 0 .. 3 /\ N <= N + 1 /\ d[w] >= d[w] /\ a[w] + 1 \in Nat
  BY <1>2
<1>m. \A u \in Nat : Reached(w, k[w], a[w], g[w], d[w], u) => Reached(w, 3, N, a[w] + 1, d[w], u)'
  <2>1. Blk(a[w]) <= Blk(a[w] + 1) /\ Blk(a[w]) \in Nat /\ Blk(a[w] + 1) \in Nat
    <3>1. a[w] + 1 \in Nat /\ a[w] < a[w] + 1
      BY <1>2
    <3> QED
      BY <1>2, <3>1, BlkOrder, CellFacts
  <2> QED
    BY <1>6, <1>8, <2>1 DEF Reached, Here
<1> QED
  BY <1>1, <1>2, <1>9, <1>10, <1>11, <1>12, <1>13, <1>m, ThreadKeeps

(* One write done, what is left is that of one write less. *)
LEMMA TailShape ==
  ASSUME NEW s \in Seq(Writing), NEW k \in 1 .. 3, NEW a \in Nat, NEW o \in Nat, NEW g \in Nat,
         Shape(s, k, a, o, g)
  PROVE  Shape(Tail(s), k - 1, a, o, g)
<1> DEFINE t == Tail(s)
<1>1. Len(s) \in {k, k + 1}
  BY DEF Shape
<1>2. Len(t) = Len(s) - 1 /\ \A i \in 1 .. Len(s) - 1 : t[i] = s[i + 1]
  BY <1>1
<1> HIDE DEF t
<1>3. Len(t) \in {k - 1, (k - 1) + 1}
  BY <1>1, <1>2
<1>4. k - 1 >= 1 => t[k - 1] = s[k]
  <2> SUFFICES ASSUME k - 1 >= 1 PROVE t[k - 1] = s[k]
    OBVIOUS
  <2>1. k - 1 \in 1 .. Len(s) - 1 /\ (k - 1) + 1 = k
    BY <1>1
  <2> QED
    BY <1>2, <2>1
<1>5. k - 1 >= 2 => t[(k - 1) - 1] = s[k - 1]
  <2> SUFFICES ASSUME k - 1 >= 2 PROVE t[(k - 1) - 1] = s[k - 1]
    OBVIOUS
  <2>1. (k - 1) - 1 \in 1 .. Len(s) - 1 /\ ((k - 1) - 1) + 1 = k - 1
    BY <1>1
  <2> QED
    BY <1>2, <2>1
<1>6. Len(t) = (k - 1) + 1 => t[(k - 1) + 1].part = "link"
  <2> SUFFICES ASSUME Len(t) = (k - 1) + 1 PROVE t[(k - 1) + 1].part = "link"
    OBVIOUS
  <2>1. Len(s) = k + 1
    BY <1>1, <1>2
  <2>2. k \in 1 .. Len(s) - 1 /\ (k - 1) + 1 = k
    BY <2>1
  <2> QED
    BY <1>2, <2>1, <2>2 DEF Shape
<1>7. k - 1 # 3
  OBVIOUS
<1>8. Shape(t, k - 1, a, o, g)
  BY <1>3, <1>4, <1>5, <1>6, <1>7 DEF Shape
<1> QED
  BY <1>8 DEF t

LEMMA BeginStep ==
  ASSUME DelayFits, TypeOK, Ordered, NEW w \in Writers, WriteBegin(w)
  PROVE  Ordered'
<1>1. PICK B, N, k, a, o, g, d, c : Ghosts(B, N, k, a, o, g, d, c) /\ RInv(B, N, k, a, o, g, d, c)
  BY DEF Ordered
<1>2. /\ B \in Nat /\ N \in Nat /\ k[w] \in 0 .. 3 /\ a[w] \in Nat /\ o[w] \in Nat /\ g[w] \in Nat /\ d[w] \in Nat
      /\ diskWriteCell = CellAt(N) /\ WriterOK(w, B, N, k[w], a[w], o[w], g[w], d[w])
      /\ Near(B, N) /\ BlocksOK(B)
  BY <1>1, ThreadOf
<1>3. /\ todo[w] # << >> /\ todo[w] \in Seq(Writing) /\ CanWrite(Head(todo[w]))
      /\ copying'[w] = TRUE /\ \A v \in Writers \ {w} : copying'[v] = copying[v]
      /\ UNCHANGED <<diskWriteIds, blockDiskId, diskWriteCell, writeCell, todo,
                     quit, checks, flight, dirty, done>>
  BY DEF WriteBegin, TypeOK, place, history
<1>4. \A v \in Writers \ {w} : Same(v)
  BY <1>3 DEF Same
<1>5. d[w] < B + BlockNum
  <2>1. CASE k[w] = 0
    <3>1. WriterOK(w, B, N, 0, a[w], o[w], g[w], d[w])
      BY <1>2, <2>1
    <3> QED
      BY <1>2, <1>3, <3>1, Linking
  <2>2. CASE k[w] \in 1 .. 3
    <3>1. Ahead(k[w], a[w], g[w]) < B + BlockNum
      BY <1>2, <1>3, <2>2, Pending
    <3>2. d[w] < BlockNum \/ d[w] <= Ahead(k[w], a[w], g[w]) \/ d[w] < B + BlockNum
      BY <1>2 DEF WriterOK
    <3>3. Ahead(k[w], a[w], g[w]) \in Nat
      BY <1>2, AheadType
    <3> QED
      BY <1>2, <3>1, <3>2, <3>3, Fits
  <2> QED
    BY <1>2, <2>1, <2>2
<1>6. CanWrite(Head(todo[w]))'
  BY <1>3 DEF CanWrite, Told, Stands
<1>7. WriterOK(w, B, N, k[w], a[w], o[w], g[w], d[w])'
  <2>1. Tells(w, k[w], a[w], d[w])' /\ (Gone(o[w], B) => Gone(o[w], B)')
    BY <1>2, <1>3 DEF WriterOK, Tells, Gone
  <2> QED
    BY <1>2, <1>3, <1>5, <1>6, <2>1 DEF WriterOK
<1>8. \A n \in 0 .. N - 1 : n >= N \/ Holds(w, k[w], a[w], o[w], n) =>
                                 Filled(n, B)' \/ Holds(w, k[w], a[w], o[w], n)'
  BY <1>2, <1>3 DEF Holds
<1>9. UNCHANGED <<checks, flight, dirty>> /\ done \subseteq done'
       /\ diskWriteCell' = CellAt(N) /\ blockDiskId' = blockDiskId
  BY <1>2, <1>3
<1>10. N <= N /\ d[w] >= d[w]
  BY <1>2
<1>m. \A u \in Nat : Reached(w, k[w], a[w], g[w], d[w], u) => Reached(w, k[w], a[w], g[w], d[w], u)'
  BY <1>3 DEF Reached
<1> QED
  BY <1>1, <1>2, <1>4, <1>7, <1>8, <1>9, <1>10, <1>m, ThreadKeeps

(* A link is done with, whether it was written or not. *)
LEMMA LinkDone ==
  ASSUME TypeOK, NEW B, NEW N, NEW k, NEW a, NEW o, NEW g, NEW d, NEW c, Ghosts(B, N, k, a, o, g, d, c),
         RInv(B, N, k, a, o, g, d, c), NEW w \in Writers, k[w] = 0, todo[w] # << >>,
         \A v \in Writers \ {w} : Same(v),
         todo'[w] = Tail(todo[w]), ~copying'[w],
         UNCHANGED <<diskWriteIds, blockDiskId, diskWriteCell, writeCell, quit, checks, flight, dirty, done>>
  PROVE  Ordered'
<1>2. /\ B \in Nat /\ N \in Nat /\ k[w] \in 0 .. 3 /\ a[w] \in Nat /\ o[w] \in Nat /\ g[w] \in Nat /\ d[w] \in Nat
      /\ diskWriteCell = CellAt(N) /\ WriterOK(w, B, N, k[w], a[w], o[w], g[w], d[w])
  BY ThreadOf
<1>3. todo[w] \in Seq(Writing) /\ w \notin quit /\ writeCell[w] # None
  BY <1>2 DEF TypeOK, WriterOK
<1>4. WriterOK(w, B, N, 0, a[w], o[w], g[w], d[w])
  BY <1>2
<1>5. Len(Tail(todo[w])) = 0 /\ d[w] < B + BlockNum
  BY <1>2, <1>3, <1>4, Linking
<1>6. Shape(todo'[w], 0, a[w], o[w], g[w])
  <2> DEFINE s == Tail(todo[w])
  <2>1. Len(s) = 0
    BY <1>5
  <2> HIDE DEF s
  <2>2. Shape(s, 0, a[w], o[w], g[w])
    BY <2>1 DEF Shape
  <2> QED
    BY <2>2 DEF s
<1>7. WriterOK(w, B, N, 0, a[w], o[w], g[w], d[w])'
  <2>1. Tells(w, 0, a[w], d[w])'
    BY <1>4 DEF WriterOK, Tells
  <2> QED
    BY <1>2, <1>3, <1>4, <1>5, <1>6, <2>1 DEF WriterOK
<1>8. \A n \in 0 .. N - 1 : n >= N \/ Holds(w, k[w], a[w], o[w], n) =>
                                 Filled(n, B)' \/ Holds(w, 0, a[w], o[w], n)'
  BY <1>2 DEF Holds
<1>9. UNCHANGED <<checks, flight, dirty>> /\ done \subseteq done'
       /\ diskWriteCell' = CellAt(N) /\ blockDiskId' = blockDiskId
  BY <1>2
<1>10. N <= N /\ d[w] >= d[w] /\ 0 \in 0 .. 3
  BY <1>2
<1>m. \A u \in Nat : Reached(w, k[w], a[w], g[w], d[w], u) => Reached(w, 0, a[w], g[w], d[w], u)'
  BY DEF Reached
<1> QED
  BY <1>2, <1>7, <1>8, <1>9, <1>10, <1>m, ThreadKeeps

(* What a thread has told furthest after it tells where its write goes. *)
Furthest(B, k, a, g, d, dd) ==
  /\ \/ dd = Ahead(k, a, g)
     \/ dd = Ahead(k, a, g) + 1 /\ k # 2 /\ dd < B + BlockNum
  /\ Ahead(k, a, g) <= dd /\ dd <= Further(k, a, g) /\ B <= Ahead(k, a, g)
  /\ B = 0 \/ dd >= B + BlockNum - 1
  /\ d < BlockNum \/ dd >= d

LEMMA Telling ==
  ASSUME DelayFits, NEW B \in Nat, NEW N \in Nat, Near(B, N), NEW w \in Writers, todo[w] \in Seq(Writing),
         NEW k \in 1 .. 3, NEW a \in Nat, NEW o \in Nat, NEW g \in Nat, NEW d \in Nat,
         WriterOK(w, B, N, k, a, o, g, d)
  PROVE  \E dd \in Nat : Furthest(B, k, a, g, d, dd)
<1> DEFINE A == Ahead(k, a, g)
           F == Further(k, a, g)
           H == Here(k, a, g)
<1>1. /\ A \in Nat /\ F \in Nat /\ H \in Nat /\ H <= A /\ A <= F /\ F <= H + 1
      /\ k = 2 => A = F
      /\ k # 2 => A = H
  <2>1. k \in 0 .. 3
    OBVIOUS
  <2> QED
    BY <2>1, AheadType
<1>2. B <= H
  BY Targets
<1>3. /\ d < BlockNum \/ (d <= F /\ (d <= A \/ d < B + BlockNum))
      /\ B = 0 \/ d >= B + BlockNum - 1
  BY DEF WriterOK
<1> HIDE DEF A, F, H
<1>4. BlockNum \in Nat \ {0}
  BY Sizes
<1>5. CASE d < BlockNum \/ d <= A
  <2>1. /\ A = A /\ A <= A /\ A <= F /\ B <= A
        /\ B = 0 \/ A >= B + BlockNum - 1
        /\ d < BlockNum \/ A >= d
    BY <1>1, <1>2, <1>3, <1>4, <1>5
  <2> QED
    BY <1>1, <2>1 DEF A, F, Furthest
<1>6. CASE ~(d < BlockNum \/ d <= A)
  <2>1. /\ d = A + 1 /\ k # 2 /\ d < B + BlockNum
        /\ A <= d /\ d <= F /\ B <= A
        /\ B = 0 \/ d >= B + BlockNum - 1
        /\ d >= d
    BY <1>1, <1>2, <1>3, <1>4, <1>6
  <2> QED
    BY <2>1 DEF A, F, Furthest
<1> QED
  BY <1>5, <1>6

LEMMA FailsStep ==
  ASSUME DelayFits, TypeOK, Ordered, NEW w \in Writers, WriteFails(w)
  PROVE  Ordered'
<1>1. PICK B, N, k, a, o, g, d, c : Ghosts(B, N, k, a, o, g, d, c) /\ RInv(B, N, k, a, o, g, d, c)
  BY DEF Ordered
<1>2. /\ B \in Nat /\ N \in Nat /\ k[w] \in 0 .. 3 /\ a[w] \in Nat /\ o[w] \in Nat /\ g[w] \in Nat /\ d[w] \in Nat
      /\ diskWriteCell = CellAt(N) /\ WriterOK(w, B, N, k[w], a[w], o[w], g[w], d[w])
      /\ Near(B, N) /\ BlocksOK(B)
  BY <1>1, ThreadOf
<1> DEFINE x == Head(todo[w])
<1>3. /\ todo[w] # << >> /\ todo[w] \in Seq(Writing) /\ ~copying'[w]
      /\ todo'[w] = (IF x.part = "link" THEN Tail(todo[w]) ELSE todo[w])
      /\ \A v \in Writers \ {w} : todo'[v] = todo[v]
      /\ Tell(w, x)
      /\ UNCHANGED <<blockDiskId, diskWriteCell, writeCell, copying, quit,
                     checks, flight, dirty, done>>
  BY DEF WriteFails, TypeOK, place, history
<1> HIDE DEF x
<1>4. \A v \in Writers \ {w} : diskWriteIds'[v] = diskWriteIds[v]
  BY <1>3 DEF Tell, TypeOK
<1>5. \A v \in Writers \ {w} : Same(v)
  BY <1>3, <1>4 DEF Same
<1>6. CASE k[w] = 0
  <2>1. x.part = "link"
    <3>1. WriterOK(w, B, N, 0, a[w], o[w], g[w], d[w])
      BY <1>2, <1>6
    <3> QED
      BY <1>2, <1>3, <3>1, Linking DEF x
  <2>2. diskWriteIds' = diskWriteIds /\ todo'[w] = Tail(todo[w])
    BY <1>3, <2>1 DEF Tell
  <2> QED
    BY <1>1, <1>3, <1>5, <1>6, <2>2, LinkDone
<1>7. CASE k[w] \in 1 .. 3
  <2>0. /\ B \in Nat /\ N \in Nat /\ Near(B, N) /\ BlocksOK(B) /\ todo[w] \in Seq(Writing)
        /\ k[w] \in 1 .. 3 /\ a[w] \in Nat /\ o[w] \in Nat /\ g[w] \in Nat /\ d[w] \in Nat
        /\ WriterOK(w, B, N, k[w], a[w], o[w], g[w], d[w])
    BY <1>2, <1>3, <1>7
  <2>t. PICK dd \in Nat : Furthest(B, k[w], a[w], g[w], d[w], dd)
    BY <2>0, Telling
  <2>1. /\ \/ dd = Ahead(k[w], a[w], g[w])
           \/ dd = Ahead(k[w], a[w], g[w]) + 1 /\ k[w] # 2 /\ dd < B + BlockNum
        /\ Ahead(k[w], a[w], g[w]) <= dd /\ dd <= Further(k[w], a[w], g[w])
        /\ B <= Ahead(k[w], a[w], g[w])
        /\ B = 0 \/ dd >= B + BlockNum - 1
        /\ d[w] < BlockNum \/ dd >= d[w]
    BY <2>t DEF Furthest
  <2>2. Told(x) = Ahead(k[w], a[w], g[w]) % DiskBlockNum /\ x.part # "link"
    BY <2>0, Pending DEF x
  <2>3. PICK e \in Nat : e = Ahead(k[w], a[w], g[w])
    BY <1>2, AheadType
  <2>4. diskWriteIds'[w] = e % DiskBlockNum /\ todo'[w] = todo[w]
    <3>1. w \in DOMAIN diskWriteIds
      BY DEF TypeOK
    <3> QED
      BY <1>3, <2>2, <2>3, <3>1 DEF Tell
  <2>5. writeCell[w] # None
    BY <1>2, <1>3 DEF WriterOK
  <2>6. Tells(w, k[w], a[w], dd)'
    <3>1. e = dd \/ (e + 1 = dd /\ (k[w] < 2 => Blk(a[w]) <= e))
      <4>1. k[w] < 2 => e = Blk(a[w]) /\ Blk(a[w]) <= e
        BY <1>2, <2>3, CellFacts DEF Ahead
      <4> QED
        BY <2>1, <2>3, <4>1
    <3> QED
      BY <2>3, <2>4, <3>1 DEF Tells
  <2>7. WriterOK(w, B, N, k[w], a[w], o[w], g[w], dd)'
    <3>1. Gone(o[w], B) => Gone(o[w], B)'
      BY <1>3 DEF Gone
    <3>2. /\ dd <= Further(k[w], a[w], g[w])
          /\ dd <= Ahead(k[w], a[w], g[w]) \/ dd < B + BlockNum
      BY <2>1
    <3>3. k[w] # 0
      BY <1>7
    <3> QED
      BY <1>2, <1>3, <2>1, <2>4, <2>5, <2>6, <3>1, <3>2, <3>3 DEF WriterOK
  <2>8. \A n \in 0 .. N - 1 : n >= N \/ Holds(w, k[w], a[w], o[w], n) =>
                                   Filled(n, B)' \/ Holds(w, k[w], a[w], o[w], n)'
    BY <1>2, <1>3 DEF Holds
  <2>9. UNCHANGED <<checks, flight, dirty>> /\ done \subseteq done'
         /\ diskWriteCell' = CellAt(N) /\ blockDiskId' = blockDiskId /\ N <= N
    BY <1>2, <1>3
  <2>10. \A u \in Nat : Reached(w, k[w], a[w], g[w], d[w], u) => Reached(w, k[w], a[w], g[w], dd, u)'
    <3>1. Here(k[w], a[w], g[w]) <= dd /\ Here(k[w], a[w], g[w]) \in Nat
      BY <1>2, <2>1, AheadType
    <3> QED
      BY <1>3, <3>1 DEF Reached
  <2>11. \A u \in B .. B + BlockNum - 1 : u % BlockNum \in dirty' =>
                              u % BlockNum \in dirty \/ Reached(w, k[w], a[w], g[w], dd, u)'
    BY <2>9
  <2> QED
    BY <1>1, <1>2, <1>5, <2>1, <2>7, <2>8, <2>9, <2>10, <2>11, ThreadKeeps
<1> QED
  BY <1>2, <1>6, <1>7

LEMMA EndStep ==
  ASSUME DelayFits, TypeOK, Ordered, NEW w \in Writers, WriteEnd(w)
  PROVE  Ordered'
<1>1. PICK B, N, k, a, o, g, d, c : Ghosts(B, N, k, a, o, g, d, c) /\ RInv(B, N, k, a, o, g, d, c)
  BY DEF Ordered
<1>2. /\ B \in Nat /\ N \in Nat /\ k[w] \in 0 .. 3 /\ a[w] \in Nat /\ o[w] \in Nat /\ g[w] \in Nat /\ d[w] \in Nat
      /\ diskWriteCell = CellAt(N) /\ WriterOK(w, B, N, k[w], a[w], o[w], g[w], d[w])
      /\ Near(B, N) /\ BlocksOK(B)
  BY <1>1, ThreadOf
<1> DEFINE x == Head(todo[w])
           b == BlockOf(DiskIdOf(x.cell))
<1>3. /\ todo[w] # << >> /\ todo[w] \in Seq(Writing) /\ copying[w] /\ ~copying'[w]
      /\ todo'[w] = Tail(todo[w])
      /\ \A v \in Writers \ {w} : todo'[v] = todo[v] /\ copying'[v] = copying[v]
      /\ Tell(w, x)
      /\ dirty' = IF Own(x) THEN dirty \cup {b} ELSE dirty
      /\ done' = IF x.part = "pointer" THEN done \cup {x.cell} ELSE done
      /\ UNCHANGED <<blockDiskId, diskWriteCell, writeCell, quit, checks, flight>>
  BY DEF WriteEnd, TypeOK, place
<1>4. \A v \in Writers \ {w} : diskWriteIds'[v] = diskWriteIds[v]
  <2> HIDE DEF x
  <2> QED
    BY <1>3 DEF Tell, TypeOK
<1>5. \A v \in Writers \ {w} : Same(v)
  BY <1>3, <1>4 DEF Same
<1>x. CanWrite(x)
  BY <1>2, <1>3 DEF WriterOK
<1> HIDE DEF x
<1>6. CASE k[w] = 0
  <2>1. x.part = "link"
    <3>1. WriterOK(w, B, N, 0, a[w], o[w], g[w], d[w])
      BY <1>2, <1>6
    <3> QED
      BY <1>2, <1>3, <3>1, Linking DEF x
  <2>2. diskWriteIds' = diskWriteIds /\ dirty' = dirty /\ done' = done
    BY <1>3, <2>1 DEF Tell, Own
  <2> QED
    BY <1>1, <1>3, <1>5, <1>6, <2>2, LinkDone
<1>7. CASE k[w] \in 1 .. 3
  <2>0. /\ B \in Nat /\ N \in Nat /\ Near(B, N) /\ BlocksOK(B) /\ todo[w] \in Seq(Writing)
        /\ k[w] \in 1 .. 3 /\ a[w] \in Nat /\ o[w] \in Nat /\ g[w] \in Nat /\ d[w] \in Nat
        /\ WriterOK(w, B, N, k[w], a[w], o[w], g[w], d[w])
    BY <1>2, <1>3, <1>7
  <2>1. PICK dd \in Nat : Furthest(B, k[w], a[w], g[w], d[w], dd)
    BY <2>0, Telling
  <2>2. PICK p \in Nat : p = IF k[w] = 1 THEN a[w] ELSE g[w]
    BY <2>0
  <2>3. /\ x.cell = CellAt(p) /\ x.part # "link"
        /\ (k[w] = 2 /\ g[w] = o[w] => x.part = "pointer")
        /\ Told(x) = Ahead(k[w], a[w], g[w]) % DiskBlockNum
        /\ Ahead(k[w], a[w], g[w]) < B + BlockNum
    <3>1. /\ Head(todo[w]).cell = CellAt(IF k[w] = 1 THEN a[w] ELSE g[w])
          /\ Head(todo[w]).part # "link"
          /\ (k[w] = 2 /\ g[w] = o[w] => Head(todo[w]).part = "pointer")
          /\ Told(Head(todo[w])) = Ahead(k[w], a[w], g[w]) % DiskBlockNum
          /\ CanWrite(Head(todo[w])) => Ahead(k[w], a[w], g[w]) < B + BlockNum
      BY <2>0, Pending
    <3> QED
      BY <1>x, <2>2, <3>1 DEF x
  <2>4. PICK e \in Nat : e = Ahead(k[w], a[w], g[w])
    BY <1>2, AheadType
  <2>5. diskWriteIds'[w] = e % DiskBlockNum
    <3>1. w \in DOMAIN diskWriteIds
      BY DEF TypeOK
    <3> QED
      BY <1>3, <2>3, <2>4, <3>1 DEF Tell
  <2>6. /\ writeCell[w] # None /\ w \notin quit /\ B <= Here(k[w], a[w], g[w])
        /\ k[w] >= 2 => g[w] <= a[w]
    <3>1. /\ B <= Here(k[w], a[w], g[w]) /\ writeCell[w] # None
          /\ k[w] >= 2 => g[w] <= a[w]
      BY <2>0, Targets
    <3>2. w \notin quit
      BY <1>3, <2>0 DEF WriterOK
    <3> QED
      BY <3>1, <3>2
  <2>7. PICK j \in 0 .. 2 : j = k[w] - 1
    BY <2>0
  <2>8. /\ e = dd \/ (e + 1 = dd /\ k[w] # 2)
        /\ e <= dd /\ dd <= Further(k[w], a[w], g[w]) /\ dd < B + BlockNum
        /\ B = 0 \/ dd >= B + BlockNum - 1
        /\ d[w] < BlockNum \/ dd >= d[w]
    BY <2>1, <2>3, <2>4 DEF Furthest
  <2>9. /\ Here(k[w], a[w], g[w]) \in Nat /\ Here(k[w], a[w], g[w]) <= e
        /\ Further(k[w], a[w], g[w]) \in Nat
        /\ Here(j, a[w], g[w]) \in Nat /\ Further(j, a[w], g[w]) \in Nat
    <3>1. j \in 0 .. 3
      BY <2>7
    <3> QED
      BY <1>2, <2>4, <3>1, AheadType
  <2>10. /\ Here(k[w], a[w], g[w]) <= Here(j, a[w], g[w])
         /\ Further(k[w], a[w], g[w]) <= Further(j, a[w], g[w])
    BY <2>0, <2>6, <2>7, HereGrows
  <2>11. dd <= Further(j, a[w], g[w])
    BY <2>8, <2>9, <2>10
  <2>12. Tells(w, j, a[w], dd)'
    <3>1. j < 2 /\ e # dd => Blk(a[w]) <= e
      <4>1. Blk(a[w]) \in Nat
        BY <1>2, CellFacts
      <4>2. j < 2 /\ k[w] # 2 => e = Blk(a[w])
        BY <2>0, <2>4, <2>7 DEF Ahead
      <4> QED
        BY <2>8, <4>1, <4>2
    <3> QED
      BY <2>5, <2>8, <3>1 DEF Tells
  <2>13. Shape(todo'[w], j, a[w], o[w], g[w])
    <3>1. Shape(todo[w], k[w], a[w], o[w], g[w])
      BY <2>0 DEF WriterOK
    <3> QED
      BY <1>3, <2>0, <2>7, <3>1, TailShape
  <2>14. j = 2 => Blk(g[w]) < B + BlockNum
    BY <2>3, <2>7 DEF Ahead
  <2>15. /\ j >= 2 => k[w] >= 2
         /\ Gone(o[w], B) => Gone(o[w], B)'
    BY <1>3, <2>7 DEF Gone
  <2>16. WriterOK(w, B, N, j, a[w], o[w], g[w], dd)'
    BY <1>3, <2>0, <2>6, <2>8, <2>11, <2>12, <2>13, <2>14, <2>15 DEF WriterOK
  <2>17. \A n \in 0 .. N - 1 : n >= N \/ Holds(w, k[w], a[w], o[w], n) =>
                                   Filled(n, B)' \/ Holds(w, j, a[w], o[w], n)'
    <3> SUFFICES ASSUME NEW n \in 0 .. N - 1, Holds(w, k[w], a[w], o[w], n), ~Holds(w, j, a[w], o[w], n)'
                 PROVE  Filled(n, B)'
      BY <1>2
    <3>1. k[w] = 2 /\ n = o[w]
      BY <1>3, <2>7 DEF Holds
    <3>2. Blk(n) < B + BlockNum
      <4>1. Blk(g[w]) < B + BlockNum /\ (g[w] = o[w] \/ g[w] = o[w] + 1)
        BY <2>0, <3>1 DEF WriterOK
      <4>2. Blk(o[w]) \in Nat /\ Blk(g[w]) \in Nat /\ (g[w] = o[w] + 1 => Blk(o[w]) <= Blk(g[w]))
        <5>1. g[w] = o[w] + 1 => o[w] < g[w]
          BY <2>0
        <5> QED
          BY <2>0, <5>1, BlkOrder, CellFacts
      <4> QED
        BY <2>0, <3>1, <4>1, <4>2, Sizes
    <3>3. Blk(n) >= B => CellAt(n) \in done'
      <4>1. CASE g[w] = o[w]
        BY <1>3, <2>2, <2>3, <3>1, <4>1
      <4>2. CASE g[w] # o[w]
        <5>1. Blk(o[w]) < B \/ CellAt(o[w]) \in done
          BY <2>0, <3>1, <4>2 DEF WriterOK, Gone
        <5>2. Blk(o[w]) \in Nat
          BY <2>0, CellFacts
        <5> QED
          BY <1>3, <2>0, <3>1, <5>1, <5>2
      <4> QED
        BY <4>1, <4>2
    <3> QED
      BY <3>2, <3>3 DEF Filled
  <2>18. UNCHANGED <<checks, flight>> /\ done \subseteq done'
         /\ diskWriteCell' = CellAt(N) /\ blockDiskId' = blockDiskId /\ N <= N /\ j \in 0 .. 3
    BY <1>2, <1>3, <2>7
  <2>19. \A u \in Nat : u <= Here(k[w], a[w], g[w]) => Reached(w, j, a[w], g[w], dd, u)'
    BY <1>3, <2>6, <2>8, <2>9, <2>10 DEF Reached
  <2>20. \A u \in Nat : Reached(w, k[w], a[w], g[w], d[w], u) => Reached(w, j, a[w], g[w], dd, u)'
    BY <2>19 DEF Reached
  <2>21. \A u \in B .. B + BlockNum - 1 : u % BlockNum \in dirty' =>
                              u % BlockNum \in dirty \/ Reached(w, j, a[w], g[w], dd, u)'
    <3>1. ASSUME NEW u \in B .. B + BlockNum - 1, u % BlockNum = b
          PROVE  u = Here(k[w], a[w], g[w])
      <4>1. u \in Nat /\ BlockNum \in Nat \ {0} /\ u < B + BlockNum /\ B <= u
        BY <1>2, Sizes
      <4>2. Blk(p) = Here(k[w], a[w], g[w])
        BY <2>0, <2>2 DEF Here
      <4>3. Blk(p) \in Nat /\ b = Blk(p) % BlockNum
        BY <2>3, CellFacts, DiskFacts
      <4>4. B <= Blk(p) /\ Blk(p) < B + BlockNum
        BY <1>2, <2>3, <2>4, <2>6, <2>9, <4>1, <4>2
      <4> HIDE DEF b
      <4>5. u < Blk(p) + BlockNum /\ Blk(p) < u + BlockNum
        BY <1>2, <4>1, <4>3, <4>4
      <4>6. u = Blk(p)
        BY <3>1, <4>1, <4>3, <4>5, ModApart
      <4> QED
        BY <4>2, <4>6
    <3> HIDE DEF b
    <3>2. \A u \in B .. B + BlockNum - 1 : u \in Nat /\ u <= u
      BY <1>2, Sizes
    <3> QED
      BY <1>3, <2>19, <3>1, <3>2
  <2> QED
    BY <1>1, <1>2, <1>5, <2>8, <2>16, <2>17, <2>18, <2>20, <2>21, ThreadKeeps
<1> QED
  BY <1>2, <1>6, <1>7

LEMMA QuitStep ==
  ASSUME TypeOK, Ordered, NEW w \in Writers, Quit(w)
  PROVE  Ordered'
<1>1. PICK B, N, k, a, o, g, d, c : Ghosts(B, N, k, a, o, g, d, c) /\ RInv(B, N, k, a, o, g, d, c)
  BY DEF Ordered
<1>2. /\ B \in Nat /\ N \in Nat /\ k[w] \in 0 .. 3 /\ a[w] \in Nat /\ o[w] \in Nat /\ g[w] \in Nat /\ d[w] \in Nat
      /\ diskWriteCell = CellAt(N) /\ WriterOK(w, B, N, k[w], a[w], o[w], g[w], d[w])
  BY <1>1, ThreadOf
<1>3. /\ todo[w] = << >> /\ quit' = quit \cup {w}
      /\ UNCHANGED <<diskWriteIds, blockDiskId, diskWriteCell, writeCell,
                     todo, copying, checks, flight, dirty, done>>
  BY DEF Quit, Idle, place, history
<1>4. \A v \in Writers \ {w} : Same(v)
  BY <1>3 DEF Same
<1>5. WriterOK(w, B, N, k[w], a[w], o[w], g[w], d[w])'
  <2>1. CanWrite(Head(todo[w]))' <=> CanWrite(Head(todo[w]))
    BY <1>3 DEF CanWrite, Told, Stands
  <2>2. ~copying[w]
    BY <1>3 DEF TypeOK
  <2>3. Tells(w, k[w], a[w], d[w])' /\ (Gone(o[w], B) => Gone(o[w], B)')
    BY <1>2, <1>3 DEF WriterOK, Tells, Gone
  <2> QED
    BY <1>2, <1>3, <2>1, <2>2, <2>3 DEF WriterOK
<1>6. \A n \in 0 .. N - 1 : n >= N \/ Holds(w, k[w], a[w], o[w], n) =>
                                 Filled(n, B)' \/ Holds(w, k[w], a[w], o[w], n)'
  BY <1>2, <1>3 DEF Holds
<1>7. UNCHANGED <<checks, flight, dirty>> /\ done \subseteq done'
       /\ diskWriteCell' = CellAt(N) /\ blockDiskId' = blockDiskId
  BY <1>2, <1>3
<1>8. N <= N /\ d[w] >= d[w]
  BY <1>2
<1>m. \A u \in Nat : Reached(w, k[w], a[w], g[w], d[w], u) => Reached(w, k[w], a[w], g[w], d[w], u)'
  BY <1>3 DEF Reached
<1> QED
  BY <1>1, <1>2, <1>4, <1>5, <1>6, <1>7, <1>8, <1>m, ThreadKeeps

(* A step that only a flag or the place in the thread's cell shows. *)
LEMMA OrderedSame ==
  ASSUME Ordered,
         UNCHANGED <<diskWriteIds, blockDiskId, diskWriteCell, writeCell, todo, copying, quit,
                     checks, flight, dirty, done>>
  PROVE  Ordered'
<1>1. PICK B, N, k, a, o, g, d, c : Ghosts(B, N, k, a, o, g, d, c) /\ RInv(B, N, k, a, o, g, d, c)
  BY DEF Ordered
<1>2. /\ held' = held /\ passed' = passed /\ blockCheckIds' = blockCheckIds /\ flight' = flight
  BY DEF checks
<1>3. ASSUME NEW v \in Writers
      PROVE  WriterOK(v, B, N, k[v], a[v], o[v], g[v], d[v])'
  <2>1. WriterOK(v, B, N, k[v], a[v], o[v], g[v], d[v]) /\ a[v] \in Nat /\ B \in Nat /\ N \in Nat /\ N <= N
    BY <1>1 DEF RInv, Ghosts
  <2>2. Same(v) /\ done \subseteq done'
    BY DEF Same
  <2> QED
    BY <2>1, <2>2, WriterFrame
<1>4. CellsOK(B, N, k, a, o)'
  BY <1>1 DEF RInv, CellsOK, Filled, Holds
<1>5. DirtyOK(B, k, a, g, d)'
  BY <1>1 DEF RInv, DirtyOK, Reached
<1>6. BlocksOK(B)' /\ CheckersOK(d, c)'
  BY <1>1, <1>2 DEF RInv, BlocksOK, CheckersOK
<1>7. TakenOK(B, d, c)'
  BY <1>1, <1>2 DEF RInv, TakenOK, AllPast, NoneHeld, NoneFlying, Flying, Holding
<1>8. RInv(B, N, k, a, o, g, d, c)'
  BY <1>1, <1>3, <1>4, <1>5, <1>6, <1>7 DEF RInv
<1> QED
  BY <1>1, <1>8 DEF Ordered, Ghosts

(* A capture thread keeps the order. *)
LEMMA WriterStep ==
  ASSUME DelayFits, TypeOK, Ordered, NEW w \in Writers, Writer(w)
  PROVE  Ordered'
<1>1. CASE PacketDropped(w) \/ Dies(w) \/ StopCapture(w)
  BY <1>1, OrderedSame DEF PacketDropped, Dies, StopCapture, capture, place, history
<1>2. CASE Write(w) \/ PacketFits(w) \/ Full(w) \/ Quit(w)
  BY <1>2, StartStep, FitsStep, SplitStep, StrayStep, BeginStep, FailsStep, EndStep, QuitStep
     DEF Write, Full
<1> QED
  BY <1>1, <1>2 DEF Writer
-----------------------------------------------------------------------------
(* A disk thread's step *)

(* One that touches no block. *)
LEMMA CheckerKeeps ==
  ASSUME NEW B, NEW N, NEW k, NEW a, NEW o, NEW g, NEW d, NEW c, Ghosts(B, N, k, a, o, g, d, c),
         RInv(B, N, k, a, o, g, d, c), NEW cc \in [Checkers -> Nat],
         UNCHANGED <<diskWriteIds, blockDiskId, capture, dirty, done>>,
         CheckersOK(d, cc)', TakenOK(B, d, cc)'
  PROVE  Ordered'
<1>1. Ghosts(B, N, k, a, o, g, d, cc)'
  BY DEF Ghosts
<1>2. /\ diskWriteCell' = diskWriteCell /\ writeCell' = writeCell /\ todo' = todo
      /\ copying' = copying /\ quit' = quit
      /\ blockDiskId' = blockDiskId /\ diskWriteIds' = diskWriteIds
      /\ dirty' = dirty /\ done' = done
  BY DEF capture, place
<1>3. ASSUME NEW w \in Writers
      PROVE  WriterOK(w, B, N, k[w], a[w], o[w], g[w], d[w])'
  <2>1. /\ WriterOK(w, B, N, k[w], a[w], o[w], g[w], d[w])
        /\ a[w] \in Nat /\ B \in Nat /\ N \in Nat /\ N <= N
    BY DEF RInv, Ghosts
  <2>2. Same(w) /\ blockDiskId' = blockDiskId /\ done \subseteq done'
    BY <1>2 DEF Same
  <2> QED
    BY <2>1, <2>2, WriterFrame
<1>4. CellsOK(B, N, k, a, o)'
  BY <1>2 DEF RInv, CellsOK, Filled, Holds
<1>5. diskWriteCell' = CellAt(N) /\ BlocksOK(B)'
  BY <1>2 DEF RInv, BlocksOK
<1>m. DirtyOK(B, k, a, g, d)'
  BY <1>2 DEF RInv, DirtyOK, Reached
<1>6. RInv(B, N, k, a, o, g, d, cc)'
  BY <1>3, <1>4, <1>5, <1>m DEF RInv
<1> QED
  BY <1>1, <1>6 DEF Ordered

LEMMA TurnsNear ==
  ASSUME DelayFits, NEW B \in Nat, NEW d, NEW c \in [Checkers -> Nat], TakenOK(B, d, c), NEW t \in Checkers
  PROVE  c[t] \in B .. B + BlockNum - 1
<1>1. c[t] \in B .. B + CheckNum - 1 \/ c[t] \in B + 1 .. B + CheckNum
  BY DEF TakenOK
<1> QED
  BY <1>1, Fits

LEMMA CheckNextStep ==
  ASSUME DelayFits, TypeOK, Ordered, NEW t \in Checkers, CheckNext(t)
  PROVE  Ordered'
<1>1. PICK B, N, k, a, o, g, d, c : Ghosts(B, N, k, a, o, g, d, c) /\ RInv(B, N, k, a, o, g, d, c)
  BY DEF Ordered
<1>2. /\ B \in Nat /\ c \in [Checkers -> Nat] /\ d \in [Writers -> Nat]
      /\ CheckersOK(d, c) /\ TakenOK(B, d, c) /\ BlocksOK(B)
  BY <1>1 DEF Ghosts, RInv
<1>3. /\ passed[t] < RSSNum /\ passed[t] \in 0 .. RSSNum
      /\ passed'[t] = (IF CheckRSS(blockCheckIds[t], passed[t]) THEN passed[t] + 1 ELSE 0)
      /\ \A s \in Checkers \ {t} : passed'[s] = passed[s]
      /\ UNCHANGED <<diskWriteIds, blockDiskId, capture, blockCheckIds, held, phase, flight,
                     dirty, done>>
  BY DEF CheckNext, TypeOK, history
<1>4. ASSUME NEW w \in Writers, w < passed'[t]
      PROVE  d[w] >= c[t] + BlockNum
  <2>1. CASE w < passed[t]
    BY <1>2, <2>1 DEF CheckersOK
  <2>2. CASE ~ w < passed[t]
    <3>1. w \in Nat /\ passed[t] \in Nat
      BY <1>3, Sizes DEF Writers
    <3>2. w = passed[t] /\ CheckRSS(blockCheckIds[t], w)
      BY <1>3, <1>4, <2>2, <3>1
    <3>3. CheckRSS(c[t] % BlockNum, w)
      BY <1>2, <3>2 DEF CheckersOK
    <3>4. c[t] \in B .. B + BlockNum - 1
      BY <1>2, TurnsNear
    <3>5. /\ Tells(w, k[w], a[w], d[w]) /\ d[w] \in Nat
          /\ B = 0 \/ d[w] >= B + BlockNum - 1
      BY <1>1, <1>2 DEF RInv, WriterOK
    <3>6. PICK e \in Nat : diskWriteIds[w] = e % DiskBlockNum /\ (e = d[w] \/ e + 1 = d[w])
      BY <3>5 DEF Tells
    <3> QED
      BY <1>2, <3>3, <3>4, <3>5, <3>6, PastIs
  <2> QED
    BY <2>1, <2>2
<1>5. CheckersOK(d, c)'
  BY <1>2, <1>3, <1>4 DEF CheckersOK
<1>6. TakenOK(B, d, c)'
  BY <1>2, <1>3 DEF TakenOK, AllPast, NoneHeld, NoneFlying, Flying, Holding
<1> QED
  BY <1>1, <1>2, <1>3, <1>5, <1>6, CheckerKeeps

(* Where the threads that are past a block are. *)
LEMMA PastCells ==
  ASSUME NEW B \in Nat, NEW N \in Nat, NEW w \in Writers, NEW k \in 0 .. 3, NEW a \in Nat, NEW o \in Nat,
         NEW g \in Nat, NEW d \in Nat, WriterOK(w, B, N, k, a, o, g, d), d >= B + BlockNum
  PROVE  /\ writeCell[w] # None /\ a < N
         /\ k # 2 => d <= Blk(a)
         /\ k = 2 => d <= Blk(g) + 1
         /\ k = 3 => d <= Blk(g)
         /\ k >= 2 => Blk(g) <= Blk(a)
<1>0. BlockNum \in Nat
  BY Sizes
<1>1. writeCell[w] # None /\ d <= Ahead(k, a, g) /\ a < N
  <2>1. /\ d < BlockNum \/ (writeCell[w] # None /\ (d <= Ahead(k, a, g) \/ d < B + BlockNum))
        /\ writeCell[w] # None => a < N
    BY DEF WriterOK
  <2> QED
    BY <1>0, <2>1
<1>2. Blk(a) \in Nat /\ Blk(g) \in Nat
  BY CellFacts
<1>3. k >= 2 => Blk(g) <= Blk(a)
  <2>1. k >= 2 => g < a \/ g = a
    BY DEF WriterOK
  <2> QED
    BY <1>2, <2>1, BlkOrder
<1>4. CASE k < 2
  BY <1>1, <1>3, <1>4 DEF Ahead
<1>5. CASE k = 2
  BY <1>1, <1>2, <1>3, <1>5 DEF Ahead
<1>6. CASE k = 3
  BY <1>1, <1>2, <1>3, <1>6 DEF Ahead
<1> QED
  BY <1>1, <1>3, <1>4, <1>5, <1>6

(* The slowest thread tells no more than the block after the window: its   *)
(* first cell is some thread's, or not yet taken.                          *)
LEMMA NotAllFurther ==
  ASSUME NEW B, NEW N, NEW k, NEW a, NEW o, NEW g, NEW d, NEW c, Ghosts(B, N, k, a, o, g, d, c),
         RInv(B, N, k, a, o, g, d, c)
  PROVE  \E w \in Writers : ~ d[w] >= B + BlockNum + 1
<1>1. /\ B \in Nat /\ N \in Nat /\ \A w \in Writers : /\ k[w] \in 0 .. 3 /\ a[w] \in Nat /\ o[w] \in Nat
                                                        /\ g[w] \in Nat /\ d[w] \in Nat
                                                        /\ WriterOK(w, B, N, k[w], a[w], o[w], g[w], d[w])
      /\ CellsOK(B, N, k, a, o)
  BY DEF Ghosts, RInv
<1>2. BlockNum \in Nat \ {0} /\ CellsPerBlock \in Nat \ {0} /\ RSSNum \in Nat \ {0}
  BY Sizes
<1> SUFFICES ASSUME \A w \in Writers : d[w] >= B + BlockNum + 1 PROVE FALSE
  BY <1>1
<1> DEFINE u == B + BlockNum
           n == CellsPerBlock * u
<1>3. u \in Nat /\ n \in Nat /\ Blk(n) = u
  <2>1. u \in Nat /\ 0 \in 0 .. CellsPerBlock - 1
    BY <1>1, <1>2
  <2> HIDE DEF u
  <2>2. n \in Nat /\ Blk(n + 0) = u
    BY <2>1, BlkOf
  <2>3. n + 0 = n
    BY <2>2
  <2> QED
    BY <2>1, <2>2, <2>3
<1> HIDE DEF n
<1>4. ASSUME NEW w \in Writers
      PROVE  /\ writeCell[w] # None /\ a[w] < N /\ u + 1 <= Blk(a[w]) /\ Blk(a[w]) \in Nat
             /\ k[w] # 2
             /\ k[w] = 3 => o[w] # n
  <2>1. d[w] >= B + BlockNum /\ d[w] \in Nat /\ d[w] >= u + 1
    BY <1>1, <1>2
  <2>2. /\ writeCell[w] # None /\ a[w] < N
        /\ k[w] # 2 => d[w] <= Blk(a[w])
        /\ k[w] = 2 => d[w] <= Blk(g[w]) + 1
        /\ k[w] = 3 => d[w] <= Blk(g[w])
    BY <1>1, <2>1, PastCells
  <2>3. Blk(a[w]) \in Nat /\ Blk(g[w]) \in Nat
    BY <1>1, CellFacts
  <2>4. /\ k[w] = 2 => Blk(g[w]) < u
        /\ k[w] = 3 => g[w] = o[w] \/ (g[w] = o[w] + 1 /\ CellsPerBlock > 1)
    BY <1>1 DEF WriterOK
  <2> HIDE DEF u
  <2>5. k[w] # 2
    BY <1>3, <2>1, <2>2, <2>3, <2>4
  <2>6. ASSUME k[w] = 3, o[w] = n PROVE FALSE
    <3>1. g[w] = n \/ (g[w] = n + 1 /\ CellsPerBlock > 1)
      BY <2>4, <2>6
    <3>2. CellsPerBlock > 1 => Blk(n + 1) = u
      <4>1. CellsPerBlock > 1 => 1 \in 0 .. CellsPerBlock - 1
        BY <1>2
      <4> QED
        BY <1>3, <4>1, BlkOf DEF n
    <3>3. Blk(g[w]) = u
      BY <1>3, <3>1, <3>2
    <3> QED
      BY <1>3, <2>1, <2>2, <2>6, <3>3
  <2> QED
    BY <1>3, <2>1, <2>2, <2>3, <2>5, <2>6
<1>5. n < N
  <2>1. 0 \in Writers
    BY <1>2 DEF Writers
  <2>2. u + 1 <= Blk(a[0]) /\ a[0] < N /\ a[0] \in Nat /\ Blk(a[0]) \in Nat
    BY <1>1, <1>4, <2>1
  <2>3. n <= a[0]
    <3> SUFFICES ASSUME a[0] < n PROVE FALSE
      BY <1>3, <2>2
    <3>1. Blk(a[0]) <= Blk(n)
      BY <1>3, <2>2, BlkOrder
    <3> QED
      BY <1>3, <2>2, <3>1
  <2> QED
    BY <1>1, <1>3, <2>2, <2>3
<1>6. n \in 0 .. N - 1
  BY <1>1, <1>3, <1>5
<1>7. ~Filled(n, B)
  BY <1>1, <1>2, <1>3 DEF Filled
<1>8. PICK w \in Writers : Holds(w, k[w], a[w], o[w], n)
  BY <1>1, <1>6, <1>7 DEF CellsOK
<1>9. k[w] \in 0 .. 3 /\ (n = a[w] \/ (k[w] >= 2 /\ n = o[w]))
  BY <1>1, <1>8 DEF Holds
<1> HIDE DEF u
<1> QED
  <2>1. n # a[w]
    BY <1>3, <1>4
  <2> QED
    BY <1>4, <1>9, <2>1

LEMMA TakeStep ==
  ASSUME DelayFits, TypeOK, Ordered, NEW t \in Checkers, TakeBlock(t)
  PROVE  Ordered'
<1>1. PICK B, N, k, a, o, g, d, c : Ghosts(B, N, k, a, o, g, d, c) /\ RInv(B, N, k, a, o, g, d, c)
  BY DEF Ordered
<1>2. /\ B \in Nat /\ c \in [Checkers -> Nat] /\ d \in [Writers -> Nat]
      /\ CheckersOK(d, c) /\ TakenOK(B, d, c)
      /\ BlockNum \in Nat \ {0} /\ CheckNum \in Nat \ {0} /\ RSSNum \in Nat
  BY <1>1, Sizes DEF Ghosts, RInv
<1>3. /\ held[t] = None /\ passed[t] = RSSNum
      /\ held'[t] = blockCheckIds[t] /\ \A s \in Checkers \ {t} : held'[s] = held[s]
      /\ passed'[t] = 0 /\ \A s \in Checkers \ {t} : passed'[s] = passed[s]
      /\ blockCheckIds'[t] = (blockCheckIds[t] + CheckNum) % BlockNum
      /\ \A s \in Checkers \ {t} : blockCheckIds'[s] = blockCheckIds[s]
      /\ UNCHANGED <<diskWriteIds, blockDiskId, capture, phase, flight, dirty, done>>
  BY DEF TakeBlock, GetBlock, TypeOK, history
<1>4. \A w \in Writers : d[w] >= c[t] + BlockNum
  <2>1. \A w \in Writers : w < passed[t]
    BY <1>2, <1>3 DEF Writers
  <2> QED
    BY <1>2, <2>1 DEF CheckersOK
<1>5. c[t] = B
  <2>1. PICK w \in Writers : ~ d[w] >= B + BlockNum + 1
    BY <1>1, NotAllFurther
  <2>2. d[w] >= c[t] + BlockNum /\ d[w] \in Nat /\ c[t] \in Nat
    BY <1>2, <1>4
  <2>3. c[t] \in B .. B + BlockNum - 1
    BY <1>2, TurnsNear
  <2> QED
    BY <1>2, <2>1, <2>2, <2>3
<1>6. NoneHeld /\ NoneFlying /\ \A s \in Checkers : c[s] \in B .. B + CheckNum - 1
  <2>1. ~ c[t] \in B + 1 .. B + CheckNum
    BY <1>2, <1>5
  <2> QED
    BY <1>2, <2>1 DEF TakenOK
<1> DEFINE cc == [c EXCEPT ![t] = B + CheckNum]
<1>7. /\ cc \in [Checkers -> Nat] /\ cc[t] = B + CheckNum
      /\ \A s \in Checkers \ {t} : cc[s] = c[s] /\ c[s] # B /\ c[s] \in B + 1 .. B + CheckNum - 1
  <2>1. cc \in [Checkers -> Nat] /\ cc[t] = B + CheckNum
        /\ \A s \in Checkers \ {t} : cc[s] = c[s]
    BY <1>2
  <2>2. \A s \in Checkers \ {t} : c[s] # B
    BY <1>2, <1>5 DEF CheckersOK
  <2>3. \A s \in Checkers \ {t} : c[s] \in B + 1 .. B + CheckNum - 1
    BY <1>2, <1>6, <2>2
  <2> QED
    BY <2>1, <2>2, <2>3
<1> HIDE DEF cc
<1>8. blockCheckIds[t] = B % BlockNum /\ blockCheckIds'[t] = cc[t] % BlockNum
  <2>1. blockCheckIds[t] = B % BlockNum
    BY <1>2, <1>5 DEF CheckersOK
  <2>2. ((B % BlockNum) + CheckNum) % BlockNum = (B + CheckNum) % BlockNum
    BY <1>2, ModPlus
  <2> QED
    BY <1>3, <1>7, <2>1, <2>2
<1>9. CheckersOK(d, cc)'
  <2>1. \A s \in Checkers : blockCheckIds'[s] = cc[s] % BlockNum
    BY <1>2, <1>3, <1>7, <1>8 DEF CheckersOK
  <2>2. \A s \in Checkers : \A w \in Writers : w < passed'[s] => d[w] >= cc[s] + BlockNum
    <3>1. ASSUME NEW s \in Checkers, NEW w \in Writers, w < passed'[s]
          PROVE  d[w] >= cc[s] + BlockNum
      <4>1. CASE s = t
        BY <1>2, <1>3, <3>1, <4>1 DEF Writers
      <4>2. CASE s # t
        BY <1>2, <1>3, <1>7, <3>1, <4>2 DEF CheckersOK
      <4> QED
        BY <4>1, <4>2
    <3> QED
      BY <3>1
  <2>3. \A r, s \in Checkers : r # s => cc[r] # cc[s]
    <3>1. ASSUME NEW r \in Checkers, NEW s \in Checkers, r # s
          PROVE  cc[r] # cc[s]
      <4>1. CASE r = t
        <5>1. cc[r] = B + CheckNum /\ cc[s] \in B + 1 .. B + CheckNum - 1
          BY <1>7, <3>1, <4>1
        <5> QED
          BY <1>2, <5>1
      <4>2. CASE s = t
        <5>1. cc[s] = B + CheckNum /\ cc[r] \in B + 1 .. B + CheckNum - 1
          BY <1>7, <3>1, <4>2
        <5> QED
          BY <1>2, <5>1
      <4>3. CASE r # t /\ s # t
        BY <1>2, <1>7, <3>1, <4>3 DEF CheckersOK
      <4> QED
        BY <4>1, <4>2, <4>3
    <3> QED
      BY <3>1
  <2> QED
    BY <2>1, <2>2, <2>3 DEF CheckersOK
<1>10. TakenOK(B, d, cc)'
  <2>1. Holding(t, B)'
    BY <1>3, <1>6, <1>8 DEF Holding, NoneHeld, NoneFlying
  <2>2. AllPast(B, d)
    BY <1>4, <1>5 DEF AllPast
  <2>3. \A s \in Checkers : cc[s] \in B + 1 .. B + CheckNum
    <3>1. ASSUME NEW s \in Checkers PROVE cc[s] \in B + 1 .. B + CheckNum
      <4>1. CASE s = t
        BY <1>2, <1>7, <4>1
      <4>2. CASE s # t
        <5>1. cc[s] \in B + 1 .. B + CheckNum - 1
          BY <1>7, <4>2
        <5> QED
          BY <1>2, <5>1
      <4> QED
        BY <4>1, <4>2
    <3> QED
      BY <3>1
  <2> QED
    BY <2>1, <2>2, <2>3 DEF TakenOK, AllPast
<1> QED
  BY <1>1, <1>3, <1>7, <1>9, <1>10, CheckerKeeps

(* A thread that holds a block holds the oldest, and it alone. *)
LEMMA HeldIsOldest ==
  ASSUME NEW B, NEW d, NEW c, TakenOK(B, d, c), NEW t \in Checkers, held[t] # None
  PROVE  Holding(t, B) /\ AllPast(B, d) /\ \A s \in Checkers : c[s] \in B + 1 .. B + CheckNum
<1>1. PICK s \in Checkers : Holding(s, B)
  BY DEF TakenOK, NoneHeld, Flying
<1>2. s = t
  BY <1>1 DEF Holding
<1> QED
  BY <1>1, <1>2 DEF TakenOK, NoneHeld

LEMMA AddStep ==
  ASSUME TypeOK, Ordered, NEW t \in Checkers, AddBlock(t)
  PROVE  Ordered'
<1>1. PICK B, N, k, a, o, g, d, c : Ghosts(B, N, k, a, o, g, d, c) /\ RInv(B, N, k, a, o, g, d, c)
  BY DEF Ordered
<1>2. /\ c \in [Checkers -> Nat] /\ CheckersOK(d, c) /\ TakenOK(B, d, c) /\ B \in Nat
  BY <1>1 DEF Ghosts, RInv
<1>3. /\ held[t] # None /\ held'[t] = None /\ \A s \in Checkers \ {t} : held'[s] = held[s]
      /\ flight' = [flight EXCEPT ![held[t]] = Append(@, blockDiskId[held[t]])]
      /\ UNCHANGED <<diskWriteIds, blockDiskId, capture, blockCheckIds, passed, phase,
                     dirty, done>>
  BY DEF AddBlock, TypeOK, history
<1>4. Holding(t, B) /\ AllPast(B, d) /\ \A s \in Checkers : c[s] \in B + 1 .. B + CheckNum
  BY <1>2, <1>3, HeldIsOldest
<1>5. CheckersOK(d, c)'
  BY <1>2, <1>3 DEF CheckersOK
<1>6. TakenOK(B, d, c)'
  <2>1. NoneHeld'
    BY <1>3, <1>4 DEF NoneHeld, Holding
  <2>2. \A b \in Blocks : IF b = B % BlockNum THEN Len(flight'[b]) = 1 ELSE flight'[b] = << >>
    <3>1. held[t] = B % BlockNum /\ B % BlockNum \in Blocks
      BY <1>2, <1>4, Remainders DEF Holding
    <3>2. \A b \in Blocks : flight[b] = << >>
      BY <1>4 DEF Holding, NoneFlying
    <3>3. flight'[B % BlockNum] = Append(<< >>, blockDiskId[held[t]])
      BY <1>3, <3>1, <3>2 DEF TypeOK
    <3>4. Len(Append(<< >>, blockDiskId[held[t]])) = 1
      OBVIOUS
    <3>5. \A b \in Blocks \ {B % BlockNum} : flight'[b] = << >>
      BY <1>3, <3>1, <3>2 DEF TypeOK
    <3> QED
      BY <3>3, <3>4, <3>5
  <2>3. Flying(B)'
    BY <2>1, <2>2 DEF Flying
  <2> QED
    BY <1>4, <2>3 DEF TakenOK, AllPast
<1> QED
  BY <1>1, <1>2, <1>3, <1>5, <1>6, CheckerKeeps

(* The oldest block is recycled: the window moves on by one. *)
LEMMA RecycleKeeps ==
  ASSUME DelayFits, TypeOK, NEW B, NEW N, NEW k, NEW a, NEW o, NEW g, NEW d, NEW c, Ghosts(B, N, k, a, o, g, d, c),
         RInv(B, N, k, a, o, g, d, c), AllPast(B, d), \A s \in Checkers : c[s] \in B + 1 .. B + CheckNum,
         Recycled(B % BlockNum), NoneHeld', NoneFlying',
         UNCHANGED <<diskWriteIds, capture, blockCheckIds, passed>>
  PROVE  Ordered'
<1>1. /\ B \in Nat /\ N \in Nat /\ BlockNum \in Nat \ {0} /\ BlockNum >= 2
      /\ \A w \in Writers : /\ k[w] \in 0 .. 3 /\ a[w] \in Nat /\ o[w] \in Nat /\ g[w] \in Nat /\ d[w] \in Nat
                            /\ WriterOK(w, B, N, k[w], a[w], o[w], g[w], d[w])
      /\ CellsOK(B, N, k, a, o) /\ BlocksOK(B) /\ CheckersOK(d, c)
      /\ DiskBlockNum \in Nat \ {0} /\ DiskBlockNum > 4 * BlockNum
  BY Fits, Sizes DEF Ghosts, RInv
<1>n. Near(B, N)
  BY <1>1, CellsNear
<1>2. /\ diskWriteCell' = diskWriteCell /\ writeCell' = writeCell /\ todo' = todo
      /\ copying' = copying /\ quit' = quit
      /\ diskWriteIds' = diskWriteIds
  BY DEF capture, place
<1>3. B % BlockNum \in Blocks
  BY <1>1, Remainders
<1>4. /\ blockDiskId'[B % BlockNum] = AddMod(blockDiskId[B % BlockNum], BlockNum)
      /\ \A b \in Blocks \ {B % BlockNum} : blockDiskId'[b] = blockDiskId[b]
      /\ dirty' = dirty \ {B % BlockNum}
      /\ done' = {x \in done : DiskIdOf(x) # B % DiskBlockNum}
  <2>1. blockDiskId[B % BlockNum] = B % DiskBlockNum
    <3>1. B \in B .. B + BlockNum - 1
      BY <1>1
    <3> QED
      BY <1>1, <3>1 DEF BlocksOK
  <2> QED
    BY <1>3, <2>1 DEF Recycled, TypeOK
<1>d. ASSUME NEW n \in Nat, B < Blk(n), Blk(n) < B + 3 * BlockNum, CellAt(n) \in done
      PROVE  CellAt(n) \in done'
  <2>1. Blk(n) \in Nat /\ DiskIdOf(CellAt(n)) = Blk(n) % DiskBlockNum
    BY CellFacts
  <2>2. Blk(n) < B + DiskBlockNum /\ B < Blk(n) + DiskBlockNum /\ Blk(n) # B
    BY <1>1, <1>d, <2>1
  <2>3. Blk(n) % DiskBlockNum # B % DiskBlockNum
    BY <1>1, <2>1, <2>2, ModApart
  <2> QED
    BY <1>4, <1>d, <2>1, <2>3
<1>5. ASSUME NEW u \in Nat, B < u, u < B + BlockNum
      PROVE  u % BlockNum # B % BlockNum /\ u % BlockNum \in Blocks
  <2>1. u < B + BlockNum /\ B < u + BlockNum /\ u # B
    BY <1>1, <1>5
  <2> QED
    BY <1>1, <2>1, ModApart, Remainders
<1>6. ASSUME NEW w \in Writers
      PROVE  WriterOK(w, B + 1, N, k[w], a[w], o[w], g[w], d[w])'
  <2>1. WriterOK(w, B, N, k[w], a[w], o[w], g[w], d[w]) /\ d[w] >= B + BlockNum /\ d[w] \in Nat
    BY <1>1 DEF AllPast
  <2>2. ~ d[w] < B + BlockNum
    BY <1>1, <2>1
  <2>3. ~copying[w] /\ ~(k[w] = 0 /\ todo[w] # << >>)
    BY <2>1, <2>2 DEF WriterOK
  <2>4. d[w] >= (B + 1) + BlockNum - 1
    BY <1>1, <2>1
  <2>5. k[w] = 2 => Blk(g[w]) < (B + 1) + BlockNum
    <3>1. Blk(g[w]) \in Nat
      BY <1>1, CellFacts
    <3>2. k[w] = 2 => Blk(g[w]) < B + BlockNum
      BY <2>1 DEF WriterOK
    <3> QED
      BY <1>1, <3>1, <3>2
  <2>6. k[w] >= 2 /\ Gone(o[w], B) => Gone(o[w], B + 1)'
    <3> SUFFICES ASSUME k[w] >= 2, Blk(o[w]) < B \/ CellAt(o[w]) \in done, ~(Blk(o[w]) < B + 1)
                 PROVE  CellAt(o[w]) \in done'
      BY DEF Gone
    <3>1. Blk(o[w]) \in Nat
      BY <1>1, CellFacts
    <3>2. o[w] < N
      <4>1. todo[w] # << >>
        <5>1. Len(todo[w]) \in {k[w], k[w] + 1} /\ k[w] \in {2, 3}
          BY <1>1, <2>1 DEF WriterOK, Shape
        <5>2. Len(todo[w]) # 0
          BY <5>1
        <5> QED
          BY <5>2
      <4>2. a[w] < N /\ o[w] < a[w]
        BY <2>1, <4>1 DEF WriterOK
      <4> QED
        BY <1>1, <4>2
    <3>3. Blk(o[w]) < B + 3 * BlockNum
      BY <1>1, <1>n, <3>2 DEF Near
    <3>4. B < Blk(o[w]) /\ CellAt(o[w]) \in done
      BY <1>1, <3>1
    <3> QED
      BY <1>1, <1>d, <3>3, <3>4
  <2>7. Tells(w, k[w], a[w], d[w])'
    BY <1>2, <2>1 DEF WriterOK, Tells
  <2>8. d[w] < BlockNum \/ (/\ writeCell'[w] # None /\ d[w] <= Further(k[w], a[w], g[w])
                            /\ d[w] <= Ahead(k[w], a[w], g[w]) \/ d[w] < (B + 1) + BlockNum)
    BY <1>2, <2>1, <2>2 DEF WriterOK
  <2> QED
    BY <1>2, <2>1, <2>3, <2>4, <2>5, <2>6, <2>7, <2>8 DEF WriterOK
<1>7. ASSUME NEW n \in Nat, Filled(n, B)
      PROVE  Filled(n, B + 1)'
  <2>1. Blk(n) \in Nat
    BY CellFacts
  <2>2. Blk(n) < B + BlockNum /\ (Blk(n) >= B => CellAt(n) \in done)
    BY <1>7 DEF Filled
  <2>3. Blk(n) < (B + 1) + BlockNum /\ Blk(n) < B + 3 * BlockNum
    BY <1>1, <2>1, <2>2
  <2>4. Blk(n) >= B + 1 => CellAt(n) \in done'
    <3> SUFFICES ASSUME Blk(n) >= B + 1
                 PROVE  CellAt(n) \in done'
      OBVIOUS
    <3>1. B < Blk(n) /\ Blk(n) >= B
      BY <1>1, <2>1
    <3> QED
      BY <1>d, <2>2, <2>3, <3>1
  <2> QED
    BY <2>3, <2>4 DEF Filled
<1>8. CellsOK(B + 1, N, k, a, o)'
  <2>1. ASSUME NEW n \in 0 .. N - 1
        PROVE  Filled(n, B + 1)' \/ \E w \in Writers : Holds(w, k[w], a[w], o[w], n)'
    <3>1. n \in Nat
      BY <1>1
    <3>2. Filled(n, B) \/ \E w \in Writers : Holds(w, k[w], a[w], o[w], n)
      BY <1>1 DEF CellsOK
    <3>3. \A w \in Writers : Holds(w, k[w], a[w], o[w], n) => Holds(w, k[w], a[w], o[w], n)'
      BY <1>2 DEF Holds
    <3> QED
      BY <1>7, <3>1, <3>2, <3>3
  <2> QED
    BY <2>1 DEF CellsOK
<1>r. (B + BlockNum) % BlockNum = B % BlockNum
  <2>0. /\ B \div BlockNum \in Nat /\ B % BlockNum \in 0 .. BlockNum - 1
        /\ B = BlockNum * (B \div BlockNum) + (B % BlockNum)
    BY <1>1, DivMod
  <2> DEFINE q == B \div BlockNum
             p == B % BlockNum
  <2>1. q \in Nat /\ q + 1 \in Nat /\ p \in 0 .. BlockNum - 1 /\ B = BlockNum * q + p
    BY <2>0
  <2> HIDE DEF q, p
  <2>2. B + BlockNum = BlockNum * (q + 1) + p
    BY <1>1, <2>1
  <2>3. (BlockNum * (q + 1) + p) % BlockNum = p
    BY <1>1, <2>1, DivModIs
  <2> QED
    BY <2>2, <2>3 DEF p
<1>m. DirtyOK(B + 1, k, a, g, d)'
  <2>1. ASSUME NEW u \in B + 1 .. (B + 1) + BlockNum - 1, u % BlockNum \in dirty'
        PROVE  \E w \in Writers : Reached(w, k[w], a[w], g[w], d[w], u)'
    <3>1. u # B + BlockNum
      <4>1. B % BlockNum \notin dirty'
        BY <1>4
      <4> QED
        BY <1>r, <2>1, <4>1
    <3>2. u \in Nat /\ B < u /\ u < B + BlockNum /\ u \in B .. B + BlockNum - 1
      BY <1>1, <3>1
    <3>3. u % BlockNum \in dirty
      BY <1>4, <1>5, <2>1, <3>2
    <3>4. DirtyOK(B, k, a, g, d)
      BY DEF RInv
    <3> QED
      BY <1>2, <3>2, <3>3, <3>4 DEF DirtyOK, Reached
  <2> QED
    BY <2>1 DEF DirtyOK
<1>9. BlocksOK(B + 1)'
  <2>1. ASSUME NEW u \in B + 1 .. (B + 1) + BlockNum - 1
        PROVE  blockDiskId'[u % BlockNum] = u % DiskBlockNum
    <3>1. CASE u < B + BlockNum
      <4>1. u \in Nat /\ B < u /\ u \in B .. B + BlockNum - 1
        BY <1>1, <2>1, <3>1
      <4>2. u % BlockNum \in Blocks \ {B % BlockNum}
        BY <1>5, <3>1, <4>1
      <4>3. blockDiskId[u % BlockNum] = u % DiskBlockNum
        BY <1>1, <4>1 DEF BlocksOK
      <4> QED
        BY <1>4, <4>2, <4>3
    <3>2. CASE u = B + BlockNum
      <4>1. u % BlockNum = B % BlockNum
        BY <1>r, <3>2
      <4>2. B \in B .. B + BlockNum - 1
        BY <1>1
      <4>3. blockDiskId[B % BlockNum] = B % DiskBlockNum
        BY <1>1, <4>2 DEF BlocksOK
      <4>4. AddMod(B % DiskBlockNum, BlockNum) = (B + BlockNum) % DiskBlockNum
        BY <1>1, DiskFacts
      <4> QED
        BY <1>4, <3>2, <4>1, <4>3, <4>4
    <3> QED
      BY <1>1, <2>1, <3>1, <3>2
  <2> QED
    BY <2>1 DEF BlocksOK
<1>10. CheckersOK(d, c)'
  BY <1>1 DEF CheckersOK
<1>11. TakenOK(B + 1, d, c)'
  <2>1. \A s \in Checkers : c[s] \in B + 1 .. (B + 1) + CheckNum - 1
    BY <1>1, Fits
  <2> QED
    BY <2>1 DEF TakenOK
<1>12. diskWriteCell' = CellAt(N)
  BY <1>2 DEF RInv
<1>13. RInv(B + 1, N, k, a, o, g, d, c)'
  BY <1>6, <1>8, <1>9, <1>10, <1>11, <1>12, <1>m DEF RInv
<1>14. Ghosts(B + 1, N, k, a, o, g, d, c)'
  BY DEF Ghosts
<1> QED
  BY <1>13, <1>14 DEF Ordered

LEMMA AddFailsStep ==
  ASSUME DelayFits, TypeOK, Ordered, NEW t \in Checkers, AddBlockFails(t)
  PROVE  Ordered'
<1>1. PICK B, N, k, a, o, g, d, c : Ghosts(B, N, k, a, o, g, d, c) /\ RInv(B, N, k, a, o, g, d, c)
  BY DEF Ordered
<1>2. /\ held[t] # None /\ held'[t] = None /\ \A s \in Checkers \ {t} : held'[s] = held[s]
      /\ Recycled(held[t])
      /\ UNCHANGED <<diskWriteIds, capture, blockCheckIds, passed, phase, flight>>
  BY DEF AddBlockFails, TypeOK
<1>3. Holding(t, B) /\ AllPast(B, d) /\ \A s \in Checkers : c[s] \in B + 1 .. B + CheckNum
  BY <1>1, <1>2, HeldIsOldest DEF RInv
<1>4. Recycled(B % BlockNum) /\ NoneHeld' /\ NoneFlying'
  BY <1>2, <1>3 DEF Holding, NoneHeld, NoneFlying
<1> QED
  BY <1>1, <1>2, <1>3, <1>4, RecycleKeeps

LEMMA CompleteStep ==
  ASSUME DelayFits, TypeOK, Ordered, NEW b \in Blocks, Complete(b)
  PROVE  Ordered'
<1>1. PICK B, N, k, a, o, g, d, c : Ghosts(B, N, k, a, o, g, d, c) /\ RInv(B, N, k, a, o, g, d, c)
  BY DEF Ordered
<1>2. /\ flight[b] # << >> /\ Recycled(b)
      /\ flight' = [flight EXCEPT ![b] = Tail(@)]
      /\ UNCHANGED <<diskWriteIds, capture, checks>>
  BY DEF Complete
<1>3. TakenOK(B, d, c)
  BY <1>1 DEF RInv
<1>4. Flying(B) /\ AllPast(B, d) /\ \A s \in Checkers : c[s] \in B + 1 .. B + CheckNum
  BY <1>2, <1>3 DEF TakenOK, NoneFlying, Holding
<1>5. b = B % BlockNum /\ Len(flight[b]) = 1 /\ \A u \in Blocks \ {b} : flight[u] = << >>
  BY <1>2, <1>4 DEF Flying
<1>6. Tail(flight[b]) = << >>
  <2>1. flight[b] \in Seq(DiskIds)
    BY DEF TypeOK
  <2>2. Tail(flight[b]) \in Seq(DiskIds) /\ Len(Tail(flight[b])) = Len(flight[b]) - 1
    BY <1>2, <2>1
  <2> DEFINE s == Tail(flight[b])
  <2>3. s \in Seq(DiskIds) /\ Len(s) = 0
    BY <1>5, <2>2
  <2> HIDE DEF s
  <2>4. s = << >>
    BY <2>3
  <2> QED
    BY <2>4 DEF s
<1>7. NoneFlying'
  BY <1>2, <1>5, <1>6 DEF NoneFlying, TypeOK
<1>8. NoneHeld' /\ blockCheckIds' = blockCheckIds /\ passed' = passed
  BY <1>2, <1>4 DEF Flying, NoneHeld, checks
<1> QED
  BY <1>1, <1>2, <1>4, <1>5, <1>7, <1>8, RecycleKeeps

LEMMA CheckerStep ==
  ASSUME DelayFits, TypeOK, Running, Ordered, NEW t \in Checkers, Checker(t)
  PROVE  Ordered'
<1>1. phase[t] = "run"
  BY DEF Running
<1>2. ~DrainBlock(t) /\ ~Drained(t)
  BY <1>1 DEF DrainBlock, Drained
<1> QED
  BY <1>2, CheckNextStep, TakeStep, AddStep, AddFailsStep DEF Checker
-----------------------------------------------------------------------------
(* After a stop a disk thread takes every CheckNum-th block from the one   *)
(* it looks at until it finds one that no capture thread has come to.  So  *)
(* it comes to a block when there is no such block before it, nor one that *)
(* is taken, whose recycling would make it one.                            *)
Busy(b)       == flight[b] # << >> \/ \E t \in Checkers : held[t] = b
Due(b)        == \E w \in Writers : DirectCheckRSS(b, w)
Clear(b)      == Due(b) /\ ~Busy(b)
Turn(b, i)    == (b + i * CheckNum) % BlockNum
Path(x, m, b) == Turn(x, m) = b /\ \A i \in 0 .. m : Clear(Turn(x, i))
Comes(b)      == \E t \in Checkers, m \in Nat : phase[t] # "end" /\ Path(blockCheckIds[t], m, b)

DrainOK == /\ \A t \in Checkers : phase[t] = "end" => held[t] = None
           /\ \A b \in Blocks : b \in dirty => Busy(b) \/ Comes(b)

(* Before a disk thread is stopped the order is kept; from then on the     *)
(* capture threads have ended.                                             *)
Stopped == /\ quit = Writers /\ ~Running
           /\ \A w \in Writers : todo[w] = << >> /\ ~copying[w]
           /\ DrainOK

IInv == TypeOK /\ (Stopped \/ (Running /\ Ordered))

LEMMA OrderedInit ==
  ASSUME DelayFits, Init
  PROVE  Running /\ Ordered
<1> DEFINE zero == [w \in Writers |-> 0]
           id   == [w \in Writers |-> w]
           turn == [t \in Checkers |-> t]
<1>1. /\ BlockNum \in Nat \ {0} /\ DiskBlockNum \in Nat \ {0} /\ DiskBlockNum > 4 * BlockNum
      /\ CellNum \in Nat \ {0} /\ RSSNum \in 1 .. BlockNum /\ CheckNum \in 1 .. BlockNum
  BY Sizes
<1>2. ASSUME NEW m \in Nat \ {0}, NEW x \in Nat, x < m
      PROVE  x % m = x
  <2>1. x \in 0 .. m - 1 /\ m * 0 + x = x /\ 0 \in Nat
    BY <1>2
  <2>2. (m * 0 + x) % m = x
    BY <2>1, DivModIs
  <2> QED
    BY <2>1, <2>2
<1>3. /\ \A w \in Writers : w \in Nat /\ w < BlockNum /\ w = w % DiskBlockNum
      /\ \A t \in Checkers : t \in 0 .. CheckNum - 1 /\ t \in Nat /\ t = t % BlockNum
      /\ \A b \in 0 .. BlockNum - 1 : b = b % BlockNum /\ b = b % DiskBlockNum
      /\ CellAt(0) = 0
  <2>1. /\ \A w \in Writers : w \in Nat /\ w < BlockNum /\ w < DiskBlockNum
        /\ \A t \in Checkers : t \in 0 .. CheckNum - 1 /\ t \in Nat /\ t < BlockNum
        /\ \A b \in 0 .. BlockNum - 1 : b \in Nat /\ b < BlockNum /\ b < DiskBlockNum
        /\ 0 < CellNum /\ 0 \in Nat
    BY <1>1 DEF Writers, Checkers
  <2> QED
    BY <1>1, <1>2, <2>1 DEF CellAt
<1>4. Ghosts(0, 0, zero, zero, zero, zero, id, turn)
  BY <1>3 DEF Ghosts
<1>5. ASSUME NEW w \in Writers
      PROVE  WriterOK(w, 0, 0, zero[w], zero[w], zero[w], zero[w], id[w])
  <2>1. Len(<< >>) = 0
    OBVIOUS
  <2>2. Shape(<< >>, 0, 0, 0, 0)
    BY <2>1 DEF Shape
  <2>3. /\ diskWriteIds[w] = w /\ todo[w] = << >> /\ writeCell[w] = None /\ ~copying[w]
        /\ zero[w] = 0 /\ id[w] = w
    BY DEF Init
  <2>4. Tells(w, 0, 0, w)
    BY <1>3, <2>3 DEF Tells
  <2> HIDE DEF zero, id
  <2> QED
    BY <1>3, <2>2, <2>3, <2>4 DEF WriterOK
<1>6. CellsOK(0, 0, zero, zero, zero)
  <2>1. 0 .. 0 - 1 = {}
    OBVIOUS
  <2> HIDE DEF zero
  <2> QED
    BY <2>1 DEF CellsOK
<1>7. BlocksOK(0)
  <2>1. \A u \in 0 .. BlockNum - 1 : blockDiskId[u] = u
    BY DEF Init, Blocks
  <2>2. 0 .. 0 + BlockNum - 1 = 0 .. BlockNum - 1
    BY <1>1
  <2> QED
    BY <1>3, <2>1, <2>2 DEF BlocksOK
<1>8. CheckersOK(id, turn)
  <2>1. \A t \in Checkers : blockCheckIds[t] = t /\ passed[t] = 0 /\ turn[t] = t
    BY DEF Init
  <2>2. \A w \in Writers : ~ w < 0
    BY <1>3
  <2> HIDE DEF id, turn
  <2> QED
    BY <1>3, <2>1, <2>2 DEF CheckersOK
<1>9. TakenOK(0, id, turn)
  <2>1. \A t \in Checkers : turn[t] \in 0 .. 0 + CheckNum - 1
    BY <1>1, <1>3
  <2>2. NoneHeld /\ NoneFlying
    BY DEF Init, NoneHeld, NoneFlying
  <2> HIDE DEF id, turn
  <2> QED
    BY <2>1, <2>2 DEF TakenOK
<1>10. diskWriteCell = CellAt(0)
  BY <1>3 DEF Init
<1>m. DirtyOK(0, zero, zero, zero, id)
  <2>1. dirty = {}
    BY DEF Init
  <2> HIDE DEF zero, id
  <2> QED
    BY <2>1 DEF DirtyOK
<1>11. RInv(0, 0, zero, zero, zero, zero, id, turn)
  BY <1>5, <1>6, <1>7, <1>8, <1>9, <1>10, <1>m DEF RInv
<1>12. Running
  BY DEF Running, Init
<1> QED
  BY <1>4, <1>11, <1>12 DEF Ordered

LEMMA Turns ==
  /\ \A x \in Blocks : \A i \in Nat : Turn(x, i) \in Blocks
  /\ \A x \in Blocks : Turn(x, 0) = x
  /\ \A x \in Nat : \A i, j \in Nat : Turn(Turn(x, i), j) = Turn(x, i + j)
  /\ \A x \in Nat : \A i \in Nat : Turn(x % BlockNum, i) = (x + i * CheckNum) % BlockNum
<1>1. BlockNum \in Nat \ {0} /\ CheckNum \in Nat /\ Blocks \subseteq Nat /\ Blocks = 0 .. BlockNum - 1
  BY Sizes DEF Blocks
<1>2. \A i \in Nat : i * CheckNum \in Nat
  BY <1>1
<1>3. \A x \in Nat : \A i \in Nat : Turn(x % BlockNum, i) = (x + i * CheckNum) % BlockNum
  BY <1>1, <1>2, ModPlus DEF Turn
<1>4. ASSUME NEW x \in Nat, NEW i \in Nat, NEW j \in Nat
      PROVE  Turn(Turn(x, i), j) = Turn(x, i + j)
  <2> DEFINE p == i * CheckNum
             q == j * CheckNum
             z == x + p
  <2>1. p \in Nat /\ q \in Nat /\ (i + j) * CheckNum = p + q
    BY <1>1
  <2> HIDE DEF p, q
  <2>2. z \in Nat /\ z + q = x + (p + q)
    BY <2>1
  <2> HIDE DEF z
  <2>3. Turn(z % BlockNum, j) = (z + q) % BlockNum
    BY <1>3, <2>2 DEF q
  <2>4. Turn(x, i) = z % BlockNum
    BY DEF Turn, z, p
  <2>5. Turn(x, i + j) = (x + (p + q)) % BlockNum
    BY <2>1 DEF Turn
  <2> QED
    BY <2>2, <2>3, <2>4, <2>5
<1>5. ASSUME NEW x \in Blocks
      PROVE  Turn(x, 0) = x
  <2>1. x + 0 * CheckNum = x /\ x \in 0 .. BlockNum - 1 /\ BlockNum * 0 + x = x /\ 0 \in Nat
    BY <1>1
  <2>2. (BlockNum * 0 + x) % BlockNum = x
    BY <1>1, <2>1, DivModIs
  <2> QED
    BY <2>1, <2>2 DEF Turn
<1>6. ASSUME NEW x \in Blocks, NEW i \in Nat
      PROVE  Turn(x, i) \in Blocks
  <2>1. x + i * CheckNum \in Nat
    BY <1>1, <1>2
  <2> QED
    BY <2>1, Remainders DEF Turn
<1> QED
  BY <1>3, <1>4, <1>5, <1>6

(* The disk threads look at as many blocks in a row as they are.           *)
LEMMA AllTurns ==
  ASSUME NEW L \in Nat, NEW c \in [Checkers -> Nat], \A t \in Checkers : c[t] \in L .. L + CheckNum - 1,
         \A s, t \in Checkers : s # t => c[s] # c[t], NEW e \in L .. L + CheckNum - 1
  PROVE  \E t \in Checkers : c[t] = e
<1> DEFINE S == Checkers
           I == L .. L + CheckNum - 1
           T == I \ {e}
<1> SUFFICES ASSUME \A t \in S : c[t] # e PROVE FALSE
  OBVIOUS
<1>1. CheckNum \in Nat \ {0}
  BY Sizes
<1>2. IsFiniteSet(S) /\ Cardinality(S) = CheckNum
  <2>1. 0 \in Int /\ CheckNum - 1 \in Int /\ ~ 0 > CheckNum - 1 /\ (CheckNum - 1) - 0 + 1 = CheckNum
    BY <1>1
  <2> QED
    BY <2>1, FS_Interval DEF Checkers
<1>3. IsFiniteSet(I) /\ Cardinality(I) = CheckNum
  <2> DEFINE R == L + CheckNum - 1
  <2>1. L \in Int /\ R \in Int /\ ~ L > R /\ R - L + 1 = CheckNum
    BY <1>1
  <2> HIDE DEF R
  <2>2. IsFiniteSet(L .. R) /\ Cardinality(L .. R) = CheckNum
    BY <2>1, FS_Interval
  <2> QED
    BY <2>2 DEF R
<1>4. c \in [S -> T]
  OBVIOUS
<1>5. e \in I
  OBVIOUS
<1> HIDE DEF I, S
<1>6. IsFiniteSet(T) /\ Cardinality(T) = CheckNum - 1
  BY <1>3, <1>5, FS_RemoveElement
<1> HIDE DEF T
<1>7. Cardinality(T) < Cardinality(S)
  BY <1>1, <1>2, <1>6
<1>8. \E s, t \in S : s # t /\ c[s] = c[t]
  BY <1>2, <1>4, <1>6, <1>7, FS_PigeonHole
<1> QED
  BY <1>8 DEF S

(* When all is ordered and the capture threads have ended, the disk        *)
(* threads come to every block with something in it.                       *)
LEMMA AllCome ==
  ASSUME DelayFits, TypeOK, Running, Ordered, quit = Writers
  PROVE  DrainOK
<1>1. PICK B, N, k, a, o, g, d, c : Ghosts(B, N, k, a, o, g, d, c) /\ RInv(B, N, k, a, o, g, d, c)
  BY DEF Ordered
<1>2. /\ B \in Nat /\ BlockNum \in Nat \ {0} /\ BlockNum >= 2 /\ CheckNum \in Nat \ {0}
      /\ c \in [Checkers -> Nat] /\ CheckersOK(d, c) /\ TakenOK(B, d, c) /\ BlocksOK(B)
      /\ DirtyOK(B, k, a, g, d)
  BY <1>1, Fits, Sizes DEF Ghosts, RInv
<1>3. ASSUME NEW w \in Writers, NEW u \in Nat, Reached(w, k[w], a[w], g[w], d[w], u)
      PROVE  \E f \in Nat : u <= f /\ f < B + 3 * BlockNum /\ diskWriteIds[w] = f % DiskBlockNum
  <2>1. /\ k[w] \in 0 .. 3 /\ a[w] \in Nat /\ g[w] \in Nat /\ d[w] \in Nat
        /\ WriterOK(w, B, N, k[w], a[w], o[w], g[w], d[w]) /\ Near(B, N)
    BY <1>1, ThreadOf
  <2>2. todo[w] = << >>
    BY <2>1 DEF WriterOK
  <2>3. k[w] = 0
    <3>1. Len(todo[w]) = 0 /\ Len(todo[w]) \in {k[w], k[w] + 1}
      BY <2>1, <2>2 DEF WriterOK, Shape
    <3> QED
      BY <2>1, <3>1
  <2>4. /\ a[w] < N /\ (d[w] < BlockNum \/ d[w] <= Blk(a[w]) \/ d[w] < B + BlockNum)
    BY <1>3, <2>1, <2>3 DEF WriterOK, Ahead, Reached
  <2>5. Blk(a[w]) < B + 3 * BlockNum
    BY <2>1, <2>4 DEF Near
  <2>6. Blk(a[w]) \in Nat
    BY <2>1, CellFacts
  <2>7. d[w] < B + 3 * BlockNum
    BY <1>2, <2>1, <2>4, <2>5, <2>6
  <2>8. PICK f \in Nat : /\ diskWriteIds[w] = f % DiskBlockNum
                         /\ f = d[w] \/ (f + 1 = d[w] /\ Blk(a[w]) <= f)
    BY <2>1, <2>3 DEF WriterOK, Tells
  <2>9. u <= d[w] /\ u <= Blk(a[w])
    BY <1>3, <2>3 DEF Reached, Here
  <2>10. u <= f /\ f < B + 3 * BlockNum
    BY <1>2, <2>1, <2>6, <2>7, <2>8, <2>9
  <2> QED
    BY <2>8, <2>10
<1>4. ASSUME NEW t \in Checkers
      PROVE  phase[t] # "end"
  BY DEF Running
<1>5. ASSUME NEW b \in Blocks, b \in dirty, ~Busy(b)
      PROVE  Comes(b)
  <2>1. PICK u \in B .. B + BlockNum - 1 : u % BlockNum = b
    <3>1. b \in 0 .. BlockNum - 1
      BY DEF Blocks
    <3> QED
      BY <1>2, <3>1, InRound
  <2>2. PICK w \in Writers : Reached(w, k[w], a[w], g[w], d[w], u)
    BY <1>2, <1>5, <2>1 DEF DirtyOK
  <2>3. u \in Nat /\ u < B + BlockNum
    BY <1>2, <2>1
  <2>f. PICK f \in Nat : u <= f /\ f < B + 3 * BlockNum /\ diskWriteIds[w] = f % DiskBlockNum
    BY <1>3, <2>2, <2>3
  <2>4. \E L \in {B, B + 1} : /\ L <= u /\ \A t \in Checkers : c[t] \in L .. L + CheckNum - 1
                              /\ \A v \in L .. u : ~Busy(v % BlockNum)
    <3>1. CASE NoneHeld /\ NoneFlying /\ \A t \in Checkers : c[t] \in B .. B + CheckNum - 1
      <4>1. \A v \in B .. u : v % BlockNum \in Blocks
        <5>1. \A v \in B .. u : v \in Nat
          BY <1>2
        <5> QED
          BY <5>1, Remainders
      <4>2. \A v \in Blocks : ~Busy(v)
        BY <3>1, Sizes DEF NoneHeld, NoneFlying, Busy, Blocks
      <4>3. B <= u
        BY <2>1, <1>2
      <4> QED
        BY <3>1, <4>1, <4>2, <4>3
    <3>2. CASE /\ Flying(B) \/ \E t \in Checkers : Holding(t, B)
               /\ \A t \in Checkers : c[t] \in B + 1 .. B + CheckNum
      <4>1. \A v \in Blocks : v # B % BlockNum => ~Busy(v)
        BY <3>2, Sizes DEF Flying, Holding, NoneHeld, NoneFlying, Busy, Blocks
      <4>2. Busy(B % BlockNum)
        <5>1. B % BlockNum \in Blocks
          BY <1>2, Remainders
        <5>2. CASE Flying(B)
          <6>1. Len(flight[B % BlockNum]) = 1
            BY <5>1, <5>2 DEF Flying
          <6>2. flight[B % BlockNum] # << >>
            BY <6>1
          <6> QED
            BY <6>2 DEF Busy
        <5>3. CASE \E t \in Checkers : Holding(t, B)
          BY <5>3 DEF Holding, Busy
        <5> QED
          BY <3>2, <5>2, <5>3
      <4>3. u # B
        BY <1>5, <2>1, <4>2
      <4>4. B + 1 <= u /\ B + 1 \in Nat /\ (B + 1) + CheckNum - 1 = B + CheckNum
        BY <1>2, <2>1, <4>3
      <4>5. ASSUME NEW v \in B + 1 .. u
            PROVE  ~Busy(v % BlockNum)
        <5>1. v \in Nat /\ v # B /\ v < B + BlockNum /\ B < v + BlockNum
          BY <1>2, <2>3, <4>5
        <5>2. v % BlockNum # B % BlockNum /\ v % BlockNum \in Blocks
          BY <1>2, <5>1, ModApart, Remainders
        <5> QED
          BY <4>1, <5>2
      <4> QED
        BY <3>2, <4>4, <4>5
    <3> QED
      BY <1>2, <3>1, <3>2 DEF TakenOK
  <2>5. PICK L \in {B, B + 1} : /\ L <= u /\ \A t \in Checkers : c[t] \in L .. L + CheckNum - 1
                                /\ \A v \in L .. u : ~Busy(v % BlockNum)
    BY <2>4
  <2>6. L \in Nat /\ B <= L /\ u - L \in Nat
    BY <1>2, <2>3, <2>5
  <2> DEFINE q == (u - L) \div CheckNum
             p == (u - L) % CheckNum
             e == L + p
  <2>7. q \in Nat /\ p \in 0 .. CheckNum - 1 /\ u - L = CheckNum * q + p
    BY <1>2, <2>6, DivMod
  <2> HIDE DEF q, p
  <2>8. e \in L .. L + CheckNum - 1 /\ e \in Nat
    BY <1>2, <2>6, <2>7
  <2>9. u = e + q * CheckNum
    BY <1>2, <2>3, <2>6, <2>7
  <2> HIDE DEF e
  <2>10. PICK t \in Checkers : c[t] = e
    BY <1>2, <2>5, <2>6, <2>8, AllTurns DEF CheckersOK
  <2>11. blockCheckIds[t] = e % BlockNum
    BY <1>2, <2>10 DEF CheckersOK
  <2>12. ASSUME NEW i \in 0 .. q
         PROVE  Clear(Turn(e % BlockNum, i))
    <3> DEFINE v == e + i * CheckNum
    <3>1. i \in Nat /\ i * CheckNum \in Nat /\ i * CheckNum <= q * CheckNum
      BY <1>2, <2>7
    <3>2. v \in Nat /\ L <= v /\ v <= u
      <4> DEFINE y == i * CheckNum
                 z == q * CheckNum
      <4>1. y \in Nat /\ y <= z /\ z \in Nat
        BY <1>2, <2>7, <3>1
      <4> HIDE DEF y, z
      <4>2. e + y \in Nat /\ L <= e + y /\ e + y <= e + z
        BY <2>6, <2>8, <4>1
      <4> QED
        BY <2>9, <4>2 DEF y, z
    <3>3. Turn(e % BlockNum, i) = v % BlockNum
      BY <2>8, <3>1, Turns
    <3> HIDE DEF v
    <3>4. ~Busy(v % BlockNum)
      BY <2>3, <2>5, <2>6, <3>2
    <3>5. v \in B .. B + BlockNum - 1 /\ v <= f
      BY <1>2, <2>3, <2>f, <2>6, <3>2
    <3>6. DirectCheckRSS(v % BlockNum, w)
      BY <1>2, <2>f, <3>5, DirectIs
    <3> QED
      BY <3>3, <3>4, <3>6 DEF Clear, Due
  <2>13. Turn(e % BlockNum, q) = b
    BY <2>1, <2>7, <2>8, <2>9, Turns
  <2> QED
    BY <1>4, <2>7, <2>10, <2>11, <2>12, <2>13 DEF Comes, Path
<1> QED
  BY <1>4, <1>5 DEF DrainOK

(* A step that takes no block. *)
LEMMA DrainKeeps ==
  ASSUME TypeOK, DrainOK, blockCheckIds' = blockCheckIds,
         \A t \in Checkers : phase'[t] = "end" => held'[t] = None,
         \A t \in Checkers : phase[t] # "end" => phase'[t] # "end" \/ ~Clear(blockCheckIds[t]),
         \A b \in Blocks : Clear(b) => Clear(b)',
         \A b \in Blocks : b \in dirty' => b \in dirty /\ (Busy(b) => Busy(b)')
  PROVE  DrainOK'
<1>1. ASSUME NEW b \in Blocks, Comes(b)
      PROVE  Comes(b)'
  <2>1. PICK t \in Checkers, m \in Nat : phase[t] # "end" /\ Path(blockCheckIds[t], m, b)
    BY <1>1 DEF Comes
  <2>2. blockCheckIds[t] \in Blocks
    BY DEF TypeOK
  <2>3. \A i \in 0 .. m : Turn(blockCheckIds[t], i) \in Blocks /\ Clear(Turn(blockCheckIds[t], i))
    <3>1. \A i \in 0 .. m : i \in Nat
      OBVIOUS
    <3> QED
      BY <2>1, <2>2, <3>1, Turns DEF Path
  <2>4. Clear(blockCheckIds[t])
    <3>1. 0 \in 0 .. m
      OBVIOUS
    <3> QED
      BY <2>2, <2>3, <3>1, Turns
  <2>5. PICK x : x = blockCheckIds[t]
    OBVIOUS
  <2>6. Path(x, m, b)'
    <3>1. \A i \in 0 .. m : Clear(Turn(x, i))'
      <4> SUFFICES ASSUME NEW i \in 0 .. m PROVE Clear(Turn(x, i))'
        OBVIOUS
      <4>1. PICK y : y = Turn(x, i)
        OBVIOUS
      <4>2. y \in Blocks /\ Clear(y)
        BY <2>3, <2>5, <4>1
      <4>3. Clear(y)'
        BY <4>2
      <4> QED
        BY <4>1, <4>3
    <3>2. Turn(x, m) = b
      BY <2>1, <2>5 DEF Path
    <3> QED
      BY <3>1, <3>2 DEF Path
  <2>7. phase'[t] # "end"
    BY <2>1, <2>4
  <2> QED
    BY <2>5, <2>6, <2>7 DEF Comes
<1> QED
  BY <1>1 DEF DrainOK

(* A thread takes the block it looks at.  What it or another came to by    *)
(* way of this block it comes to from the next one on.                     *)
LEMMA DrainGets ==
  ASSUME TypeOK, DrainOK, NEW s \in Checkers, held[s] = None, phase[s] # "end", GetBlock(s)
  PROVE  DrainOK'
<1>1. PICK v \in Blocks : v = blockCheckIds[s]
  BY DEF TypeOK
<1>2. /\ held'[s] = v /\ \A t \in Checkers \ {s} : held'[t] = held[t]
      /\ blockCheckIds'[s] = Turn(v, 1) /\ \A t \in Checkers \ {s} : blockCheckIds'[t] = blockCheckIds[t]
      /\ UNCHANGED <<diskWriteIds, blockDiskId, phase, flight, dirty, done>>
  <2>1. 1 * CheckNum = CheckNum
    BY Sizes
  <2> QED
    BY <1>1, <2>1 DEF GetBlock, TypeOK, Turn, history
<1>3. \A t \in Checkers : phase'[t] = "end" => held'[t] = None
  BY <1>2 DEF DrainOK
<1>4. ASSUME NEW b \in Blocks, Busy(b)
      PROVE  Busy(b)'
  <2>1. b # None
    BY Sizes DEF Blocks
  <2> QED
    BY <1>2, <1>4, <2>1 DEF Busy
<1>5. Busy(v)'
  BY <1>2 DEF Busy
<1>6. ASSUME NEW b \in Blocks, b # v, Clear(b)
      PROVE  Clear(b)'
  <2>1. Due(b)'
    BY <1>2, <1>6 DEF Clear, Due, DirectCheckRSS
  <2>2. ~Busy(b)'
    BY <1>2, <1>6 DEF Clear, Busy
  <2> QED
    BY <2>1, <2>2 DEF Clear
<1>7. ASSUME NEW b \in Blocks, b # v, Comes(b)
      PROVE  Comes(b)'
  <2>1. PICK t \in Checkers, m \in Nat : phase[t] # "end" /\ Path(blockCheckIds[t], m, b)
    BY <1>7 DEF Comes
  <2>2. PICK x \in Blocks : x = blockCheckIds[t]
    BY DEF TypeOK
  <2>3. Turn(x, m) = b /\ \A i \in 0 .. m : i \in Nat /\ Turn(x, i) \in Blocks /\ Clear(Turn(x, i))
    <3>1. \A i \in 0 .. m : i \in Nat
      OBVIOUS
    <3> QED
      BY <2>1, <2>2, <3>1, Turns DEF Path
  <2>4. CASE \A i \in 0 .. m : Turn(x, i) # v
    <3>1. t # s
      <4>1. 0 \in 0 .. m
        OBVIOUS
      <4> QED
        BY <1>1, <2>2, <2>4, <4>1, Turns
    <3>2. blockCheckIds'[t] = x /\ phase'[t] # "end"
      BY <1>2, <2>1, <2>2, <3>1
    <3>3. \A i \in 0 .. m : Clear(Turn(x, i))'
      <4> SUFFICES ASSUME NEW i \in 0 .. m PROVE Clear(Turn(x, i))'
        OBVIOUS
      <4>1. PICK y : y = Turn(x, i)
        OBVIOUS
      <4>2. y \in Blocks /\ y # v /\ Clear(y)
        BY <2>3, <2>4, <4>1
      <4>3. Clear(y)'
        BY <1>6, <4>2
      <4> QED
        BY <4>1, <4>3
    <3>4. Path(x, m, b)'
      BY <2>3, <3>3 DEF Path
    <3> QED
      BY <3>2, <3>4 DEF Comes
  <2>5. CASE \E i \in 0 .. m : Turn(x, i) = v
    <3> DEFINE T == {n \in 0 .. m : Turn(x, m - n) = v}
    <3>1. T \subseteq Nat
      OBVIOUS
    <3>2. T # {}
      <4>1. PICK i \in 0 .. m : Turn(x, i) = v
        BY <2>5
      <4>2. m - i \in 0 .. m /\ m - (m - i) = i
        OBVIOUS
      <4> QED
        BY <4>1, <4>2
    <3>3. PICK n \in T : \A y \in T : n <= y
      <4> HIDE DEF T
      <4> QED
        BY <3>1, <3>2, Least
    <3>4. PICK i \in 0 .. m : i = m - n
      OBVIOUS
    <3>5. Turn(x, i) = v
      BY <3>3, <3>4
    <3>6. \A j \in 0 .. m : j > i => Turn(x, j) # v
      <4> SUFFICES ASSUME NEW j \in 0 .. m, j > i, Turn(x, j) = v PROVE FALSE
        OBVIOUS
      <4>1. m - j \in 0 .. m /\ m - (m - j) = j
        OBVIOUS
      <4>2. m - j \in T
        BY <4>1
      <4>3. n <= m - j
        BY <3>3, <4>2
      <4> QED
        BY <3>4, <4>3
    <3> HIDE DEF T
    <3>7. i < m
      BY <1>7, <2>3, <3>5
    <3>8. PICK r \in Nat : r = (m - i) - 1
      BY <3>7
    <3>9. PICK z \in Blocks : z = Turn(v, 1)
      BY Turns
    <3>10. ASSUME NEW j \in 0 .. r
           PROVE  Turn(z, j) = Turn(x, (i + 1) + j)
      <4>1. i \in Nat /\ j \in Nat /\ 1 + j \in Nat /\ i + (1 + j) = (i + 1) + j /\ 1 \in Nat
        OBVIOUS
      <4>2. v \in Nat /\ x \in Nat
        BY Sizes DEF Blocks
      <4>3. Turn(z, j) = Turn(v, 1 + j)
        BY <3>9, <4>1, <4>2, Turns
      <4>4. Turn(v, 1 + j) = Turn(x, i + (1 + j))
        BY <3>5, <4>1, <4>2, Turns
      <4> QED
        BY <4>1, <4>3, <4>4
    <3>11. \A j \in 0 .. r : Clear(Turn(z, j))'
      <4> SUFFICES ASSUME NEW j \in 0 .. r PROVE Clear(Turn(z, j))'
        OBVIOUS
      <4>1. PICK y : y = Turn(z, j)
        OBVIOUS
      <4>2. (i + 1) + j \in 0 .. m /\ (i + 1) + j > i
        BY <3>8
      <4>3. y \in Blocks /\ y # v /\ Clear(y)
        BY <2>3, <3>6, <3>10, <4>1, <4>2
      <4>4. Clear(y)'
        BY <1>6, <4>3
      <4> QED
        BY <4>1, <4>4
    <3>12. Turn(z, r) = b
      <4>1. r \in 0 .. r /\ (i + 1) + r = m
        BY <3>8
      <4> QED
        BY <2>3, <3>10, <4>1
    <3>13. Path(z, r, b)'
      BY <3>11, <3>12 DEF Path
    <3>14. blockCheckIds'[s] = z /\ phase'[s] # "end"
      BY <1>2, <3>9
    <3> QED
      BY <3>13, <3>14 DEF Comes
  <2> QED
    BY <2>4, <2>5
<1>8. ASSUME NEW b \in Blocks, b \in dirty'
      PROVE  Busy(b)' \/ Comes(b)'
  <2>1. Busy(b) \/ Comes(b)
    BY <1>2, <1>8 DEF DrainOK
  <2> QED
    BY <1>4, <1>5, <1>7, <2>1
<1> QED
  BY <1>3, <1>8 DEF DrainOK

(* A taken block is recycled. *)
LEMMA DrainRecycles ==
  ASSUME TypeOK, DrainOK, NEW b \in Blocks, Busy(b), Recycled(b),
         UNCHANGED <<diskWriteIds, blockCheckIds, phase>>,
         \A u \in Blocks \ {b} : flight'[u] = flight[u] /\ \A t \in Checkers : held'[t] = u <=> held[t] = u,
         \A t \in Checkers : held'[t] = held[t] \/ held'[t] = None
  PROVE  DrainOK'
<1>1. /\ dirty' = dirty \ {b}
      /\ \A u \in Blocks \ {b} : blockDiskId'[u] = blockDiskId[u]
  BY DEF Recycled, TypeOK
<1>2. \A u \in Blocks \ {b} : Busy(u)' <=> Busy(u)
  BY DEF Busy
<1>3. \A u \in Blocks \ {b} : Due(u)' <=> Due(u)
  BY <1>1 DEF Due, DirectCheckRSS
<1>4. \A u \in Blocks : Clear(u) => u # b
  BY DEF Clear
<1>5. \A u \in Blocks : Clear(u) => Clear(u)'
  BY <1>2, <1>3, <1>4 DEF Clear
<1>6. \A u \in Blocks : u \in dirty' => u \in dirty /\ (Busy(u) => Busy(u)')
  BY <1>1, <1>2
<1>7. \A t \in Checkers : phase'[t] = "end" => held'[t] = None
  BY DEF DrainOK
<1> QED
  BY <1>5, <1>6, <1>7, DrainKeeps

(* A step that changes neither blocks nor what is known of them.           *)
LEMMA DrainSame ==
  ASSUME TypeOK, DrainOK, UNCHANGED <<diskWriteIds, blockDiskId, blockCheckIds, held, flight, dirty, done>>,
         \A t \in Checkers : phase'[t] = "end" => held[t] = None,
         \A t \in Checkers : phase[t] # "end" => phase'[t] # "end" \/ ~Due(blockCheckIds[t])
  PROVE  DrainOK'
<1>1. \A b \in Blocks : (Busy(b)' <=> Busy(b)) /\ (Due(b)' <=> Due(b))
  BY DEF Busy, Due, DirectCheckRSS
<1>2. \A b \in Blocks : Clear(b) => Clear(b)'
  BY <1>1 DEF Clear
<1>3. \A t \in Checkers : phase[t] # "end" => phase'[t] # "end" \/ ~Clear(blockCheckIds[t])
  BY DEF Clear
<1> QED
  BY <1>1, <1>2, <1>3, DrainKeeps

LEMMA DrainChecker ==
  ASSUME TypeOK, DrainOK, NEW t \in Checkers, Checker(t)
  PROVE  DrainOK'
<1>0. \A s \in Checkers : phase[s] = "end" => held[s] = None
  BY DEF DrainOK
<1>1. CASE CheckNext(t)
  BY <1>0, <1>1, DrainSame DEF CheckNext, history
<1>2. CASE TakeBlock(t)
  BY <1>2, DrainGets DEF TakeBlock
<1>3. CASE DrainBlock(t)
  BY <1>3, DrainGets DEF DrainBlock
<1>4. CASE Drained(t)
  <2>1. /\ held[t] = None /\ ~Due(blockCheckIds[t])
        /\ phase' = [phase EXCEPT ![t] = "end"]
        /\ UNCHANGED <<diskWriteIds, blockDiskId, blockCheckIds, held, flight, dirty, done>>
    BY <1>4 DEF Drained, Due, history
  <2>2. \A s \in Checkers \ {t} : phase'[s] = phase[s]
    BY <2>1 DEF TypeOK
  <2> QED
    BY <1>0, <2>1, <2>2, DrainSame
<1>5. CASE AddBlock(t)
  <2>1. PICK b \in Blocks : b = held[t]
    BY <1>5 DEF AddBlock, TypeOK
  <2>2. /\ held'[t] = None /\ \A s \in Checkers \ {t} : held'[s] = held[s]
        /\ flight'[b] = Append(flight[b], blockDiskId[b])
        /\ \A u \in Blocks \ {b} : flight'[u] = flight[u]
        /\ UNCHANGED <<diskWriteIds, blockDiskId, blockCheckIds, phase, dirty, done>>
    BY <1>5, <2>1 DEF AddBlock, TypeOK, history
  <2>3. flight'[b] # << >>
    <3>1. flight[b] \in Seq(DiskIds)
      BY DEF TypeOK
    <3>2. Append(flight[b], blockDiskId[b]) # << >>
      BY <3>1
    <3> QED
      BY <2>2, <3>2
  <2>4. \A u \in Blocks : Busy(u)' <=> Busy(u)
    <3>1. Busy(b)' /\ Busy(b)
      BY <2>1, <2>3 DEF Busy
    <3>2. \A u \in Blocks \ {b} : Busy(u)' <=> Busy(u)
      <4>1. None \notin Blocks
        BY Sizes DEF Blocks
      <4> QED
        BY <2>1, <2>2, <4>1 DEF Busy
    <3> QED
      BY <3>1, <3>2
  <2>5. \A u \in Blocks : Due(u)' <=> Due(u)
    BY <2>2 DEF Due, DirectCheckRSS
  <2>6. \A u \in Blocks : Clear(u) => Clear(u)'
    BY <2>4, <2>5 DEF Clear
  <2> QED
    BY <1>0, <2>2, <2>4, <2>6, DrainKeeps
<1>6. CASE AddBlockFails(t)
  <2>1. PICK b \in Blocks : b = held[t]
    BY <1>6 DEF AddBlockFails, TypeOK
  <2>2. /\ held'[t] = None /\ \A s \in Checkers \ {t} : held'[s] = held[s]
        /\ Recycled(b)
        /\ UNCHANGED <<diskWriteIds, blockCheckIds, phase, flight>>
    BY <1>6, <2>1 DEF AddBlockFails, TypeOK
  <2>3. None \notin Blocks
    BY Sizes DEF Blocks
  <2>4. Busy(b)
    BY <2>1 DEF Busy
  <2>5. \A u \in Blocks \ {b} : \A s \in Checkers : held'[s] = u <=> held[s] = u
    BY <2>1, <2>2, <2>3
  <2> QED
    BY <2>2, <2>4, <2>5, DrainRecycles
<1> QED
  BY <1>1, <1>2, <1>3, <1>4, <1>5, <1>6 DEF Checker

LEMMA DrainStop ==
  ASSUME TypeOK, DrainOK, NEW t \in Checkers, StopDisk(t)
  PROVE  DrainOK'
<1>1. /\ \A s \in Checkers : phase'[s] = "drain" \/ phase'[s] = phase[s]
      /\ UNCHANGED <<diskWriteIds, blockDiskId, blockCheckIds, held, flight, dirty, done>>
  BY DEF StopDisk, TypeOK, history
<1>2. \A s \in Checkers : phase'[s] = "end" => held[s] = None
  BY <1>1 DEF DrainOK
<1> QED
  BY <1>1, <1>2, DrainSame

LEMMA StopDiskStep ==
  ASSUME DelayFits, TypeOK, Running, Ordered, NEW t \in Checkers, StopDisk(t)
  PROVE  Stopped'
<1>1. PICK B, N, k, a, o, g, d, c : Ghosts(B, N, k, a, o, g, d, c) /\ RInv(B, N, k, a, o, g, d, c)
  BY DEF Ordered
<1>2. quit = Writers /\ phase'[t] = "drain" /\ UNCHANGED capture
  BY DEF StopDisk, TypeOK
<1>3. \A w \in Writers : todo[w] = << >> /\ ~copying[w]
  <2>1. \A w \in Writers : todo[w] = << >>
    BY <1>1, <1>2 DEF RInv, WriterOK
  <2> QED
    BY <2>1 DEF TypeOK
<1>4. DrainOK'
  BY <1>2, AllCome, DrainStop
<1> QED
  BY <1>2, <1>3, <1>4 DEF Stopped, Running, capture

LEMMA StoppedStep ==
  ASSUME TypeOK, Stopped, [Next]_vars
  PROVE  Stopped'
<1>0. PICK t \in Checkers : phase[t] # "run"
  BY DEF Stopped, Running
<1>a. DrainOK /\ \A s \in Checkers : phase[s] = "end" => held[s] = None
  BY DEF Stopped, DrainOK
<1> SUFFICES quit' = Writers /\ todo' = todo /\ copying' = copying /\ phase'[t] # "run" /\ DrainOK'
  BY <1>0 DEF Stopped, Running
<1>1. ASSUME NEW w \in Writers, Writer(w)
      PROVE  quit' = Writers /\ todo' = todo /\ copying' = copying /\ phase'[t] # "run" /\ DrainOK'
  <2>1. todo[w] = << >> /\ ~copying[w] /\ w \in quit
    BY DEF Stopped
  <2>2. Start(w) \/ StopCapture(w)
    BY <1>1, <2>1 DEF Writer, Write, Full, PacketFits, PacketSplit, PacketStray, PacketDropped, Packet, Idle,
                      WriteBegin, WriteFails, WriteEnd, Dies, Quit
  <2>3. UNCHANGED <<diskWriteIds, blockDiskId, todo, copying, quit, checks, flight, dirty, done>>
    BY <2>2 DEF Start, StopCapture, capture, history
  <2>4. DrainOK'
    BY <1>a, <2>3, DrainSame DEF checks
  <2> QED
    BY <1>0, <2>3, <2>4 DEF Stopped, checks
<1>2. ASSUME NEW s \in Checkers, Checker(s) \/ StopDisk(s)
      PROVE  quit' = Writers /\ todo' = todo /\ copying' = copying /\ phase'[t] # "run" /\ DrainOK'
  <2>1. UNCHANGED capture
    BY <1>2 DEF Checker, StopDisk, CheckNext, TakeBlock, DrainBlock, Drained, AddBlock, AddBlockFails, GetBlock
  <2>2. phase' = phase \/ phase' = [phase EXCEPT ![s] = "end"] \/ phase' = [phase EXCEPT ![s] = "drain"]
    BY <1>2 DEF Checker, StopDisk, CheckNext, TakeBlock, DrainBlock, Drained, AddBlock, AddBlockFails, GetBlock
  <2>3. phase'[t] # "run"
    BY <1>0, <2>2 DEF TypeOK
  <2>4. DrainOK'
    BY <1>2, <1>a, DrainChecker, DrainStop
  <2> QED
    BY <2>1, <2>3, <2>4 DEF capture, Stopped
<1>3. ASSUME NEW b \in Blocks, Complete(b)
      PROVE  quit' = Writers /\ todo' = todo /\ copying' = copying /\ phase'[t] # "run" /\ DrainOK'
  <2>1. /\ flight[b] # << >> /\ Recycled(b) /\ \A u \in Blocks \ {b} : flight'[u] = flight[u]
        /\ UNCHANGED <<diskWriteIds, blockCheckIds, phase, held>>
    BY <1>3 DEF Complete, TypeOK, checks
  <2>2. Busy(b)
    BY <2>1 DEF Busy
  <2>3. DrainOK'
    BY <1>a, <2>1, <2>2, DrainRecycles
  <2> QED
    BY <1>0, <1>3, <2>3 DEF Complete, capture, checks, Stopped
<1>4. CASE UNCHANGED vars
  <2>1. DrainOK'
    BY <1>a, <1>4, DrainSame DEF vars, checks, history
  <2> QED
    BY <1>0, <1>4, <2>1 DEF vars, capture, checks, Stopped
<1> QED
  BY <1>1, <1>2, <1>3, <1>4 DEF Next

LEMMA RunningStep ==
  ASSUME DelayFits, TypeOK, Running, Ordered, [Next]_vars
  PROVE  Stopped' \/ (Running' /\ Ordered')
<1>1. ASSUME NEW w \in Writers, Writer(w)
      PROVE  Running' /\ Ordered'
  <2>1. phase' = phase
    BY <1>1 DEF Writer, Write, Full, Start, PacketFits, PacketSplit, PacketStray, PacketDropped, Packet,
                WriteBegin, WriteFails, WriteEnd, Dies, Quit, StopCapture, checks
  <2> QED
    BY <1>1, <2>1, WriterStep DEF Running
<1>2. ASSUME NEW t \in Checkers, Checker(t)
      PROVE  Running' /\ Ordered'
  <2>1. phase' = phase
    <3>1. phase[t] = "run"
      BY DEF Running
    <3> QED
      BY <1>2, <3>1 DEF Checker, CheckNext, TakeBlock, DrainBlock, Drained, AddBlock, AddBlockFails, GetBlock
  <2> QED
    BY <1>2, <2>1, CheckerStep DEF Running
<1>3. ASSUME NEW t \in Checkers, StopDisk(t)
      PROVE  Stopped'
  BY <1>3, StopDiskStep
<1>4. ASSUME NEW b \in Blocks, Complete(b)
      PROVE  Running' /\ Ordered'
  BY <1>4, CompleteStep DEF Complete, Running, checks
<1>5. CASE UNCHANGED vars
  BY <1>5, OrderedSame DEF vars, Running, checks, capture, place, history
<1> QED
  BY <1>1, <1>2, <1>3, <1>4, <1>5 DEF Next

LEMMA Invariance == DelayFits => (Spec => []IInv)
<1> SUFFICES ASSUME DelayFits PROVE Spec => []IInv
  OBVIOUS
<1>1. Init => IInv
  BY TypeInit, OrderedInit DEF IInv
<1>2. IInv /\ [Next]_vars => IInv'
  <2> SUFFICES ASSUME IInv, [Next]_vars PROVE IInv'
    OBVIOUS
  <2>1. TypeOK /\ TypeOK'
    BY TypeStep DEF IInv
  <2>2. CASE Stopped
    BY <2>1, <2>2, StoppedStep DEF IInv
  <2>3. CASE Running /\ Ordered
    BY <2>1, <2>3, RunningStep DEF IInv
  <2> QED
    BY <2>2, <2>3 DEF IInv
<1> QED
  BY <1>1, <1>2, PTL DEF Spec
-----------------------------------------------------------------------------
(* Nothing is taken but the oldest block, when every thread is past it. *)
LEMMA TakenIs ==
  ASSUME TypeOK, NEW B \in Nat, NEW d, NEW c, TakenOK(B, d, c), NEW b \in Blocks
  PROVE  /\ Takes(b) \in 0 .. 1
         /\ Takes(b) # 0 => b = B % BlockNum /\ AllPast(B, d)
<1> DEFINE H == {t \in Checkers : held[t] = b}
<1>0. b # None
  BY Sizes DEF Blocks
<1>1. Len(<< >>) = 0 /\ Cardinality({}) = 0
  BY FS_EmptySet
<1>2. CASE NoneHeld /\ NoneFlying
  <2>1. H = {} /\ flight[b] = << >>
    BY <1>0, <1>2 DEF NoneHeld, NoneFlying
  <2>2. Len(flight[b]) = 0 /\ Cardinality(H) = 0
    BY <1>1, <2>1
  <2> HIDE DEF H
  <2> QED
    BY <2>2 DEF Takes, H
<1>3. CASE Flying(B) /\ AllPast(B, d)
  <2>1. H = {} /\ (IF b = B % BlockNum THEN Len(flight[b]) = 1 ELSE flight[b] = << >>)
    BY <1>0, <1>3 DEF NoneHeld, Flying
  <2>2. Cardinality(H) = 0 /\ (IF b = B % BlockNum THEN Len(flight[b]) = 1 ELSE Len(flight[b]) = 0)
    BY <1>1, <2>1
  <2>3. Takes(b) = IF b = B % BlockNum THEN 1 ELSE 0
    <3>1. Len(flight[b]) = IF b = B % BlockNum THEN 1 ELSE 0
      BY <2>2
    <3>2. Takes(b) = Len(flight[b]) + Cardinality(H)
      BY DEF Takes
    <3> HIDE DEF H
    <3> QED
      BY <2>2, <3>1, <3>2
  <2> QED
    BY <1>3, <2>3
<1>4. ASSUME NEW t \in Checkers, Holding(t, B), AllPast(B, d)
      PROVE  /\ Takes(b) \in 0 .. 1
             /\ Takes(b) # 0 => b = B % BlockNum /\ AllPast(B, d)
  <2>1. Len(flight[b]) = 0
    BY <1>1, <1>4 DEF Holding, NoneFlying
  <2>2. H = IF b = B % BlockNum THEN {t} ELSE {}
    BY <1>0, <1>4 DEF Holding
  <2>3. Cardinality({t}) = 1
    BY FS_Singleton
  <2>4. Cardinality(H) = IF b = B % BlockNum THEN 1 ELSE 0
    BY <1>1, <2>2, <2>3
  <2> HIDE DEF H
  <2> QED
    BY <1>4, <2>1, <2>4 DEF Takes, H
<1> QED
  BY <1>2, <1>3, <1>4 DEF TakenOK

LEMMA InvSealed == IInv => SealedBlocks
<1> SUFFICES ASSUME IInv, NEW w \in Writers, copying[w]
             PROVE  LET u == DiskIdOf(Head(todo[w]).cell) IN Stands(u) /\ Takes(BlockOf(u)) = 0
  BY DEF SealedBlocks
<1>1. TypeOK /\ Ordered
  BY DEF IInv, Stopped
<1>2. PICK B, N, k, a, o, g, d, c : Ghosts(B, N, k, a, o, g, d, c) /\ RInv(B, N, k, a, o, g, d, c)
  BY <1>1 DEF Ordered
<1>3. B \in Nat /\ d[w] \in Nat /\ d[w] < B + BlockNum /\ CanWrite(Head(todo[w])) /\ TakenOK(B, d, c)
  BY <1>2 DEF Ghosts, RInv, WriterOK
<1>4. ~AllPast(B, d)
  <2>1. ~ d[w] >= B + BlockNum
    BY <1>3, Sizes
  <2> QED
    BY <2>1 DEF AllPast
<1> DEFINE u == DiskIdOf(Head(todo[w]).cell)
<1>5. u \in DiskIds /\ BlockOf(u) \in Blocks
  <2>1. todo[w] \in Seq(Writing) /\ todo[w] # << >>
    BY <1>1 DEF TypeOK
  <2>2. Head(todo[w]) \in Writing
    BY <2>1, TailType
  <2> QED
    BY <2>2, ToldType, MoreRemainders
<1>6. Takes(BlockOf(u)) = 0
  <2> HIDE DEF u
  <2> QED
    BY <1>1, <1>3, <1>4, <1>5, TakenIs
<1> QED
  BY <1>3, <1>6 DEF CanWrite

LEMMA InvComplete == DelayFits /\ IInv => CompleteBlocks
<1> SUFFICES ASSUME DelayFits, IInv, Running, NEW b \in Blocks, Takes(b) > 0,
                    NEW j \in 0 .. CellsPerBlock - 1
             PROVE  blockDiskId[b] * CellsPerBlock + j \in done
  BY DEF CompleteBlocks
<1>1. TypeOK /\ Ordered
  BY DEF IInv, Stopped
<1>2. PICK B, N, k, a, o, g, d, c : Ghosts(B, N, k, a, o, g, d, c) /\ RInv(B, N, k, a, o, g, d, c)
  BY <1>1 DEF Ordered
<1>3. /\ B \in Nat /\ N \in Nat /\ BlockNum \in Nat /\ BlockNum >= 2 /\ RSSNum \in Nat \ {0}
      /\ \A w \in Writers : /\ k[w] \in 0 .. 3 /\ a[w] \in Nat /\ o[w] \in Nat /\ g[w] \in Nat /\ d[w] \in Nat
                            /\ WriterOK(w, B, N, k[w], a[w], o[w], g[w], d[w])
      /\ CellsOK(B, N, k, a, o) /\ TakenOK(B, d, c) /\ BlocksOK(B)
  BY <1>2, Fits DEF Ghosts, RInv
<1>4. b = B % BlockNum /\ AllPast(B, d)
  BY <1>1, <1>3, TakenIs
<1>5. ASSUME NEW w \in Writers
      PROVE  /\ a[w] < N /\ a[w] \in Nat /\ Blk(a[w]) > B
             /\ k[w] >= 2 => Blk(g[w]) > B
  <2>1. d[w] >= B + BlockNum /\ d[w] \in Nat
    BY <1>3, <1>4 DEF AllPast
  <2>2. /\ a[w] < N
        /\ k[w] # 2 => d[w] <= Blk(a[w])
        /\ k[w] = 2 => d[w] <= Blk(g[w]) + 1
        /\ k[w] = 3 => d[w] <= Blk(g[w])
        /\ k[w] >= 2 => Blk(g[w]) <= Blk(a[w])
    <3>1. /\ B \in Nat /\ N \in Nat /\ k[w] \in 0 .. 3 /\ a[w] \in Nat /\ o[w] \in Nat /\ g[w] \in Nat
          /\ WriterOK(w, B, N, k[w], a[w], o[w], g[w], d[w])
      BY <1>3
    <3>2. writeCell[w] # None /\ a[w] < N /\ (k[w] # 2 => d[w] <= Blk(a[w]))
      BY <2>1, <3>1, PastCells
    <3>3. (k[w] = 2 => d[w] <= Blk(g[w]) + 1) /\ (k[w] = 3 => d[w] <= Blk(g[w]))
      BY <2>1, <3>1, PastCells
    <3>4. ASSUME k[w] >= 2 PROVE Blk(g[w]) <= Blk(a[w])
      <4>1. (g[w] < a[w] \/ g[w] = a[w]) /\ g[w] \in Nat /\ a[w] \in Nat
        BY <3>1, <3>4 DEF WriterOK
      <4>2. Blk(g[w]) \in Nat /\ Blk(a[w]) \in Nat
        BY <4>1, CellFacts
      <4>3. CASE g[w] < a[w]
        <5>1. a[w] > g[w]
          BY <4>1, <4>3
        <5> QED
          BY <4>1, <5>1, BlkOrder
      <4>4. CASE g[w] = a[w]
        BY <4>2, <4>4
      <4> QED
        BY <4>1, <4>3, <4>4
    <3> QED
      BY <3>2, <3>3, <3>4
  <2>3. Blk(a[w]) \in Nat /\ Blk(g[w]) \in Nat
    BY <1>3, CellFacts
  <2> QED
    BY <1>3, <2>1, <2>2, <2>3
<1> DEFINE n == CellsPerBlock * B + j
<1>6. n \in Nat /\ Blk(n) = B /\ n % CellsPerBlock = j
  BY <1>3, BlkOf
<1> HIDE DEF n
<1>7. n \in 0 .. N - 1
  <2>1. 0 \in Writers
    BY <1>3 DEF Writers
  <2>2. a[0] < N /\ a[0] \in Nat /\ Blk(a[0]) > B
    BY <1>5, <2>1
  <2>3. n < a[0]
    <3> SUFFICES ASSUME ~ n < a[0] PROVE FALSE
      OBVIOUS
    <3>1. a[0] = n \/ a[0] < n
      BY <1>6, <2>2
    <3>2. ~ a[0] < n
      <4> SUFFICES ASSUME n > a[0] PROVE FALSE
        BY <1>6, <2>2
      <4>1. Blk(a[0]) <= Blk(n)
        BY <1>6, <2>2, BlkOrder
      <4>2. Blk(a[0]) \in Nat
        BY <2>2, CellFacts
      <4> QED
        BY <1>3, <1>6, <2>2, <4>1, <4>2
    <3> QED
      BY <1>3, <1>6, <2>2, <3>1, <3>2
  <2> QED
    BY <1>3, <1>6, <2>2, <2>3
<1>8. ASSUME NEW w \in Writers, Holds(w, k[w], a[w], o[w], n)
      PROVE  CellAt(n) \in done
  <2>1. k[w] >= 2 /\ n = o[w]
    BY <1>3, <1>5, <1>6, <1>8 DEF Holds
  <2>2. g[w] # o[w]
    BY <1>3, <1>5, <1>6, <2>1
  <2>3. Blk(n) < B \/ CellAt(n) \in done
    BY <1>3, <2>1, <2>2 DEF WriterOK, Gone
  <2> QED
    BY <1>3, <1>6, <2>3
<1>9. CellAt(n) \in done
  <2>1. Filled(n, B) \/ CellAt(n) \in done
    BY <1>7, <1>8, <1>3 DEF CellsOK
  <2> QED
    BY <1>3, <1>6, <2>1 DEF Filled
<1>10. blockDiskId[b] = B % DiskBlockNum
  <2>1. B \in B .. B + BlockNum - 1
    BY <1>3
  <2> QED
    BY <1>3, <1>4, <2>1 DEF BlocksOK
<1>11. /\ CellAt(n) \in Nat /\ DiskIdOf(CellAt(n)) = B % DiskBlockNum
       /\ CellAt(n) % CellsPerBlock = j
  <2>1. CellAt(n) \in Cells
    BY <1>6, CellFacts
  <2> QED
    BY <1>6, <2>1, CellFacts, MoreRemainders
<1>12. CellsPerBlock * (B % DiskBlockNum) = (B % DiskBlockNum) * CellsPerBlock
  <2>1. B % DiskBlockNum \in Nat /\ CellsPerBlock \in Nat
    BY <1>3, Remainders, Sizes DEF DiskIds
  <2> QED
    BY <2>1
<1> QED
  BY <1>9, <1>10, <1>11, <1>12, Sizes, DivMod DEF DiskIdOf

LEMMA InvOnce == IInv => TakenOnce
<1> SUFFICES ASSUME IInv, Running, NEW b \in Blocks
             PROVE  Takes(b) <= 1
  BY DEF TakenOnce
<1>1. TypeOK /\ Ordered
  BY DEF IInv, Stopped
<1>2. PICK B, N, k, a, o, g, d, c : Ghosts(B, N, k, a, o, g, d, c) /\ RInv(B, N, k, a, o, g, d, c)
  BY <1>1 DEF Ordered
<1>3. B \in Nat /\ TakenOK(B, d, c)
  BY <1>2 DEF Ghosts, RInv
<1> QED
  BY <1>1, <1>3, TakenIs

LEMMA InvNothingLeft == IInv => NothingLeft
<1> SUFFICES ASSUME IInv, \A t \in Checkers : phase[t] = "end",
                    NEW b \in Blocks, b \in dirty
             PROVE  flight[b] # << >>
  BY DEF NothingLeft, IInv, TypeOK
<1>1. ~Running
  <2>1. 0 \in Checkers
    BY Sizes DEF Checkers
  <2> QED
    BY <2>1 DEF Running
<1>2. DrainOK
  BY <1>1 DEF IInv, Stopped
<1>3. ~Comes(b)
  BY DEF Comes
<1>4. Busy(b)
  BY <1>2, <1>3 DEF DrainOK
<1>5. b # None
  BY Sizes DEF Blocks
<1> QED
  BY <1>2, <1>4, <1>5 DEF DrainOK, Busy

(* The variables of the buffer have their types (dataBlockBuffer.hpp). *)
THEOREM BufferTypes == Spec => []TypeOK
<1>1. TypeOK /\ [Next]_vars => TypeOK'
  BY TypeStep
<1> QED
  BY TypeInit, <1>1, PTL DEF Spec

(* With no lock between writeBlock, checkRSS and recycleBlock no capture   *)
(* thread copies into a block that a disk thread has taken, nor into one   *)
(* that stands for another disk block than it did when the thread looked.  *)
THEOREM SealedAlways == DelayFits => (Spec => []SealedBlocks)
BY Invariance, InvSealed, PTL

(* checkBlock takes a block only when every cell of it has been written to *)
(* its pointer or its thread has been carried out of it by a dropped packet*)
(* (getOffset before the test for IP).                                     *)
THEOREM CompleteAlways == DelayFits => (Spec => []CompleteBlocks)
<1> SUFFICES ASSUME DelayFits PROVE Spec => []CompleteBlocks
  OBVIOUS
<1>1. IInv => CompleteBlocks
  BY InvComplete
<1>2. Spec => []IInv
  BY Invariance
<1> QED
  BY <1>1, <1>2, PTL

(* checkBlock and getBlock take no block again that has not been recycled. *)
THEOREM TakenOnceAlways == DelayFits => (Spec => []TakenOnce)
BY Invariance, InvOnce, PTL

(* When the disk threads have ended after a stop, nothing that a capture   *)
(* thread wrote to its cells is left in memory alone: they take every block*)
(* with something in it before directGetBlockID tells them that there is no     *)
(* more (runData), however many there are and whichever writes fail.       *)
THEOREM NothingLeftAlways == DelayFits => (Spec => []NothingLeft)
BY Invariance, InvNothingLeft, PTL
================
