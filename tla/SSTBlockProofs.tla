--------------------------- MODULE SSTBlockProofs ---------------------------
(* Proofs about SSTBlock, for any columns, names, rows and strings and any *)
(* number of blocks: the fields of a block lie in it one behind the other, *)
(* and what a read finds at a field's place is the field.                  *)
EXTENDS SSTBlock, WellFoundedInduction, TLAPS

-----------------------------------------------------------------------------
(* Induction over the natural numbers, and what it says of functions       *)
(* defined by recursion.  A property is stated as the set of numbers that  *)
(* have it, and the step of a recursion is a function, so that each use    *)
(* cites a fact about sets.                                                *)

(* A set of natural numbers has a least one. *)
LEMMA Least ==
  ASSUME NEW T, T \subseteq Nat, T # {}
  PROVE  \E x \in T : \A y \in T : x <= y
<1> DEFINE R == {p \in Nat \X Nat : p[1] < p[2]}
<1>1. IsWellFoundedOn(R, Nat)
  BY NatLessThanWellFounded DEF OpToRel
<1>2. \A x, y \in Nat : y < x => <<y, x>> \in R
  OBVIOUS
<1> HIDE DEF R
<1>3. PICK x \in T : \A y \in T : ~(<<y, x>> \in R)
  BY <1>1, WFMin
<1>4. \A y \in T : ~(y < x)
  BY <1>2, <1>3
<1> QED
  BY <1>4

(* What holds of 0 and of the successor of each number it holds of, holds  *)
(* of all of them.                                                         *)
LEMMA NatInSet ==
  ASSUME NEW S, 0 \in S, \A n \in Nat : n \in S => n + 1 \in S
  PROVE  \A n \in Nat : n \in S
<1> DEFINE T == {n \in Nat : n \notin S}
<1> SUFFICES ASSUME T # {} PROVE FALSE
  OBVIOUS
<1>1. T \subseteq Nat
  OBVIOUS
<1>2. PICK x \in T : \A y \in T : x <= y
  <2> HIDE DEF T
  <2> QED
    BY <1>1, Least
<1>3. x # 0
  OBVIOUS
<1>4. x - 1 \in Nat /\ x - 1 \notin T /\ (x - 1) + 1 = x
  BY <1>2, <1>3
<1> QED
  BY <1>4

(* f is what recursion over 1 .. n makes of its first value c and its step.*)
Recurs(f, n, c, step) ==
  f = [i \in 0 .. n |-> IF i = 0 THEN c ELSE step[<<i, f[i - 1]>>]]

(* There is such a function. *)
LEMMA RecursionDefines ==
  ASSUME NEW n \in Nat, NEW T, NEW c \in T, NEW step \in [(1 .. n) \X T -> T]
  PROVE  \E f \in [0 .. n -> T] : Recurs(f, n, c, step)
<1> DEFINE Upto(m, f) == f[0] = c /\ \A i \in 1 .. m : f[i] = step[<<i, f[i - 1]>>]
           S == {m \in Nat : m <= n => \E f \in [0 .. m -> T] : Upto(m, f)}
<1>1. 0 \in S
  <2>1. [i \in 0 .. 0 |-> c] \in [0 .. 0 -> T] /\ Upto(0, [i \in 0 .. 0 |-> c])
    OBVIOUS
  <2> HIDE DEF Upto
  <2> QED
    BY <2>1
<1>2. ASSUME NEW m \in Nat, m \in S
      PROVE  m + 1 \in S
  <2> SUFFICES ASSUME m + 1 <= n
               PROVE  \E f \in [0 .. m + 1 -> T] : Upto(m + 1, f)
    OBVIOUS
  <2>1. PICK g \in [0 .. m -> T] : Upto(m, g)
    BY <1>2
  <2> DEFINE x == step[<<m + 1, g[m]>>]
             f == [i \in 0 .. m + 1 |-> IF i = m + 1 THEN x ELSE g[i]]
  <2>2. x \in T
    <3>1. m + 1 \in 1 .. n /\ g[m] \in T
      OBVIOUS
    <3> QED
      BY <3>1
  <2>3. f \in [0 .. m + 1 -> T]
    BY <2>2
  <2>4. /\ f[0] = g[0] /\ f[m + 1] = x
        /\ \A i \in 1 .. m : f[i] = g[i] /\ f[i - 1] = g[i - 1]
        /\ f[(m + 1) - 1] = g[m]
    OBVIOUS
  <2>5. \A i \in 1 .. m + 1 : i \in 1 .. m \/ i = m + 1
    OBVIOUS
  <2>6. Upto(m + 1, f)
    <3> HIDE DEF f
    <3> QED
      BY <2>1, <2>4, <2>5
  <2> QED
    BY <2>3, <2>6
<1>3. n \in S
  <2> HIDE DEF S
  <2> QED
    BY <1>1, <1>2, NatInSet
<1>4. PICK f \in [0 .. n -> T] : Upto(n, f)
  BY <1>3
<1>5. \A i \in 0 .. n : f[i] = IF i = 0 THEN c ELSE step[<<i, f[i - 1]>>]
  BY <1>4
<1> QED
  BY <1>5 DEF Recurs

(* g begins with c and goes on by the step up to n, as long as its values  *)
(* are in T.                                                               *)
Follows(g, n, T, c, step) ==
  /\ g[0] = c
  /\ \A i \in 1 .. n : g[i - 1] \in T => g[i] = step[<<i, g[i - 1]>>]

(* Then all of them are. *)
LEMMA RecursionType ==
  ASSUME NEW n \in Nat, NEW T, NEW c \in T, NEW step \in [(1 .. n) \X T -> T],
         NEW g, Follows(g, n, T, c, step)
  PROVE  \A i \in 0 .. n : g[i] \in T
<1> DEFINE S == {i \in Nat : i <= n => g[i] \in T}
<1>1. 0 \in S
  BY DEF Follows
<1>2. ASSUME NEW i \in Nat, i \in S
      PROVE  i + 1 \in S
  <2> SUFFICES ASSUME i + 1 <= n
               PROVE  g[i + 1] \in T
    OBVIOUS
  <2>1. g[i] \in T /\ i + 1 \in 1 .. n /\ (i + 1) - 1 = i
    BY <1>2
  <2>2. step[<<i + 1, g[i]>>] \in T
    BY <2>1
  <2> QED
    BY <2>1, <2>2 DEF Follows
<1>3. \A i \in Nat : i \in S
  <2> HIDE DEF S
  <2> QED
    BY <1>1, <1>2, NatInSet
<1> QED
  BY <1>3

-----------------------------------------------------------------------------
(* Sums. *)

SumFcn(s, n) ==
  CHOOSE sum : sum = [k \in 0 .. n |-> IF k = 0 THEN 0 ELSE sum[k - 1] + s[k]]

AddNext(s, n) == [p \in (1 .. n) \X Nat |-> p[2] + s[p[1]]]

(* The recursive function in Sums exists and satisfies its equations. *)
LEMMA SumsAre ==
  ASSUME NEW n \in Nat, NEW s \in [1 .. n -> Nat]
  PROVE  /\ Sums(s)[0] = 0
         /\ \A k \in 1 .. n : Sums(s)[k] = Sums(s)[k - 1] + s[k]
         /\ \A k \in 0 .. n : Sums(s)[k] \in Nat
<1> DEFINE step == AddNext(s, n)
           Def(f) == f = [k \in 0 .. n |-> IF k = 0 THEN 0 ELSE f[k - 1] + s[k]]
<1>1. \A k \in 1 .. n : s[k] \in Nat
  OBVIOUS
<1>2. step \in [(1 .. n) \X Nat -> Nat]
  BY <1>1 DEF AddNext
<1>3. PICK f \in [0 .. n -> Nat] : Recurs(f, n, 0, step)
  <2>1. 0 \in Nat
    OBVIOUS
  <2> HIDE DEF step
  <2> QED
    BY <1>2, <2>1, RecursionDefines
<1>4. Def(f)
  <2>1. f[0] = 0
    BY <1>3 DEF Recurs
  <2>2. ASSUME NEW k \in 1 .. n
        PROVE  f[k] = f[k - 1] + s[k]
    <3>1. f[k] = step[<<k, f[k - 1]>>]
      BY <1>3 DEF Recurs
    <3>2. f[k - 1] \in Nat /\ <<k, f[k - 1]>> \in (1 .. n) \X Nat
      BY <1>3
    <3> QED
      BY <3>1, <3>2 DEF AddNext
  <2>3. \A k \in 0 .. n : f[k] = IF k = 0 THEN 0 ELSE f[k - 1] + s[k]
    <3>1. \A k \in 0 .. n : k = 0 \/ k \in 1 .. n
      OBVIOUS
    <3> QED
      BY <2>1, <2>2, <3>1
  <2> QED
    BY <2>3
<1>5. Def(SumFcn(s, n))
  <2>1. SumFcn(s, n) = CHOOSE g : Def(g)
    BY DEF SumFcn
  <2> HIDE DEF Def
  <2> QED
    BY <1>4, <2>1
<1> DEFINE g == SumFcn(s, n)
<1> HIDE DEF g
<1>6. g[0] = 0 /\ \A k \in 1 .. n : g[k] = g[k - 1] + s[k]
  BY <1>5 DEF g
<1>7. \A k \in 0 .. n : g[k] \in Nat
  <2>1. \A k \in 1 .. n : g[k - 1] \in Nat => g[k] = step[<<k, g[k - 1]>>]
    BY <1>6 DEF AddNext
  <2>2. Follows(g, n, Nat, 0, step)
    BY <1>6, <2>1 DEF Follows
  <2>3. 0 \in Nat
    OBVIOUS
  <2> HIDE DEF step
  <2> QED
    BY <1>2, <2>2, <2>3, RecursionType
<1>8. Sums(s) = g
  <2>1. Len(s) = n
    OBVIOUS
  <2> QED
    BY <2>1 DEF Sums, SumFcn, g
<1> QED
  BY <1>6, <1>7, <1>8

(* What begins at a place and grows by something at each step does not     *)
(* come back.                                                              *)
LEMMA Grows ==
  ASSUME NEW n \in Nat, NEW S \in [0 .. n -> Nat], \A k \in 1 .. n : S[k - 1] <= S[k]
  PROVE  \A j, k \in 0 .. n : j <= k => S[j] <= S[k]
<1> SUFFICES ASSUME NEW j \in 0 .. n
             PROVE  \A k \in 0 .. n : j <= k => S[j] <= S[k]
  OBVIOUS
<1> DEFINE T == {k \in Nat : k \in 0 .. n /\ j <= k => S[j] <= S[k]}
<1>1. 0 \in T
  OBVIOUS
<1>2. ASSUME NEW k \in Nat, k \in T
      PROVE  k + 1 \in T
  <2> SUFFICES ASSUME k + 1 \in 0 .. n, j <= k + 1
               PROVE  S[j] <= S[k + 1]
    OBVIOUS
  <2>1. k + 1 \in 1 .. n /\ k \in 0 .. n /\ (k + 1) - 1 = k
    OBVIOUS
  <2>2. S[k] <= S[k + 1] /\ S[k] \in Nat /\ S[k + 1] \in Nat /\ S[j] \in Nat
    BY <2>1
  <2>3. CASE j = k + 1
    BY <2>2, <2>3
  <2>4. CASE j # k + 1
    <3>1. S[j] <= S[k]
      BY <1>2, <2>1, <2>4
    <3> QED
      BY <2>2, <3>1
  <2> QED
    BY <2>3, <2>4
<1>3. \A k \in Nat : k \in T
  <2> HIDE DEF T
  <2> QED
    BY <1>1, <1>2, NatInSet
<1> QED
  BY <1>3
-----------------------------------------------------------------------------
(* Parts of a block. *)

Clear(f, g) == f.at + f.size <= g.at \/ g.at + g.size <= f.at

(* The fields of P lie between lo and hi and do not run into each other. *)
Part(P, lo, hi) ==
  /\ lo \in Nat /\ hi \in Nat /\ lo <= hi
  /\ \A f \in P : /\ f = Field(f.at, f.size, f.says) /\ f.at \in Nat /\ f.size \in Nat
                  /\ lo <= f.at /\ f.at + f.size <= hi
  /\ \A f, g \in P : f = g \/ Clear(f, g)

LEMMA OneField ==
  ASSUME NEW at \in Nat, NEW size \in Nat, NEW says
  PROVE  Part({Field(at, size, says)}, at, at + size)
BY DEF Part, Field

(* A part behind another. *)
LEMMA TwoParts ==
  ASSUME NEW P, NEW Q, NEW lo, NEW mid, NEW hi, Part(P, lo, mid), Part(Q, mid, hi)
  PROVE  Part(P \cup Q, lo, hi)
<1>1. lo \in Nat /\ mid \in Nat /\ hi \in Nat /\ lo <= mid /\ mid <= hi
  BY DEF Part
<1>2. ASSUME NEW f \in P \cup Q
      PROVE  /\ f = Field(f.at, f.size, f.says) /\ f.at \in Nat /\ f.size \in Nat
             /\ lo <= f.at /\ f.at + f.size <= hi
  <2>1. /\ f = Field(f.at, f.size, f.says) /\ f.at \in Nat /\ f.size \in Nat
        /\ f \in P => lo <= f.at /\ f.at + f.size <= mid
        /\ f \in Q => mid <= f.at /\ f.at + f.size <= hi
    BY DEF Part
  <2> QED
    BY <1>1, <2>1
<1>3. ASSUME NEW f \in P \cup Q, NEW g \in P \cup Q
      PROVE  f = g \/ Clear(f, g)
  <2>1. CASE (f \in P /\ g \in P) \/ (f \in Q /\ g \in Q)
    BY <2>1 DEF Part
  <2>2. CASE f \in P /\ g \in Q
    <3>1. /\ f.at + f.size <= mid /\ mid <= g.at
          /\ f.at \in Nat /\ f.size \in Nat /\ g.at \in Nat
      BY <2>2 DEF Part
    <3> QED
      BY <1>1, <3>1 DEF Clear
  <2>3. CASE f \in Q /\ g \in P
    <3>1. /\ g.at + g.size <= mid /\ mid <= f.at
          /\ g.at \in Nat /\ g.size \in Nat /\ f.at \in Nat
      BY <2>3 DEF Part
    <3> QED
      BY <1>1, <3>1 DEF Clear
  <2> QED
    BY <2>1, <2>2, <2>3
<1> QED
  BY <1>1, <1>2, <1>3 DEF Part

(* Parts one behind the other, part k from base + S[k - 1] to base + S[k]. *)
LEMMA ManyParts ==
  ASSUME NEW n \in Nat, NEW base \in Nat, NEW S \in [0 .. n -> Nat], S[0] = 0, NEW P,
         \A k \in 1 .. n : Part(P[k], base + S[k - 1], base + S[k])
  PROVE  Part(UNION {P[k] : k \in 1 .. n}, base, base + S[n])
<1>1. \A k \in 1 .. n : k - 1 \in 0 .. n /\ S[k - 1] \in Nat /\ S[k] \in Nat
  OBVIOUS
<1>2. ASSUME NEW k \in 1 .. n
      PROVE  S[k - 1] <= S[k]
  <2>1. base + S[k - 1] <= base + S[k]
    BY DEF Part
  <2> QED
    BY <1>1, <2>1
<1>3. \A j, k \in 0 .. n : j <= k => S[j] <= S[k]
  BY <1>2, Grows
<1>4. ASSUME NEW k \in 1 .. n, NEW f \in P[k]
      PROVE  /\ f = Field(f.at, f.size, f.says) /\ f.at \in Nat /\ f.size \in Nat
             /\ base <= f.at /\ f.at + f.size <= base + S[n]
             /\ base + S[k - 1] <= f.at /\ f.at + f.size <= base + S[k]
  <2>1. /\ f = Field(f.at, f.size, f.says) /\ f.at \in Nat /\ f.size \in Nat
        /\ base + S[k - 1] <= f.at /\ f.at + f.size <= base + S[k]
    BY DEF Part
  <2>2. S[k] <= S[n] /\ S[n] \in Nat
    BY <1>3
  <2> QED
    BY <1>1, <2>1, <2>2
<1>5. ASSUME NEW j \in 1 .. n, NEW k \in 1 .. n, NEW f \in P[j], NEW g \in P[k], j < k
      PROVE  Clear(f, g)
  <2>1. S[j] <= S[k - 1] /\ S[j] \in Nat /\ S[k - 1] \in Nat
    <3>1. \A a, b \in 1 .. n : a < b => a \in 0 .. n /\ b - 1 \in 0 .. n /\ a <= b - 1
      OBVIOUS
    <3>2. j \in 0 .. n /\ k - 1 \in 0 .. n /\ j <= k - 1
      BY <3>1, <1>5
    <3> QED
      BY <1>3, <3>2
  <2>2. /\ f.at + f.size <= base + S[j] /\ base + S[k - 1] <= g.at
        /\ f.at \in Nat /\ f.size \in Nat /\ g.at \in Nat
    BY <1>4
  <2>3. \A a, b, c, d, x, y \in Nat :
          a + b <= base + x /\ base + y <= c /\ x <= y => a + b <= c
    OBVIOUS
  <2>4. f.at + f.size <= g.at
    BY <2>1, <2>2, <2>3
  <2> QED
    BY <2>4 DEF Clear
<1>6. ASSUME NEW j \in 1 .. n, NEW k \in 1 .. n, NEW f \in P[j], NEW g \in P[k]
      PROVE  f = g \/ Clear(f, g)
  <2>1. CASE j = k
    BY <2>1 DEF Part
  <2>2. CASE j < k
    BY <1>5, <2>2
  <2>3. CASE k < j
    <3>1. Clear(g, f)
      BY <1>5, <2>3
    <3> QED
      BY <3>1 DEF Clear
  <2> QED
    BY <2>1, <2>2, <2>3
<1>7. base + S[n] \in Nat /\ base <= base + S[n]
  OBVIOUS
<1> DEFINE All == UNION {P[k] : k \in 1 .. n}
<1>8. \A f \in All : \E k \in 1 .. n : f \in P[k]
  OBVIOUS
<1> HIDE DEF All
<1>9. ASSUME NEW f \in All
      PROVE  /\ f = Field(f.at, f.size, f.says) /\ f.at \in Nat /\ f.size \in Nat
             /\ base <= f.at /\ f.at + f.size <= base + S[n]
  BY <1>4, <1>8
<1>10. ASSUME NEW f \in All, NEW g \in All
       PROVE  f = g \/ Clear(f, g)
  BY <1>6, <1>8
<1>11. Part(All, base, base + S[n])
  BY <1>7, <1>9, <1>10 DEF Part
<1> QED
  BY <1>11 DEF All

(* Fields one behind the other. *)
LEMMA FieldsInARow ==
  ASSUME NEW n \in Nat, NEW base \in Nat, NEW s \in [1 .. n -> Nat],
         NEW S \in [0 .. n -> Nat], S[0] = 0, \A k \in 1 .. n : S[k] = S[k - 1] + s[k],
         NEW says
  PROVE  Part({Field(base + S[k - 1], s[k], says[k]) : k \in 1 .. n}, base, base + S[n])
<1> DEFINE F(k) == Field(base + S[k - 1], s[k], says[k])
           P == [k \in 1 .. n |-> {F(k)}]
<1>1. ASSUME NEW k \in 1 .. n
      PROVE  Part(P[k], base + S[k - 1], base + S[k])
  <2>1. /\ base + S[k - 1] \in Nat /\ s[k] \in Nat
        /\ base + S[k] = (base + S[k - 1]) + s[k]
    <3>1. S[k - 1] \in Nat /\ s[k] \in Nat /\ S[k] = S[k - 1] + s[k]
      OBVIOUS
    <3> QED
      BY <3>1
  <2>2. Part({F(k)}, base + S[k - 1], (base + S[k - 1]) + s[k])
    BY <2>1, OneField
  <2> QED
    BY <2>1, <2>2
<1>2. Part(UNION {P[k] : k \in 1 .. n}, base, base + S[n])
  <2> HIDE DEF P
  <2> QED
    BY <1>1, ManyParts
<1>3. UNION {P[k] : k \in 1 .. n} = {F(k) : k \in 1 .. n}
  OBVIOUS
<1> QED
  BY <1>2, <1>3

(* Fields of one size. *)
LEMMA WordsInARow ==
  ASSUME NEW n \in Nat, NEW base \in Nat, NEW size \in Nat, NEW says
  PROVE  Part({Field(base + size * (k - 1), size, says[k]) : k \in 1 .. n},
              base, base + size * n)
<1> DEFINE s == [k \in 1 .. n |-> size]
           S == [k \in 0 .. n |-> size * k]
<1>1. \A k \in Nat : size * k \in Nat
  OBVIOUS
<1>2. s \in [1 .. n -> Nat] /\ S \in [0 .. n -> Nat] /\ S[0] = 0 /\ S[n] = size * n
  BY <1>1
<1>3. ASSUME NEW k \in 1 .. n
      PROVE  S[k - 1] = size * (k - 1) /\ s[k] = size /\ S[k] = S[k - 1] + s[k]
  <2>1. size * k = size * (k - 1) + size
    OBVIOUS
  <2> QED
    BY <2>1
<1> HIDE DEF s, S
<1>4. Part({Field(base + S[k - 1], s[k], says[k]) : k \in 1 .. n}, base, base + S[n])
  BY <1>2, <1>3, FieldsInARow, ZenonT(30)
<1>5. {Field(base + S[k - 1], s[k], says[k]) : k \in 1 .. n} =
        {Field(base + size * (k - 1), size, says[k]) : k \in 1 .. n}
  BY <1>3
<1> QED
  BY <1>2, <1>4, <1>5
-----------------------------------------------------------------------------
(* A block. *)

(* The memtables of the model, in so far as they are looked at here. *)
LEMMA MemtableIs ==
  ASSUME NEW m \in Memtables
  PROVE  /\ ColCount(m) \in Nat /\ RowCount(m) \in Nat /\ m.extra \in Nat
         /\ DOMAIN m.cols = 1 .. ColCount(m)
         /\ \A c \in 1 .. ColCount(m) : m.cols[c].type \in Types /\ m.cols[c].name \in Nat
         /\ \A p \in Strings(m) : m.rows[p[1]].cells[p[2]] \in Nat
<1>1. PICK cols \in Columns, r \in 1 .. MaxRows :
        m \in [cols : {cols}, rows : [1 .. r -> RowsOf(cols)], extra : Extras]
  BY DEF Memtables
<1>2. PICK n \in 1 .. MaxCols : cols \in [1 .. n -> [type : Types, name : NameSizes]]
  BY DEF Columns
<1>3. n \in Nat /\ r \in Nat
  BY BlockAssumption
<1>4. /\ m.cols = cols /\ m.rows \in [1 .. r -> RowsOf(cols)] /\ m.extra \in Extras
      /\ ColCount(m) = n /\ RowCount(m) = r
  BY <1>1, <1>2, <1>3 DEF ColCount, RowCount
<1>5. ASSUME NEW p \in Strings(m)
      PROVE  m.rows[p[1]].cells[p[2]] \in Nat
  <2>1. p[1] \in 1 .. r /\ p[2] \in 1 .. n
    BY <1>4 DEF Strings, Cells
  <2>2. m.rows[p[1]] \in RowsOf(cols)
    BY <1>4, <2>1
  <2>3. m.rows[p[1]].cells \in [1 .. n -> Lengths \cup {0}]
    BY <1>2, <2>2 DEF RowsOf, CellsOf
  <2>4. m.rows[p[1]].cells[p[2]] \in Lengths \cup {0}
    BY <2>1, <2>3
  <2>5. Lengths \subseteq Nat /\ 0 \in Nat
    BY BlockAssumption
  <2> HIDE DEF Strings
  <2> QED
    BY <2>4, <2>5
<1> QED
  BY <1>2, <1>3, <1>4, <1>5, BlockAssumption

(* What is added up, and the sums. *)
LEMMA SizesAre ==
  ASSUME NEW m \in Memtables
  PROVE  /\ ColSizes(m) \in [1 .. ColCount(m) -> Nat]
         /\ NameLengths(m) \in [1 .. ColCount(m) -> Nat]
         /\ \A i \in 1 .. RowCount(m) : RowStrings(m, i) \in [1 .. ColCount(m) -> Nat]
         /\ StringsOf(m) \in [1 .. RowCount(m) -> Nat]
<1>1. \A p : StringSize(m, p) \in Nat
  BY MemtableIs DEF StringSize
<1>2. \A t : ColSize(t) \in Nat
  BY DEF ColSize, InfoSize, Word
<1>3. \A i \in 1 .. RowCount(m) : RowStrings(m, i) \in [1 .. ColCount(m) -> Nat]
  BY <1>1 DEF RowStrings
<1>4. \A i \in 1 .. RowCount(m) : Sums(RowStrings(m, i))[ColCount(m)] \in Nat
  <2>1. ColCount(m) \in Nat /\ ColCount(m) \in 0 .. ColCount(m)
    BY MemtableIs
  <2> QED
    BY <1>3, <2>1, SumsAre
<1>5. \A c \in 1 .. ColCount(m) : m.cols[c].name \in Nat
  BY MemtableIs
<1> QED
  BY <1>2, <1>3, <1>4, <1>5 DEF ColSizes, NameLengths, StringsOf

(* The sizes of the parts. *)
LEMMA PartSizes ==
  ASSUME NEW m \in Memtables
  PROVE  /\ ColCount(m) \in Nat /\ RowCount(m) \in Nat /\ m.extra \in Nat
         /\ RowSize(m) \in Nat /\ RowSize(m) = Sums(ColSizes(m))[ColCount(m)]
         /\ NameOffset(m, ColCount(m) + 1) = Sums(NameLengths(m))[ColCount(m)]
         /\ NameOffset(m, ColCount(m) + 1) \in Nat
         /\ Sums(StringsOf(m))[RowCount(m)] \in Nat
         /\ FixedDataSize(m) \in Nat /\ VarMetaSize(m) \in Nat /\ VarCapacity(m) \in Nat
         /\ DiskSize(m) \in Nat /\ RowsAt(m) \in Nat /\ VarDataAt(m) \in Nat
<1>1. ColCount(m) \in Nat /\ RowCount(m) \in Nat /\ m.extra \in Nat
  BY MemtableIs
<1>2. (ColCount(m) + 1) - 1 = ColCount(m) /\ ColCount(m) \in 0 .. ColCount(m)
  BY <1>1
<1>3. RowSize(m) = Sums(ColSizes(m))[ColCount(m)] /\ RowSize(m) \in Nat
  BY <1>1, <1>2, SizesAre, SumsAre DEF RowSize, ColOffset
<1>4. /\ NameOffset(m, ColCount(m) + 1) = Sums(NameLengths(m))[ColCount(m)]
      /\ NameOffset(m, ColCount(m) + 1) \in Nat
  BY <1>1, <1>2, SizesAre, SumsAre DEF NameOffset
<1>5. Sums(StringsOf(m))[RowCount(m)] \in Nat
  <2>1. RowCount(m) \in 0 .. RowCount(m)
    BY <1>1
  <2> QED
    BY <1>1, <2>1, SizesAre, SumsAre
<1>6. FixedDataSize(m) \in Nat
  <2>1. \A a, b \in Nat : a * b \in Nat
    OBVIOUS
  <2> QED
    BY <1>1, <1>3, <2>1 DEF FixedDataSize
<1>7. VarMetaSize(m) \in Nat /\ VarCapacity(m) \in Nat
  BY <1>1, <1>4, <1>5 DEF VarMetaSize, BasicSize, TypeSize, Word, VarCapacity
<1> QED
  BY <1>1, <1>3, <1>4, <1>5, <1>6, <1>7
     DEF DiskSize, RowsAt, VarDataAt, FixedMetaSize, Word

LEMMA FixedMetaPart ==
  ASSUME NEW m \in Memtables
  PROVE  Part(FixedMeta(m), 0, FixedMetaSize)
<1> DEFINE says == [k \in 1 .. 7 |->
             IF k = 1 THEN DiskSize(m) ELSE IF k = 2 THEN FixedMetaSize
             ELSE IF k = 3 THEN VarMetaSize(m) ELSE IF k = 4 THEN FixedDataSize(m)
             ELSE IF k = 5 THEN VarCapacity(m) ELSE IF k = 6 THEN RowCount(m)
             ELSE ColCount(m)]
           F(k) == Field(0 + 8 * (k - 1), 8, says[k])
<1>1. Part({F(k) : k \in 1 .. 7}, 0, 0 + 8 * 7)
  <2> HIDE DEF says
  <2> QED
    BY WordsInARow
<1>2. {F(k) : k \in 1 .. 7} = {F(1), F(2), F(3), F(4), F(5), F(6), F(7)}
  <2>1. 1 .. 7 = {1, 2, 3, 4, 5, 6, 7}
    OBVIOUS
  <2> HIDE DEF F
  <2> QED
    BY <2>1
<1>3. /\ F(1) = Field(0, Word, DiskSize(m)) /\ F(2) = Field(Word, Word, FixedMetaSize)
      /\ F(3) = Field(2 * Word, Word, VarMetaSize(m))
      /\ F(4) = Field(3 * Word, Word, FixedDataSize(m))
      /\ F(5) = Field(4 * Word, Word, VarCapacity(m))
      /\ F(6) = Field(5 * Word, Word, RowCount(m))
      /\ F(7) = Field(6 * Word, Word, ColCount(m))
  BY DEF Word
<1> HIDE DEF F
<1>4. {F(k) : k \in 1 .. 7} = FixedMeta(m)
  BY <1>2, <1>3 DEF FixedMeta
<1> QED
  BY <1>1, <1>4 DEF FixedMetaSize, Word

LEMMA VarMetaPart ==
  ASSUME NEW m \in Memtables
  PROVE  Part(VarMeta(m), FixedMetaSize, RowsAt(m))
<1> DEFINE n == ColCount(m)
           types == {Field(TypeAt(n, c), TypeSize, m.cols[c].type) : c \in 1 .. n}
           sizes == {Field(SizeAt(n, c), Word, ColSize(m.cols[c].type)) : c \in 1 .. n}
           offsets == {Field(NameOffAt(n, c), Word, NameOffset(m, c)) : c \in 1 .. n + 1}
           names == {Field(NamesAt(n) + NameOffset(m, c), m.cols[c].name, <<"name", c>>) :
                       c \in 1 .. n}
<1>1. n \in Nat /\ n + 1 \in Nat
  BY PartSizes
<1>2. Part(types, 56, 56 + 4 * n)
  <2> DEFINE says == [c \in 1 .. n |-> m.cols[c].type]
             P == {Field(56 + 4 * (c - 1), 4, says[c]) : c \in 1 .. n}
  <2>1. Part(P, 56, 56 + 4 * n)
    <3> HIDE DEF says, n
    <3> QED
      BY <1>1, WordsInARow
  <2>2. \A c \in 1 .. n : Field(56 + 4 * (c - 1), 4, says[c]) =
                          Field(TypeAt(n, c), TypeSize, m.cols[c].type)
    BY <1>1 DEF TypeAt, TypeSize, FixedMetaSize, Word
  <2>3. types = P
    BY <2>2
  <2> QED
    BY <2>1, <2>3
<1>3. Part(sizes, 56 + 4 * n, (56 + 4 * n) + 8 * n)
  <2> DEFINE says == [c \in 1 .. n |-> ColSize(m.cols[c].type)]
             P == {Field((56 + 4 * n) + 8 * (c - 1), 8, says[c]) : c \in 1 .. n}
  <2>1. Part(P, 56 + 4 * n, (56 + 4 * n) + 8 * n)
    <3>1. 56 + 4 * n \in Nat
      BY <1>1
    <3> HIDE DEF says, n
    <3> QED
      BY <1>1, <3>1, WordsInARow
  <2>2. \A c \in 1 .. n : Field((56 + 4 * n) + 8 * (c - 1), 8, says[c]) =
                          Field(SizeAt(n, c), Word, ColSize(m.cols[c].type))
    BY <1>1 DEF SizeAt, TypeSize, FixedMetaSize, Word
  <2>3. sizes = P
    BY <2>2
  <2> QED
    BY <2>1, <2>3
<1>4. Part(offsets, (56 + 4 * n) + 8 * n, NamesAt(n))
  <2> DEFINE says == [c \in 1 .. n + 1 |-> NameOffset(m, c)]
             lo == (56 + 4 * n) + 8 * n
             P == {Field(lo + 8 * (c - 1), 8, says[c]) : c \in 1 .. n + 1}
  <2>1. Part(P, lo, lo + 8 * (n + 1))
    <3>1. lo \in Nat
      BY <1>1
    <3> HIDE DEF says, n, lo
    <3> QED
      BY <1>1, <3>1, WordsInARow
  <2>2. \A c \in 1 .. n + 1 : Field(lo + 8 * (c - 1), 8, says[c]) =
                              Field(NameOffAt(n, c), Word, NameOffset(m, c))
    BY <1>1 DEF NameOffAt, TypeSize, FixedMetaSize, Word
  <2>3. offsets = P
    BY <2>2
  <2>4. lo + 8 * (n + 1) = NamesAt(n)
    BY <1>1 DEF NamesAt, TypeSize, FixedMetaSize, Word
  <2> QED
    BY <2>1, <2>3, <2>4
<1>5. Part(names, NamesAt(n), RowsAt(m))
  <2> DEFINE s == NameLengths(m)
             S == [k \in 0 .. n |-> Sums(s)[k]]
             says == [c \in 1 .. n |-> <<"name", c>>]
             P == {Field(NamesAt(n) + S[c - 1], s[c], says[c]) : c \in 1 .. n}
  <2>1. /\ s \in [1 .. n -> Nat] /\ S \in [0 .. n -> Nat] /\ S[0] = 0
        /\ \A k \in 1 .. n : S[k] = S[k - 1] + s[k]
    <3>1. s \in [1 .. n -> Nat]
      BY SizesAre
    <3>2. /\ Sums(s)[0] = 0 /\ \A k \in 1 .. n : Sums(s)[k] = Sums(s)[k - 1] + s[k]
          /\ \A k \in 0 .. n : Sums(s)[k] \in Nat
      <4> HIDE DEF s, n
      <4> QED
        BY <1>1, <3>1, SumsAre
    <3> HIDE DEF s, n
    <3> QED
      BY <1>1, <3>1, <3>2
  <2>2. NamesAt(n) \in Nat
    BY <1>1 DEF NamesAt, TypeSize, FixedMetaSize, Word
  <2>3. Part(P, NamesAt(n), NamesAt(n) + S[n])
    <3> HIDE DEF s, S, says, n
    <3> QED
      BY <1>1, <2>1, <2>2, FieldsInARow, ZenonT(30)
  <2>4. \A c \in 1 .. n : Field(NamesAt(n) + S[c - 1], s[c], says[c]) =
                 Field(NamesAt(n) + NameOffset(m, c), m.cols[c].name, <<"name", c>>)
    <3>1. ASSUME NEW c \in 1 .. n
          PROVE  S[c - 1] = NameOffset(m, c) /\ s[c] = m.cols[c].name
      <4>1. c - 1 \in 0 .. n
        BY <1>1
      <4> QED
        BY <4>1 DEF NameOffset, NameLengths
    <3> HIDE DEF s, S
    <3> QED
      BY <3>1
  <2>5. names = P
    BY <2>4
  <2>6. NamesAt(n) + S[n] = RowsAt(m)
    <3>1. S[n] = NameOffset(m, n + 1) /\ NameOffset(m, n + 1) \in Nat
      BY <1>1, PartSizes
    <3> HIDE DEF S
    <3> QED
      BY <1>1, <3>1
         DEF NamesAt, RowsAt, VarMetaSize, BasicSize, TypeSize, FixedMetaSize, Word
  <2> QED
    BY <2>3, <2>5, <2>6
<1>6. VarMeta(m) = ((types \cup sizes) \cup offsets) \cup names
  BY DEF VarMeta
<1> HIDE DEF types, sizes, offsets, names, n
<1>7. Part(types \cup sizes, 56, (56 + 4 * n) + 8 * n)
  BY <1>2, <1>3, TwoParts
<1>8. Part((types \cup sizes) \cup offsets, 56, NamesAt(n))
  BY <1>4, <1>7, TwoParts
<1>9. Part(((types \cup sizes) \cup offsets) \cup names, 56, RowsAt(m))
  BY <1>5, <1>8, TwoParts
<1>10. FixedMetaSize = 56
  BY DEF FixedMetaSize, Word
<1> QED
  BY <1>6, <1>9, <1>10

LEMMA Products ==
  /\ \A a, b \in Nat : a * b \in Nat
  /\ \A a, b \in Nat : b > 0 => a * b = a * (b - 1) + a
  OBVIOUS

LEMMA FixedRowsPart ==
  ASSUME NEW m \in Memtables
  PROVE  Part(FixedRows(m), RowsAt(m), VarDataAt(m))
<1> DEFINE n == ColCount(m)
           r == RowCount(m)
           R == RowSize(m)
           Says2(p) == IF p \in Strings(m) THEN VarInfo(m, p) ELSE Says(m, p)
           F(i, c) == Field(CellAt(m, <<i, c>>), ColSize(m.cols[c].type), Says2(<<i, c>>))
           P == [i \in 1 .. r |-> {F(i, c) : c \in 1 .. n}]
           S == [i \in 0 .. r |-> R * i]
<1>1. n \in Nat /\ r \in Nat /\ R \in Nat /\ RowsAt(m) \in Nat
  BY PartSizes
<1>2. S \in [0 .. r -> Nat] /\ S[0] = 0 /\ S[r] = R * r
  <2> HIDE DEF R, r
  <2>1. R * 0 = 0 /\ 0 \in 0 .. r /\ r \in 0 .. r
    BY <1>1
  <2>2. \A i \in 0 .. r : R * i \in Nat
    BY <1>1, Products
  <2> QED
    BY <2>1, <2>2
<1>3. ASSUME NEW i \in 1 .. r
      PROVE  /\ S[i - 1] = R * (i - 1) /\ S[i] = R * (i - 1) + R
             /\ R * (i - 1) \in Nat
  <2>1. i \in Nat /\ i > 0 /\ i - 1 \in Nat /\ i - 1 \in 0 .. r /\ i \in 0 .. r
    BY <1>1
  <2> HIDE DEF R, r
  <2>2. R * (i - 1) \in Nat
    BY <1>1, <2>1, Products
  <2>3. R * i = R * (i - 1) + R
    BY <1>1, <2>1, Products
  <2> QED
    BY <2>1, <2>2, <2>3
<1>4. ASSUME NEW i \in 1 .. r
      PROVE  Part(P[i], RowsAt(m) + S[i - 1], RowsAt(m) + S[i])
  <2> DEFINE s == ColSizes(m)
             C == [k \in 0 .. n |-> Sums(s)[k]]
             base == RowsAt(m) + R * (i - 1)
             says == [c \in 1 .. n |-> Says2(<<i, c>>)]
             Q == {Field(base + C[c - 1], s[c], says[c]) : c \in 1 .. n}
  <2>1. /\ s \in [1 .. n -> Nat] /\ C \in [0 .. n -> Nat] /\ C[0] = 0
        /\ \A k \in 1 .. n : C[k] = C[k - 1] + s[k]
    <3>1. s \in [1 .. n -> Nat]
      BY SizesAre
    <3>2. /\ Sums(s)[0] = 0 /\ \A k \in 1 .. n : Sums(s)[k] = Sums(s)[k - 1] + s[k]
          /\ \A k \in 0 .. n : Sums(s)[k] \in Nat
      <4> HIDE DEF s, n
      <4> QED
        BY <1>1, <3>1, SumsAre
    <3> HIDE DEF s, n
    <3> QED
      BY <1>1, <3>1, <3>2
  <2>2. base \in Nat
    <3> HIDE DEF R, S, r
    <3> QED
      BY <1>1, <1>3
  <2>3. Part(Q, base, base + C[n])
    <3> HIDE DEF s, C, says, n, base
    <3> QED
      BY <1>1, <2>1, <2>2, FieldsInARow, ZenonT(30)
  <2>4. ASSUME NEW c \in 1 .. n
        PROVE  Field(base + C[c - 1], s[c], says[c]) = F(i, c)
    <3>1. C[c - 1] = ColOffset(m, c) /\ s[c] = ColSize(m.cols[c].type)
      <4>1. c - 1 \in 0 .. n
        BY <1>1
      <4> QED
        BY <4>1 DEF ColOffset, ColSizes
    <3>2. says[c] = Says2(<<i, c>>)
      OBVIOUS
    <3>3. base + ColOffset(m, c) = CellAt(m, <<i, c>>)
      BY DEF CellAt
    <3> HIDE DEF C, s, says, base, Says2
    <3> QED
      BY <3>1, <3>2, <3>3
  <2>5. P[i] = Q
    <3>1. P[i] = {F(i, c) : c \in 1 .. n}
      OBVIOUS
    <3> HIDE DEF P, F, s, says, C, base
    <3> QED
      BY <2>4, <3>1
  <2>6. base = RowsAt(m) + S[i - 1] /\ base + C[n] = RowsAt(m) + S[i]
    <3>1. C[n] = R
      BY <1>1, PartSizes
    <3> HIDE DEF C, S, R, r
    <3> QED
      BY <1>1, <1>3, <3>1
  <2> HIDE DEF P, Q, base, C, S
  <2> QED
    BY <2>3, <2>5, <2>6
<1>5. Part(UNION {P[i] : i \in 1 .. r}, RowsAt(m), RowsAt(m) + S[r])
  <2> HIDE DEF P, S, r
  <2> QED
    BY <1>1, <1>2, <1>4, ManyParts
<1>6. UNION {P[i] : i \in 1 .. r} = FixedRows(m)
  <2> DEFINE G(p) == Field(CellAt(m, p), ColSize(m.cols[p[2]].type), Says2(p))
  <2>1. \A i \in 1 .. r, c \in 1 .. n : <<i, c>> \in Cells(m) /\ F(i, c) = G(<<i, c>>)
    BY DEF Cells
  <2>2. \A p \in Cells(m) : p[1] \in 1 .. r /\ p[2] \in 1 .. n /\ p = <<p[1], p[2]>>
    BY DEF Cells
  <2>3. FixedRows(m) = {G(p) : p \in Cells(m)}
    BY DEF FixedRows
  <2>4. \A i \in 1 .. r : P[i] = {F(i, c) : c \in 1 .. n}
    OBVIOUS
  <2> HIDE DEF F, G, P, r, n
  <2>5. \A p \in Cells(m) : G(p) = F(p[1], p[2])
    BY <2>1, <2>2
  <2>6. ASSUME NEW f \in UNION {P[i] : i \in 1 .. r}
        PROVE  f \in {G(p) : p \in Cells(m)}
    <3>1. PICK i \in 1 .. r : f \in P[i]
      OBVIOUS
    <3>2. PICK c \in 1 .. n : f = F(i, c)
      BY <2>4, <3>1
    <3> QED
      BY <2>1, <3>2
  <2>7. ASSUME NEW p \in Cells(m)
        PROVE  G(p) \in UNION {P[i] : i \in 1 .. r}
    <3>1. G(p) \in P[p[1]]
      BY <2>2, <2>4, <2>5
    <3> QED
      BY <2>2, <3>1
  <2> QED
    BY <2>3, <2>6, <2>7
<1>7. RowsAt(m) + S[r] = VarDataAt(m)
  <2>1. VarDataAt(m) = RowsAt(m) + R * r
    BY DEF VarDataAt, FixedDataSize
  <2> HIDE DEF S
  <2> QED
    BY <1>2, <2>1
<1> HIDE DEF P, S, r
<1> QED
  BY <1>5, <1>6, <1>7

LEMMA VarDataPart ==
  ASSUME NEW m \in Memtables
  PROVE  Part(VarData(m), VarDataAt(m), DiskSize(m))
<1> DEFINE n == ColCount(m)
           r == RowCount(m)
           t == StringsOf(m)
           S == [i \in 0 .. r |-> Sums(t)[i]]
           s(i) == RowStrings(m, i)
           F(i, c) == Field(VarDataAt(m) + VarOffset(m, <<i, c>>), StringSize(m, <<i, c>>),
                            Says(m, <<i, c>>))
           P == [i \in 1 .. r |-> {F(i, c) : c \in 1 .. n}]
           V == VarDataAt(m)
<1>1. n \in Nat /\ r \in Nat /\ V \in Nat
  BY PartSizes
<1>2. /\ t \in [1 .. r -> Nat] /\ S \in [0 .. r -> Nat] /\ S[0] = 0
      /\ \A i \in 1 .. r : S[i] = S[i - 1] + t[i]
  <2>1. t \in [1 .. r -> Nat]
    BY SizesAre
  <2>2. /\ Sums(t)[0] = 0 /\ \A k \in 1 .. r : Sums(t)[k] = Sums(t)[k - 1] + t[k]
        /\ \A k \in 0 .. r : Sums(t)[k] \in Nat
    <3> HIDE DEF t, r
    <3> QED
      BY <1>1, <2>1, SumsAre
  <2> HIDE DEF t, r
  <2> QED
    BY <1>1, <2>1, <2>2
<1>3. ASSUME NEW i \in 1 .. r
      PROVE  Part(P[i], V + S[i - 1], V + S[i])
  <2> DEFINE C == [k \in 0 .. n |-> Sums(s(i))[k]]
             z == s(i)
             base == V + S[i - 1]
             says == [c \in 1 .. n |-> Says(m, <<i, c>>)]
             Q == {Field(base + C[c - 1], z[c], says[c]) : c \in 1 .. n}
  <2>1. /\ z \in [1 .. n -> Nat] /\ C \in [0 .. n -> Nat] /\ C[0] = 0
        /\ \A k \in 1 .. n : C[k] = C[k - 1] + z[k]
    <3>1. z \in [1 .. n -> Nat]
      BY SizesAre
    <3>2. /\ Sums(z)[0] = 0 /\ \A k \in 1 .. n : Sums(z)[k] = Sums(z)[k - 1] + z[k]
          /\ \A k \in 0 .. n : Sums(z)[k] \in Nat
      <4> HIDE DEF s, n, z
      <4> QED
        BY <1>1, <3>1, SumsAre
    <3> HIDE DEF s, n
    <3> QED
      BY <1>1, <3>1, <3>2
  <2>2. i - 1 \in 0 .. r /\ S[i - 1] \in Nat /\ S[i - 1] = Sums(t)[i - 1] /\ base \in Nat
    <3>1. i - 1 \in 0 .. r
      BY <1>1
    <3>2. S[i - 1] = Sums(t)[i - 1]
      BY <3>1
    <3> HIDE DEF S, V
    <3> QED
      BY <1>1, <1>2, <3>1, <3>2
  <2>3. Part(Q, base, base + C[n])
    <3> HIDE DEF z, C, says, n, base
    <3> QED
      BY <1>1, <2>1, <2>2, FieldsInARow, ZenonT(30)
  <2>4. ASSUME NEW c \in 1 .. n
        PROVE  Field(base + C[c - 1], z[c], says[c]) = F(i, c)
    <3>1. C[c - 1] = Sums(RowStrings(m, i))[c - 1] /\ c - 1 \in 0 .. n
      BY <1>1
    <3>2. z[c] = StringSize(m, <<i, c>>)
      BY DEF RowStrings
    <3>3. says[c] = Says(m, <<i, c>>)
      OBVIOUS
    <3>4. V + VarOffset(m, <<i, c>>) = base + C[c - 1]
      <4>1. VarOffset(m, <<i, c>>) = S[i - 1] + C[c - 1]
        BY <2>2, <3>1 DEF VarOffset
      <4>2. C[c - 1] \in Nat
        BY <2>1, <3>1
      <4> HIDE DEF S, C, V
      <4> QED
        BY <1>1, <2>2, <4>1, <4>2
    <3> HIDE DEF C, z, says, base, S
    <3> QED
      BY <3>2, <3>3, <3>4
  <2>5. P[i] = Q
    <3>1. P[i] = {F(i, c) : c \in 1 .. n}
      OBVIOUS
    <3> HIDE DEF P, F, z, says, C, base
    <3> QED
      BY <2>4, <3>1
  <2>6. base + C[n] = V + S[i]
    <3>1. C[n] = t[i] /\ n \in 0 .. n
      BY <1>1 DEF StringsOf
    <3>2. C[n] \in Nat
      BY <2>1, <3>1
    <3> HIDE DEF C, S, V, t
    <3> QED
      BY <1>1, <1>2, <2>2, <3>1, <3>2
  <2> HIDE DEF P, Q, C, S, V, base
  <2>7. Part(P[i], base, V + S[i])
    BY <2>3, <2>5, <2>6
  <2> QED
    BY <2>7 DEF base
<1>4. Part(UNION {P[i] : i \in 1 .. r}, V, V + S[r])
  <2> HIDE DEF P, S, r, V
  <2> QED
    BY <1>1, <1>2, <1>3, ManyParts
<1>5. ASSUME NEW f \in VarData(m)
      PROVE  f \in UNION {P[i] : i \in 1 .. r}
  <2>1. PICK p \in Strings(m) :
          f = Field(VarDataAt(m) + VarOffset(m, p), StringSize(m, p), Says(m, p))
    BY DEF VarData
  <2>2. p[1] \in 1 .. r /\ p[2] \in 1 .. n /\ p = <<p[1], p[2]>>
    BY DEF Strings, Cells
  <2>3. f = F(p[1], p[2])
    BY <2>1, <2>2
  <2>4. f \in P[p[1]]
    <3>1. P[p[1]] = {F(p[1], c) : c \in 1 .. n}
      BY <2>2
    <3> HIDE DEF P, F
    <3> QED
      BY <2>2, <2>3, <3>1
  <2> QED
    BY <2>2, <2>4
<1>6. V + S[r] <= DiskSize(m) /\ V + S[r] \in Nat /\ DiskSize(m) \in Nat
  <2>1. S[r] = Sums(StringsOf(m))[r]
    BY <1>1
  <2>2. VarCapacity(m) = m.extra + S[r] /\ m.extra \in Nat /\ S[r] \in Nat
    BY <2>1, PartSizes DEF VarCapacity
  <2>3. DiskSize(m) = V + VarCapacity(m)
    BY <1>1, PartSizes DEF DiskSize, VarDataAt, RowsAt
  <2> HIDE DEF S, V
  <2> QED
    BY <1>1, <2>2, <2>3
<1> HIDE DEF P, S, r, V
<1>7. Part(VarData(m), V, DiskSize(m))
  <2> DEFINE U == UNION {P[i] : i \in 1 .. r}
  <2>1. \A f \in VarData(m) : f \in U
    BY <1>5
  <2>2. /\ V \in Nat /\ V <= V + S[r]
        /\ \A f \in U : /\ f = Field(f.at, f.size, f.says) /\ f.at \in Nat /\ f.size \in Nat
                        /\ V <= f.at /\ f.at + f.size <= V + S[r]
        /\ \A f, g \in U : f = g \/ Clear(f, g)
    BY <1>4 DEF Part
  <2> HIDE DEF U
  <2>3. \A f \in VarData(m) : f.at + f.size <= DiskSize(m)
    <3> SUFFICES ASSUME NEW f \in VarData(m) PROVE f.at + f.size <= DiskSize(m)
      OBVIOUS
    <3>1. f.at + f.size <= V + S[r] /\ f.at \in Nat /\ f.size \in Nat
      BY <2>1, <2>2
    <3> QED
      BY <1>6, <3>1
  <2> QED
    BY <1>6, <2>1, <2>2, <2>3 DEF Part
<1> QED
  BY <1>7 DEF V

(* The fields of a block lie in it, one behind the other. *)
LEMMA BlockPart ==
  ASSUME NEW m \in Memtables
  PROVE  Part(Fields(m), 0, DiskSize(m))
<1>1. Part(FixedMeta(m) \cup VarMeta(m), 0, RowsAt(m))
  BY FixedMetaPart, VarMetaPart, TwoParts
<1>2. Part((FixedMeta(m) \cup VarMeta(m)) \cup FixedRows(m), 0, VarDataAt(m))
  BY <1>1, FixedRowsPart, TwoParts
<1>3. Part(((FixedMeta(m) \cup VarMeta(m)) \cup FixedRows(m)) \cup VarData(m), 0, DiskSize(m))
  BY <1>2, VarDataPart, TwoParts
<1> QED
  BY <1>3 DEF Fields
-----------------------------------------------------------------------------
(* The file. *)

(* Every block is that of a memtable, a meta leads to its start, and       *)
(* blocks follow one another.                                              *)
BlockInv ==
  /\ length \in Nat
  /\ written \in Seq(Memtables) /\ metas \in Seq(Nat)
  /\ Len(metas) = Len(written) /\ DOMAIN file = 1 .. Len(written)
  /\ file \in Seq([start : Nat, size : Nat, fields : SUBSET UNION {Fields(m) : m \in Memtables}])
  /\ \A i \in 1 .. Len(written) :
       /\ file[i].start = metas[i]
       /\ file[i].size = DiskSize(written[i]) /\ file[i].fields = Fields(written[i])
       /\ metas[i] + DiskSize(written[i]) <= length
       /\ \A j \in 1 .. Len(written) : i < j => metas[i] + DiskSize(written[i]) <= metas[j]

LEMMA BlockInit == Init => BlockInv
BY DEF Init, BlockInv

LEMMA BlockStep == BlockInv /\ [Next]_vars => BlockInv'
<1> SUFFICES ASSUME BlockInv, [Next]_vars PROVE BlockInv'
  OBVIOUS
<1>1. ASSUME NEW m \in Memtables, FlushBlock(m)
      PROVE  BlockInv'
  <2> DEFINE n == Len(written)
             D == DiskSize(m)
             b == [start |-> length, size |-> D, fields |-> Fields(m)]
             All == UNION {Fields(x) : x \in Memtables}
             Blocks == [start : Nat, size : Nat, fields : SUBSET All]
  <2>1. /\ length \in Nat /\ written \in Seq(Memtables) /\ metas \in Seq(Nat)
        /\ file \in Seq(Blocks) /\ n \in Nat /\ Len(metas) = n /\ Len(file) = n
    BY DEF BlockInv
  <2>2. D \in Nat
    BY PartSizes
  <2>3. b \in Blocks
    <3>1. Fields(m) \subseteq All
      OBVIOUS
    <3> HIDE DEF All, D
    <3> QED
      BY <2>1, <2>2, <3>1
  <2>4. /\ file' = Append(file, b) /\ length' = length + D
        /\ metas' = Append(metas, length) /\ written' = Append(written, m)
    BY <1>1 DEF FlushBlock, FileOffset
  <2> HIDE DEF D, All
  <2>5. /\ length' \in Nat /\ written' \in Seq(Memtables) /\ metas' \in Seq(Nat)
        /\ file' \in Seq(Blocks)
        /\ Len(written') = n + 1 /\ Len(metas') = n + 1 /\ DOMAIN file' = 1 .. n + 1
        /\ written'[n + 1] = m /\ metas'[n + 1] = length /\ file'[n + 1] = b
        /\ \A i \in 1 .. n : /\ written'[i] = written[i] /\ metas'[i] = metas[i]
                             /\ file'[i] = file[i]
    <3> HIDE DEF b, n, Blocks
    <3>1. length' \in Nat
      BY <2>1, <2>2, <2>4
    <3>2. /\ file' \in Seq(Blocks) /\ DOMAIN file' = 1 .. n + 1 /\ file'[n + 1] = b
          /\ \A i \in 1 .. n : file'[i] = file[i]
      BY <2>1, <2>3, <2>4
    <3>3. /\ metas' \in Seq(Nat) /\ Len(metas') = n + 1 /\ metas'[n + 1] = length
          /\ \A i \in 1 .. n : metas'[i] = metas[i]
      BY <2>1, <2>4
    <3>4. /\ written' \in Seq(Memtables) /\ Len(written') = n + 1 /\ written'[n + 1] = m
          /\ \A i \in 1 .. n : written'[i] = written[i]
      BY <2>1, <2>4 DEF n
    <3> QED
      BY <3>1, <3>2, <3>3, <3>4
  <2>6. \A i \in 1 .. n :
          /\ file[i].start = metas[i]
          /\ file[i].size = DiskSize(written[i]) /\ file[i].fields = Fields(written[i])
          /\ metas[i] + DiskSize(written[i]) <= length
          /\ \A j \in 1 .. n : i < j => metas[i] + DiskSize(written[i]) <= metas[j]
    BY DEF BlockInv
  <2>7. \A i \in 1 .. n : metas[i] \in Nat /\ DiskSize(written[i]) \in Nat
    <3>1. \A i \in 1 .. n : metas[i] \in Nat /\ written[i] \in Memtables
      BY <2>1
    <3>2. \A x \in Memtables : DiskSize(x) \in Nat
      BY PartSizes
    <3> QED
      BY <3>1, <3>2
  <2>8. \A i \in 1 .. n + 1 : i \in 1 .. n \/ i = n + 1
    BY <2>1
  <2>9. ASSUME NEW i \in 1 .. n + 1
        PROVE  /\ file'[i].start = metas'[i]
               /\ file'[i].size = DiskSize(written'[i]) /\ file'[i].fields = Fields(written'[i])
               /\ metas'[i] + DiskSize(written'[i]) <= length'
    <3>1. CASE i \in 1 .. n
      <4>1. metas[i] + DiskSize(written[i]) <= length + D
        BY <2>1, <2>2, <2>6, <2>7, <3>1
      <4> QED
        BY <2>4, <2>5, <2>6, <3>1, <4>1
    <3>2. CASE i = n + 1
      BY <2>1, <2>2, <2>4, <2>5, <3>2 DEF D
    <3> QED
      BY <2>8, <3>1, <3>2
  <2>10. ASSUME NEW i \in 1 .. n + 1, NEW j \in 1 .. n + 1, i < j
         PROVE  metas'[i] + DiskSize(written'[i]) <= metas'[j]
    <3>1. i \in 1 .. n
      BY <2>1, <2>10
    <3>2. CASE j \in 1 .. n
      BY <2>5, <2>6, <2>10, <3>1, <3>2
    <3>3. CASE j = n + 1
      BY <2>5, <2>6, <3>1, <3>3
    <3> QED
      BY <2>8, <3>2, <3>3
  <2> HIDE DEF b, n
  <2> QED
    BY <2>5, <2>9, <2>10 DEF BlockInv, All
<1>2. CASE UNCHANGED vars
  BY <1>2 DEF vars, BlockInv
<1> QED
  BY <1>1, <1>2 DEF Next

THEOREM BlocksInvariant == Spec => []BlockInv
<1>1. Init => BlockInv
  BY BlockInit
<1>2. BlockInv /\ [Next]_vars => BlockInv'
  BY BlockStep
<1> QED
  BY <1>1, <1>2, PTL DEF Spec

LEMMA InvLayout == BlockInv => LayoutSound
<1> SUFFICES ASSUME BlockInv, NEW i \in DOMAIN file, NEW f \in file[i].fields
             PROVE  /\ f.at + f.size <= file[i].size
                    /\ \A g \in file[i].fields \ {f} :
                         f.at + f.size <= g.at \/ g.at + g.size <= f.at
  BY DEF LayoutSound
<1> DEFINE m == written[i]
<1>1. /\ m \in Memtables
      /\ file[i].size = DiskSize(m) /\ file[i].fields = Fields(m)
  BY DEF BlockInv
<1>2. Part(Fields(m), 0, DiskSize(m))
  BY <1>1, BlockPart
<1> HIDE DEF m
<1> QED
  BY <1>1, <1>2 DEF Part, Clear

(* The parts of every block lie within it and do not run into each other,  *)
(* whatever the columns, the lengths of names and strings, and the number  *)
(* of rows (flushBlock, serializeMemtable, BlockVarMeta).                  *)
THEOREM LayoutAlwaysSound == Spec => []LayoutSound
<1>1. BlockInv => LayoutSound
  BY InvLayout
<1> QED
  BY <1>1, BlocksInvariant, PTL

(* A read at the place of a field finds the field. *)
LEMMA ReadsBack ==
  ASSUME BlockInv, NEW i \in DOMAIN metas, NEW at, NEW size, NEW says,
         Field(at, size, says) \in Fields(written[i]), size > 0, size \in Nat
  PROVE  Read(metas[i] + at, size) = says
<1> DEFINE n == Len(written)
           B(j) == Fields(written[j])
           D(j) == DiskSize(written[j])
           Moved(j) == {[g EXCEPT !.at = @ + file[j].start] : g \in file[j].fields}
           hits == {f \in UNION {Moved(j) : j \in DOMAIN file} :
                      f.at = metas[i] + at /\ f.size = size}
           f0 == Field(at, size, says)
<1>1. i \in 1 .. n /\ DOMAIN file = 1 .. n /\ n \in Nat
  BY DEF BlockInv
<1>2. ASSUME NEW j \in 1 .. n
      PROVE  /\ Part(B(j), 0, D(j)) /\ D(j) \in Nat
             /\ metas[j] \in Nat /\ file[j].start = metas[j] /\ file[j].fields = B(j)
             /\ \A k \in 1 .. n : j < k => metas[j] + D(j) <= metas[k]
  <2>1. written[j] \in Memtables /\ metas[j] \in Nat
    BY DEF BlockInv
  <2>2. Part(B(j), 0, D(j)) /\ D(j) \in Nat
    <3> DEFINE m == written[j]
    <3>1. m \in Memtables
      BY <2>1
    <3> HIDE DEF m
    <3>2. Part(Fields(m), 0, DiskSize(m)) /\ DiskSize(m) \in Nat
      BY <3>1, BlockPart, PartSizes
    <3> QED
      BY <3>2 DEF m
  <2> QED
    BY <2>1, <2>2 DEF BlockInv
<1> HIDE DEF B, D
<1>3. f0.at = at /\ f0.size = size /\ f0.says = says /\ f0 \in B(i)
  BY DEF Field, B
<1>4. at \in Nat /\ at + size <= D(i)
  BY <1>1, <1>2, <1>3 DEF Part
<1>5. ASSUME NEW j \in 1 .. n, NEW g \in B(j)
      PROVE  /\ [g EXCEPT !.at = @ + metas[j]] = Field(g.at + metas[j], g.size, g.says)
             /\ g.at \in Nat /\ g.size \in Nat /\ g.at + g.size <= D(j)
  <2>1. /\ g = Field(g.at, g.size, g.says)
        /\ g.at \in Nat /\ g.size \in Nat /\ g.at + g.size <= D(j)
    BY <1>2 DEF Part
  <2>2. \A a, b, c, d : [Field(a, b, c) EXCEPT !.at = @ + d] = Field(a + d, b, c)
    BY DEF Field
  <2>3. [Field(g.at, g.size, g.says) EXCEPT !.at = @ + metas[j]] =
          Field(g.at + metas[j], g.size, g.says)
    BY <2>2
  <2> QED
    BY <2>1, <2>3
<1>6. ASSUME NEW h \in hits
      PROVE  h.says = says
  <2>1. PICK j \in 1 .. n : h \in Moved(j)
    BY <1>1
  <2>2. PICK g \in B(j) : h = Field(g.at + metas[j], g.size, g.says)
    BY <1>2, <1>5, <2>1
  <2>3. h.at = g.at + metas[j] /\ h.size = g.size /\ h.says = g.says
    BY <2>2 DEF Field
  <2>4. g.at + metas[j] = metas[i] + at /\ g.size = size
    BY <2>3
  <2>5. /\ g.at \in Nat /\ g.at + g.size <= D(j)
        /\ metas[i] \in Nat /\ metas[j] \in Nat /\ D(i) \in Nat /\ D(j) \in Nat
        /\ i < j => metas[i] + D(i) <= metas[j]
        /\ j < i => metas[j] + D(j) <= metas[i]
    BY <1>1, <1>2, <1>5
  <2> HIDE DEF f0, hits, Moved
  <2>6. j = i
    <3>1. ~(i < j)
      BY <1>4, <2>4, <2>5
    <3>2. ~(j < i)
      BY <1>4, <2>4, <2>5
    <3> QED
      BY <1>1, <3>1, <3>2
  <2>7. g.at = at
    BY <1>4, <2>4, <2>5, <2>6
  <2>8. g = f0 \/ Clear(g, f0)
    BY <1>1, <1>2, <1>3, <2>6 DEF Part
  <2>9. ~Clear(g, f0)
    BY <1>3, <1>4, <2>4, <2>7 DEF Clear
  <2> QED
    BY <1>3, <2>3, <2>8, <2>9
<1>7. hits # {}
  <2> DEFINE h == Field(at + metas[i], size, says)
  <2>1. [f0 EXCEPT !.at = @ + metas[i]] = h
    BY DEF Field
  <2>2. h \in Moved(i)
    <3>1. file[i].start = metas[i] /\ file[i].fields = B(i)
      BY <1>1, <1>2
    <3> HIDE DEF f0, h
    <3> QED
      BY <1>3, <2>1, <3>1
  <2>3. h.at = metas[i] + at /\ h.size = size
    <3>1. metas[i] \in Nat
      BY <1>1, <1>2
    <3> QED
      BY <1>4, <3>1 DEF Field
  <2> HIDE DEF h, Moved
  <2>4. h \in hits
    BY <1>1, <2>2, <2>3
  <2> QED
    BY <2>4
<1>8. Read(metas[i] + at, size) = IF hits = {} THEN Garbage ELSE (CHOOSE f \in hits : TRUE).says
  BY DEF Read
<1> HIDE DEF hits
<1> QED
  BY <1>6, <1>7, <1>8

(* What a read finds in the block of a memtable. *)
LEMMA InvReadsBack == BlockInv => NumbersReadBack
<1> SUFFICES ASSUME BlockInv, NEW i \in DOMAIN metas
             PROVE  LET m == written[i] IN
                    /\ MetaAt(metas[i], 0) = DiskSize(m)
                    /\ MetaAt(metas[i], 5) = RowCount(m) /\ MetaAt(metas[i], 6) = ColCount(m)
                    /\ \A p \in Cells(m) \ Strings(m) : ReadCell(metas[i], p) = Says(m, p)
  BY DEF NumbersReadBack
<1> DEFINE m == written[i]
           o == metas[i]
           n == ColCount(m)
<1>1. m \in Memtables /\ o \in Nat
  BY DEF BlockInv
<1>2. ASSUME NEW at, NEW size, NEW says, Field(at, size, says) \in Fields(m),
             size \in Nat, size > 0
      PROVE  Read(o + at, size) = says
  BY <1>2, ReadsBack
<1> HIDE DEF m, o
<1>3. n \in Nat
  BY <1>1, MemtableIs
<1> HIDE DEF n
<1>4. /\ MetaAt(o, 0) = DiskSize(m) /\ MetaAt(o, 2) = VarMetaSize(m)
      /\ MetaAt(o, 5) = RowCount(m) /\ MetaAt(o, 6) = n
  <2>1. FixedMeta(m) \subseteq Fields(m) /\ 8 \in Nat /\ 8 > 0
    BY DEF Fields
  <2>2. /\ Field(0, 8, DiskSize(m)) \in Fields(m)
        /\ Field(2 * 8, 8, VarMetaSize(m)) \in Fields(m)
        /\ Field(5 * 8, 8, RowCount(m)) \in Fields(m)
        /\ Field(6 * 8, 8, n) \in Fields(m)
    BY <2>1 DEF FixedMeta, Word, n
  <2>3. /\ Read(o + 0, 8) = DiskSize(m) /\ Read(o + 2 * 8, 8) = VarMetaSize(m)
        /\ Read(o + 5 * 8, 8) = RowCount(m) /\ Read(o + 6 * 8, 8) = n
    BY <1>2, <2>1, <2>2
  <2> QED
    BY <2>3 DEF MetaAt, Word
<1>5. ASSUME NEW c \in 1 .. n
      PROVE  /\ ReadSize(o, n, c) = ColSize(m.cols[c].type)
             /\ Read(o + TypeAt(n, c), TypeSize) = m.cols[c].type
  <2>1. /\ Field(TypeAt(n, c), TypeSize, m.cols[c].type) \in VarMeta(m)
        /\ Field(SizeAt(n, c), Word, ColSize(m.cols[c].type)) \in VarMeta(m)
    BY DEF VarMeta, n
  <2>2. VarMeta(m) \subseteq Fields(m)
    BY DEF Fields
  <2>3. Word \in Nat /\ Word > 0 /\ TypeSize \in Nat /\ TypeSize > 0
    BY DEF Word, TypeSize
  <2> QED
    BY <1>2, <2>1, <2>2, <2>3 DEF ReadSize
<1>6. ASSUME NEW c \in 1 .. n + 1
      PROVE  ReadOffset(o, n, c) = ColOffset(m, c)
  <2>1. [d \in 1 .. n |-> ReadSize(o, n, d)] = ColSizes(m)
    BY <1>5 DEF ColSizes, n
  <2> QED
    BY <2>1 DEF ReadOffset, ColOffset
<1>7. ASSUME NEW p \in Cells(m) \ Strings(m)
      PROVE  ReadCell(o, p) = Says(m, p)
  <2> DEFINE c == p[2]
             at == o + FixedMetaSize + VarMetaSize(m)
                     + ReadOffset(o, n, n + 1) * (p[1] - 1) + ReadOffset(o, n, c)
             cell == Read(at, ReadSize(o, n, c))
  <2>1. p[1] \in 1 .. RowCount(m) /\ c \in 1 .. n /\ m.cols[c].type # "STRING"
    BY DEF Cells, Strings, n
  <2>2. /\ ReadOffset(o, n, n + 1) = RowSize(m) /\ ReadOffset(o, n, c) = ColOffset(m, c)
    <3>1. n + 1 \in 1 .. n + 1 /\ c \in 1 .. n + 1
      BY <1>3, <2>1
    <3> QED
      BY <1>6, <3>1 DEF RowSize, n
  <2>3. Field(CellAt(m, p), ColSize(m.cols[c].type), Says(m, p)) \in Fields(m)
    <3>1. Field(CellAt(m, p), ColSize(m.cols[p[2]].type),
                IF p \in Strings(m) THEN VarInfo(m, p) ELSE Says(m, p)) \in FixedRows(m)
      BY DEF FixedRows
    <3> QED
      BY <3>1 DEF Fields
  <2>4. ColSize(m.cols[c].type) \in Nat /\ ColSize(m.cols[c].type) > 0
    BY DEF ColSize, Word, InfoSize
  <2>5. Read(o + CellAt(m, p), ColSize(m.cols[c].type)) = Says(m, p)
    BY <1>2, <2>3, <2>4
  <2>6. at = o + CellAt(m, p)
    <3>1. /\ o \in Nat /\ FixedMetaSize \in Nat /\ VarMetaSize(m) \in Nat
          /\ RowSize(m) * (p[1] - 1) \in Nat /\ ColOffset(m, c) \in Nat
      <4>1. p[1] - 1 \in Nat /\ RowSize(m) \in Nat
        BY <1>1, <2>1, PartSizes
      <4>2. c - 1 \in 0 .. n
        BY <1>3, <2>1
      <4>3. ColSizes(m) \in [1 .. n -> Nat]
        BY <1>1, SizesAre DEF n
      <4>4. ColOffset(m, c) \in Nat
        BY <1>3, <4>2, <4>3, SumsAre DEF ColOffset
      <4>5. FixedMetaSize \in Nat
        BY DEF FixedMetaSize, Word
      <4> QED
        BY <1>1, <4>1, <4>4, <4>5, Products, PartSizes
    <3>2. CellAt(m, p) = FixedMetaSize + VarMetaSize(m) + RowSize(m) * (p[1] - 1) + ColOffset(m, c)
      BY DEF CellAt, RowsAt
    <3>3. \A a, b, d, e, f \in Nat : a + b + d + e + f = a + (b + d + e + f)
      OBVIOUS
    <3> QED
      BY <2>2, <3>1, <3>2, <3>3
  <2>7. cell = Says(m, p)
    <3> HIDE DEF at
    <3> QED
      BY <1>5, <2>1, <2>5, <2>6
  <2>8. Read(o + TypeAt(n, c), TypeSize) # "STRING"
    BY <1>5, <2>1
  <2>9. ReadCell(o, p) = IF Read(o + TypeAt(n, c), TypeSize) = "STRING" /\ cell # Garbage
                         THEN Read(o + FixedMetaSize + VarMetaSize(m) + MetaAt(o, 3)
                                     + cell.offset, cell.size)
                         ELSE cell
    BY <1>4 DEF ReadCell
  <2> HIDE DEF cell, at
  <2> QED
    BY <2>7, <2>8, <2>9
<1> QED
  BY <1>4, <1>7 DEF m, o, n

(* What a meta points to is its block, and its sizes, column types and     *)
(* numbers are read back from it, whatever else was written to the file    *)
(* (flushBlock, loadBlock).                                                *)
THEOREM NumbersAlwaysReadBack == Spec => []NumbersReadBack
<1>1. BlockInv => NumbersReadBack
  BY InvReadsBack
<1> QED
  BY <1>1, BlocksInvariant, PTL
=============================================================================
