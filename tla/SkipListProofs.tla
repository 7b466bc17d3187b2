---------------------------- MODULE SkipListProofs ----------------------------
(***************************************************************************)
(* The skip list: its levels stay sorted, and its searches are those of an *)
(* ordered list of entries, for all keys, levels and numbers of nodes.     *)
(*                                                                         *)
(* The argument: an insertion knows for each level it still has to link    *)
(* the last node before its place (Update, from which LastBefore returns   *)
(* that node wherever it starts), nobody else writes pointers, and so each *)
(* Publish splices one node into one sorted level.  A search stands at a   *)
(* node of the level it reads and before what it looks for, whatever is    *)
(* spliced in; when its scan reads a pointer, what it has passed is for    *)
(* each key what was there at one moment, and for the keys it passes now   *)
(* that moment is now.                                                     *)
(***************************************************************************)
EXTENDS SkipList, SequenceTheorems, WellFoundedInduction, TLAPS

(* A set of natural numbers has a least one. *)
LEMMA Least ==
  ASSUME NEW T, T \subseteq Nat, T # {}
  PROVE  \E x \in T : \A y \in T : x <= y
<1> DEFINE R == {p \in Nat \X Nat : p[1] < p[2]}
<1>1. IsWellFoundedOn(R, Nat)
  BY NatLessThanWellFounded DEF OpToRel
<1>2. \A x, y \in Nat : y < x => <<y, x>> \in R
  OBVIOUS
<1> HIDE DEF R
<1>3. PICK x \in T : \A y \in T : ~(<<y, x>> \in R)
  BY <1>1, WFMin
<1>4. \A y \in T : ~(y < x)
  BY <1>2, <1>3
<1> QED
  BY <1>4

(* u is the last node of level i before key k. *)
LastAt(i, u, k) ==
  /\ u \in Linked(i) \cup {head}
  /\ u = head \/ key[u] < k
  /\ next[u][i] = None \/ key[next[u][i]] >= k

(* An insertion is that of the newest node and knows its places.           *)
InsInv == ins # None =>
  /\ ins.node = Len(key) /\ ins.node # head
  /\ ins.at \in 1 .. Len(next[ins.node]) + 1
  /\ Len(ins.update) >= Len(next[ins.node])
  /\ \A i \in ins.at .. Len(next[ins.node]) : LastAt(i, ins.update[i], key[ins.node])
  /\ ins.do = "publish" =>
       /\ ins.at <= Len(next[ins.node])
       /\ next[ins.node][ins.at] = next[ins.update[ins.at]][ins.at]

(* A search under way through the levels has read a pointer that led on,   *)
(* and moves along it only if it leads to a smaller key.                   *)
Stands(s) ==
  /\ s.at <= MaxLevel
  /\ s.curr # None
  /\ s.curr # head =>
       /\ s.at > 0 => s.curr \in Linked(s.at)
       /\ s.curr \in Linked(1) /\ key[s.curr] < s.query.lo
  /\ s.do # "test" => s.at > 0 /\ next[s.curr][s.at] # None
  /\ s.do = "move" => key[next[s.curr][s.at]] < s.query.lo

(* What a scan has listed: of each key wanted what was there at a moment   *)
(* of the search, as far as the scan has come.                             *)
Passed(s, i) == s.curr = None \/ Precedes(i, s.curr)

Moments(s, upTo) ==
  /\ upTo \in [Wanted(s.query) -> s.known .. Seen]
  /\ \A k, l \in Wanted(s.query) : k < l => upTo[k] <= upTo[l]
  /\ {s.res[a] : a \in DOMAIN s.res} =
       {i \in 1 .. Seen : key[i] \in Wanted(s.query) /\ i <= upTo[key[i]] /\ Passed(s, i)}
  /\ s.curr # None /\ key[s.curr] \in Wanted(s.query) => s.curr <= upTo[key[s.curr]]

Scans(s) ==
  /\ s.curr # None => s.curr \in Linked(1)
  /\ \A a, b \in DOMAIN s.res : a < b => Precedes(s.res[a], s.res[b])
  /\ \E upTo : Moments(s, upTo)

SearchInv == search # None =>
  /\ search.known <= Seen
  /\ IF search.do = "scan" THEN Scans(search)
     ELSE search.res = <<>> /\ Stands(search)

Towers == {t \in Seq(Nat \cup {None}) : Len(t) \in Levels}

Types ==
  /\ key \in Seq(Keys)
  /\ next \in [0 .. Len(key) -> Towers] /\ Len(next[head]) = MaxLevel
  /\ level \in 0 .. MaxLevel /\ nodeNum = Len(key)
  /\ ins \in Insertions \cup {None}
  /\ search \in Searches \cup {None}
  /\ answer \in Seq(Nat)

-----------------------------------------------------------------------------
(* Keys, nodes and the order of a level. *)

(* A node has a key. *)
LEMMA KeyType ==
  ASSUME Types, NEW n \in Nodes \ {head}
  PROVE  n \in 1 .. Len(key) /\ key[n] \in Nat /\ key[n] \in Keys
<1>1. key \in Seq(Keys) /\ Len(key) \in Nat
  BY DEF Types
<1>2. n \in 1 .. Len(key)
  BY <1>1 DEF Types, Nodes, head
<1>3. key[n] \in Keys
  BY <1>1, <1>2
<1> QED
  BY <1>2, <1>3, ListAssumption

(* Nodes and levels are numbers, and None is no node. *)
LEMMA NodeType ==
  ASSUME Types
  PROVE  /\ Len(key) \in Nat /\ Nodes = 0 .. Len(key)
         /\ head \in Nodes /\ None \notin Nodes
BY ListAssumption DEF Types, Nodes, head

(* The order of a level is a strict order of all nodes. *)
LEMMA Order ==
  ASSUME Types
  PROVE  /\ \A m \in Nodes : ~ Precedes(m, m) /\ ~ Precedes(m, head)
         /\ \A m \in Nodes \ {head} : Precedes(head, m)
         /\ \A m, n, o \in Nodes : Precedes(m, n) /\ Precedes(n, o) => Precedes(m, o)
         /\ \A m, n \in Nodes : m = n \/ Precedes(m, n) \/ Precedes(n, m)
<1>1. \A m \in Nodes \ {head} : m \in Nat /\ key[m] \in Nat
  BY KeyType, NodeType
<1> QED
  BY <1>1 DEF Precedes

(* The pointers of a node are those of the levels it has. *)
LEMMA TowerType ==
  ASSUME Types, NEW n \in Nodes
  PROVE  /\ Len(next[n]) \in Levels /\ DOMAIN next[n] = 1 .. Len(next[n])
         /\ \A i \in DOMAIN next[n] : i \in Levels /\ next[n][i] \in Nat \cup {None}
         /\ next[n] \in Seq(Nat \cup {None})
<1>1. next[n] \in Towers
  BY DEF Types, Nodes
<1> QED
  BY <1>1, ListAssumption DEF Towers, Levels

(* The head has every level, a node of a level the levels below. *)
LEMMA LinkedType ==
  ASSUME Types, NEW i \in Levels
  PROVE  /\ Linked(i) \subseteq Nodes \ {head}
         /\ \A n \in Linked(i) \cup {head} : n \in Nodes /\ i \in DOMAIN next[n]
<1>1. i \in DOMAIN next[head]
  BY TowerType, NodeType DEF Types, Levels
<1> QED
  BY <1>1, NodeType DEF Linked

LEMMA LinkedBelow ==
  ASSUME Types, NEW i \in Levels, NEW n \in Linked(i), NEW j \in 1 .. i
  PROVE  n \in Linked(j)
<1>1. n \in Nodes \ {head} /\ i \in DOMAIN next[n]
  BY DEF Linked
<1>2. j \in DOMAIN next[n]
  BY <1>1, TowerType, ListAssumption DEF Levels
<1>3. ins # None => ins.at \in Nat
  BY DEF Types, Insertions
<1> QED
  BY <1>1, <1>2, <1>3, ListAssumption DEF Linked, Levels

(* The lowest level holds the nodes of the insertions that are seen. *)
LEMMA LinkedLowest ==
  ASSUME Types, InsInv
  PROVE  /\ 1 \in Levels
         /\ Seen \in Nat /\ Seen <= Len(key) /\ Linked(1) = 1 .. Seen
<1>1. 1 \in Levels
  BY ListAssumption DEF Levels
<1>2. \A n \in Nodes : 1 \in DOMAIN next[n]
  BY TowerType, ListAssumption DEF Levels
<1>3. ins # None => /\ ins.at \in Nat /\ ins.at >= 1 /\ ins.node = Len(key)
                    /\ Len(key) # 0
  <2> SUFFICES ASSUME ins # None PROVE ins.at \in Nat /\ ins.at >= 1 /\ ins.node = Len(key) /\ Len(key) # 0
    OBVIOUS
  <2>1. ins.node \in Nodes
    BY NodeType DEF InsInv
  <2> QED
    BY <2>1, TowerType, ListAssumption DEF InsInv, head, Levels
<1>4. Nodes \ {head} = 1 .. Len(key)
  BY NodeType DEF head
<1> QED
  BY <1>1, <1>2, <1>3, <1>4, NodeType DEF Linked, Seen

-----------------------------------------------------------------------------
(* A level, as a set of nodes and their pointers. *)

Pointers(i) == [m \in Linked(i) \cup {head} |-> next[m][i]]

(* The pointers p lead through the nodes L in order. *)
SortedBy(L, p) ==
  \A m \in L \cup {head} :
    IF p[m] = None THEN \A n \in L : ~ Precedes(m, n)
    ELSE /\ p[m] \in L /\ Precedes(m, p[m])
         /\ \A n \in L : Precedes(m, n) => n = p[m] \/ Precedes(p[m], n)

LEMMA SortedLevels ==
  ASSUME Types
  PROVE  (\A i \in Levels : SortedBy(Linked(i), Pointers(i))) <=>
         \A i \in Levels : \A m \in Linked(i) \cup {head} :
           IF next[m][i] = None THEN IsLast(i, m) ELSE IsNext(i, m, next[m][i])
<1>1. ASSUME NEW i \in Levels
      PROVE  SortedBy(Linked(i), Pointers(i)) <=>
             \A m \in Linked(i) \cup {head} :
               IF next[m][i] = None THEN IsLast(i, m) ELSE IsNext(i, m, next[m][i])
  <2>1. \A m \in Linked(i) \cup {head} : Pointers(i)[m] = next[m][i]
    BY DEF Pointers
  <2>2. ASSUME NEW m \in Linked(i) \cup {head}
        PROVE  (IF next[m][i] = None THEN \A n \in Linked(i) : ~ Precedes(m, n)
                ELSE /\ next[m][i] \in Linked(i) /\ Precedes(m, next[m][i])
                     /\ \A n \in Linked(i) : Precedes(m, n) => n = next[m][i] \/ Precedes(next[m][i], n))
               <=> IF next[m][i] = None THEN IsLast(i, m) ELSE IsNext(i, m, next[m][i])
    BY DEF IsLast, IsNext
  <2> QED
    BY <2>1, <2>2 DEF SortedBy
<1> QED
  BY <1>1

(* A node n put between u and the node behind u leaves the level sorted.   *)
LEMMA Spliced ==
  ASSUME Types, NEW L, L \subseteq Nodes \ {head}, NEW p, SortedBy(L, p),
         NEW u \in L \cup {head}, NEW n \in (Nodes \ {head}) \ L,
         Precedes(u, n), p[u] = None \/ Precedes(n, p[u]),
         NEW q, q[u] = n, q[n] = p[u],
         \A m \in L \cup {head} : m # u => q[m] = p[m]
  PROVE  SortedBy(L \cup {n}, q)
<1> SUFFICES ASSUME NEW m \in L \cup {head, n}
             PROVE  IF q[m] = None THEN \A o \in L \cup {n} : ~ Precedes(m, o)
                    ELSE /\ q[m] \in L \cup {n} /\ Precedes(m, q[m])
                         /\ \A o \in L \cup {n} : Precedes(m, o) => o = q[m] \/ Precedes(q[m], o)
  BY DEF SortedBy
<1> DEFINE R(a, b) == Precedes(a, b)
<1>0. /\ head \in Nodes /\ n \in Nodes /\ u \in Nodes /\ None \notin Nodes
      /\ \A o \in L \cup {head} : o \in Nodes
  BY NodeType
<1>1. /\ \A a \in Nodes : ~ R(a, a) /\ ~ R(a, head)
      /\ \A a, b, c \in Nodes : R(a, b) /\ R(b, c) => R(a, c)
      /\ \A a, b \in Nodes : a = b \/ R(a, b) \/ R(b, a)
  BY Order
<1>2. \A a \in L \cup {head} :
        IF p[a] = None THEN \A o \in L : ~ R(a, o)
        ELSE /\ p[a] \in L /\ R(a, p[a])
             /\ \A o \in L : R(a, o) => o = p[a] \/ R(p[a], o)
  BY DEF SortedBy
<1>3. R(u, n) /\ (p[u] = None \/ R(n, p[u])) /\ u # n
  BY <1>0, <1>1
<1> HIDE DEF R
<1>4. CASE m = n
  <2>1. q[m] = p[u] /\ m # u
    BY <1>3, <1>4
  <2>2. \A o \in L : R(n, o) => R(u, o)
    BY <1>0, <1>1, <1>3
  <2>3. CASE p[u] = None
    <3>1. \A o \in L \cup {n} : ~ R(m, o)
      BY <1>0, <1>1, <1>2, <1>4, <2>2, <2>3
    <3> QED
      BY <2>1, <2>3, <3>1 DEF R
  <2>4. CASE p[u] # None
    <3>1. p[u] \in L /\ R(m, p[u])
      BY <1>2, <1>3, <1>4, <2>4
    <3>2. \A o \in L \cup {n} : R(m, o) => o = p[u] \/ R(p[u], o)
      BY <1>0, <1>1, <1>2, <1>4, <2>2, <2>4
    <3> QED
      BY <2>1, <2>4, <3>1, <3>2 DEF R
  <2> QED
    BY <2>3, <2>4
<1>5. CASE m = u
  <2>1. q[m] = n /\ n # None
    BY <1>0, <1>5
  <2>2. \A o \in L : R(m, o) => R(n, o)
    BY <1>0, <1>1, <1>2, <1>3, <1>5
  <2> QED
    BY <1>3, <1>5, <2>1, <2>2 DEF R
<1>6. CASE m # n /\ m # u
  <2>0. m \in L \cup {head} /\ q[m] = p[m]
    BY <1>6
  <2>1. CASE p[m] = None
    <3>1. ~ R(m, n)
      BY <1>0, <1>1, <1>2, <1>3, <1>6, <2>0, <2>1
    <3> QED
      BY <1>2, <2>0, <2>1, <3>1 DEF R
  <2>2. CASE p[m] # None
    <3>1. p[m] \in L /\ R(m, p[m]) /\ \A o \in L : R(m, o) => o = p[m] \/ R(p[m], o)
      BY <1>2, <2>0, <2>2
    <3>2. R(m, n) => R(p[m], n)
      <4> SUFFICES ASSUME R(m, n) PROVE R(p[m], n)
        OBVIOUS
      <4>1. CASE R(m, u)
        BY <1>0, <1>1, <1>3, <2>0, <3>1, <4>1
      <4>2. CASE R(u, m)
        <5>1. m \in L
          BY <1>0, <1>1, <2>0, <4>2
        <5>2. p[u] # None /\ (m = p[u] \/ R(p[u], m))
          BY <1>2, <4>2, <5>1
        <5>3. R(n, m)
          BY <1>0, <1>1, <1>2, <1>3, <5>1, <5>2
        <5> QED
          BY <1>0, <1>1, <5>1, <5>3
      <4> QED
        BY <1>0, <1>1, <1>6, <2>0, <4>1, <4>2
    <3> QED
      BY <2>0, <2>2, <3>1, <3>2 DEF R
  <2> QED
    BY <2>1, <2>2
<1> QED
  BY <1>4, <1>5, <1>6

(* A set of nodes has a last one. *)
LEMMA LastNode ==
  ASSUME Types, NEW S, S \subseteq Nodes \ {head}, S # {}
  PROVE  \E z \in S : \A n \in S : ~ Precedes(z, n)
<1> DEFINE Has(Q) == \E z \in Q : \A n \in Q : ~ Precedes(z, n)
           T == {m \in Nat : \E Q \in SUBSET (1 .. m) : Q \subseteq Nodes /\ Q # {} /\ ~ Has(Q)}
<1>0. \A Q : Q = {} \/ (\E m \in Nat : Q \subseteq 1 .. m /\ Q \subseteq Nodes /\ m \in T) \/ Has(Q) \/ ~ (Q \subseteq Nodes \ {head})
  <2>1. Nodes \ {head} = 1 .. Len(key) /\ Len(key) \in Nat
    BY NodeType DEF head
  <2> QED
    BY <2>1
<1> SUFFICES ASSUME T # {} PROVE FALSE
  BY <1>0
<1>1. T \subseteq Nat
  OBVIOUS
<1>2. PICK m \in T : \A k \in T : m <= k
  <2> HIDE DEF T
  <2> QED
    BY <1>1, Least
<1>3. PICK Q \in SUBSET (1 .. m) : Q \subseteq Nodes /\ Q # {} /\ ~ Has(Q)
  BY <1>2
<1>4. m \in Nat /\ m # 0 /\ m - 1 \in Nat /\ m - 1 \notin T
  <2> HIDE DEF T
  <2>1. m \in Nat
    BY <1>1
  <2>2. m # 0
    <3>1. Q \subseteq 1 .. m /\ Q # {}
      BY <1>3
    <3>2. PICK x \in Q : TRUE
      BY <3>1
    <3>3. x \in 1 .. m
      BY <3>1
    <3> QED
      BY <2>1, <3>3
  <2>3. m - 1 \in Nat /\ ~ (m <= m - 1)
    BY <2>1, <2>2
  <2> QED
    BY <1>2, <2>1, <2>2, <2>3
<1> DEFINE P == Q \ {m}
<1>5. P \subseteq 1 .. m - 1 /\ P \subseteq Nodes
  BY <1>3, <1>4
<1>6. P = {} \/ Has(P)
  BY <1>4, <1>5
<1>7. CASE m \notin Q
  BY <1>3, <1>6, <1>7
<1>8. CASE m \in Q
  <2>1. CASE P = {}
    <3>1. \A n \in Q : n = m
      BY <2>1
    <3>2. ~ Precedes(m, m)
      BY <1>3, <1>8, Order
    <3> QED
      BY <1>3, <1>8, <3>1, <3>2
  <2>2. CASE Has(P)
    <3>1. PICK z \in P : \A n \in P : ~ Precedes(z, n)
      BY <2>2
    <3>2. CASE Precedes(z, m)
      <4>1. \A n \in Q : ~ Precedes(m, n)
        BY <1>3, <1>5, <1>8, <3>1, <3>2, Order
      <4> QED
        BY <1>3, <1>8, <4>1
    <3>3. CASE ~ Precedes(z, m)
      BY <1>3, <3>1, <3>3
    <3> QED
      BY <3>2, <3>3
  <2> QED
    BY <1>6, <2>1, <2>2
<1> QED
  BY <1>7, <1>8

-----------------------------------------------------------------------------
(* What the search for the places of a new node finds. *)

(* A sorted level has one last node before a key. *)
LEMMA LastExists ==
  ASSUME Types, NEW i \in Levels, SortedBy(Linked(i), Pointers(i)), NEW k \in Nat
  PROVE  \E z : LastAt(i, z, k)
<1> DEFINE S == {n \in Linked(i) : key[n] < k}
<1>1. /\ Linked(i) \subseteq Nodes \ {head}
      /\ \A m \in Linked(i) \cup {head} :
           next[m][i] # None => next[m][i] \in Linked(i) /\ Precedes(m, next[m][i])
  BY LinkedType DEF SortedBy, Pointers
<1>2. \A n \in Linked(i) : key[n] \in Nat
  BY <1>1, KeyType
<1>3. CASE S = {}
  <2>1. LastAt(i, head, k)
    BY <1>1, <1>2, <1>3 DEF LastAt
  <2> QED
    BY <2>1
<1>4. CASE S # {}
  <2>1. PICK z \in S : \A n \in S : ~ Precedes(z, n)
    BY <1>1, <1>4, LastNode
  <2>2. next[z][i] # None => next[z][i] \in Linked(i) /\ next[z][i] \notin S
    BY <1>1, <2>1
  <2>3. LastAt(i, z, k)
    BY <1>2, <2>1, <2>2 DEF LastAt
  <2> QED
    BY <2>3
<1> QED
  BY <1>3, <1>4

LEMMA LastUnique ==
  ASSUME Types, NEW i \in Levels, SortedBy(Linked(i), Pointers(i)), NEW k \in Nat,
         NEW y, LastAt(i, y, k), NEW z, LastAt(i, z, k)
  PROVE  y = z
<1>1. ASSUME NEW a, LastAt(i, a, k), NEW b, LastAt(i, b, k), Precedes(a, b)
      PROVE  FALSE
  <2>1. /\ a \in Linked(i) \cup {head} /\ b \in Linked(i) \cup {head}
        /\ next[a][i] = None \/ key[next[a][i]] >= k
        /\ b = head \/ key[b] < k
    BY <1>1 DEF LastAt
  <2>2. b \in Linked(i) /\ key[b] < k
    BY <1>1, <2>1 DEF Precedes
  <2>3. /\ next[a][i] # None /\ next[a][i] \in Linked(i)
        /\ b = next[a][i] \/ Precedes(next[a][i], b)
    BY <1>1, <2>1, <2>2 DEF SortedBy, Pointers
  <2>4. key[b] \in Nat /\ key[next[a][i]] \in Nat /\ next[a][i] # head
    BY <2>2, <2>3, LinkedType, KeyType
  <2>5. key[next[a][i]] <= key[b]
    BY <2>3, <2>4 DEF Precedes
  <2> QED
    BY <2>1, <2>2, <2>3, <2>4, <2>5
<1>2. y \in Nodes /\ z \in Nodes
  BY LinkedType DEF LastAt
<1> QED
  BY <1>1, <1>2, Order

(* The walk along a level. *)
Stops(i, k, n) == next[n][i] = None \/ ~ (key[next[n][i]] < k)

WalkFcn(i, k) ==
  CHOOSE f : f = [n \in {m \in Nodes : i \in DOMAIN next[m]} |->
                   IF next[n][i] = None THEN n
                   ELSE IF key[next[n][i]] < k THEN f[next[n][i]] ELSE n]

(* Wherever it starts before the key, it ends at that last node. *)
LEMMA LastBeforeIs ==
  ASSUME Types, ins = None, NEW i \in Levels, SortedBy(Linked(i), Pointers(i)),
         NEW k \in Nat, NEW c \in Linked(i) \cup {head}, c = head \/ key[c] < k
  PROVE  LastAt(i, LastBefore(c, i, k), k)
<1> DEFINE D == {m \in Nodes : i \in DOMAIN next[m]}
           p(n) == next[n][i]
           Def(f) == f = [n \in D |-> IF p(n) = None THEN n
                                      ELSE IF key[p(n)] < k THEN f[p(n)] ELSE n]
<1>1. D = Linked(i) \cup {head}
  BY LinkedType, NodeType DEF Linked
<1>2. PICK z : LastAt(i, z, k)
  BY LastExists
<1>3. ASSUME NEW n \in D
      PROVE  /\ p(n) # None => p(n) \in Linked(i) /\ Precedes(n, p(n)) /\ key[p(n)] \in Nat
             /\ p(n) # None => p(n) \in D /\ p(n) # head
             /\ ~ Stops(i, k, n) => p(n) # None /\ key[p(n)] < k
             /\ Stops(i, k, n) => p(n) = None \/ key[p(n)] >= k
  <2>1. p(n) # None => p(n) \in Linked(i) /\ Precedes(n, p(n))
    BY <1>1 DEF SortedBy, Pointers
  <2>2. p(n) # None => key[p(n)] \in Nat /\ p(n) # head
    BY <2>1, LinkedType, KeyType
  <2> QED
    BY <1>1, <2>1, <2>2 DEF Stops
<1>4. \A n \in D : Stops(i, k, n) /\ (n = head \/ key[n] < k) => LastAt(i, n, k) /\ n = z
  <2>1. \A n \in D : Stops(i, k, n) /\ (n = head \/ key[n] < k) => LastAt(i, n, k)
    BY <1>1, <1>3 DEF LastAt
  <2> QED
    BY <1>2, <2>1, LastUnique
<1>5. \E f : Def(f)
  <2> DEFINE g == [n \in D |-> IF Stops(i, k, n) THEN n ELSE z]
  <2> SUFFICES ASSUME NEW n \in D
               PROVE  g[n] = IF p(n) = None THEN n ELSE IF key[p(n)] < k THEN g[p(n)] ELSE n
    OBVIOUS
  <2>1. CASE Stops(i, k, n)
    BY <1>3, <2>1 DEF Stops
  <2>2. CASE ~ Stops(i, k, n)
    <3>1. p(n) # None /\ key[p(n)] < k /\ p(n) \in D
      BY <1>3, <2>2
    <3>2. g[p(n)] = z
      BY <1>4, <3>1
    <3> QED
      BY <2>2, <3>1, <3>2
  <2> QED
    BY <2>1, <2>2
<1> DEFINE f == WalkFcn(i, k)
<1>6. Def(f)
  <2>1. f = CHOOSE g : Def(g)
    BY DEF WalkFcn
  <2> QED
    BY <1>5, <2>1
<1>7. \A n \in D : f[n] = IF Stops(i, k, n) THEN n ELSE f[p(n)]
  BY <1>6 DEF Stops
<1>8. LastBefore(c, i, k) = f[c]
  BY DEF LastBefore, WalkFcn
<1> HIDE DEF f
<1> DEFINE B == {n \in D : ~ Stops(i, k, n) /\ f[n] # z}
<1>9. ASSUME NEW n \in D, ~ Stops(i, k, n), p(n) \notin B
      PROVE  f[n] = z
  <2>1. p(n) \in D /\ key[p(n)] < k /\ f[n] = f[p(n)]
    BY <1>3, <1>7, <1>9
  <2>2. CASE Stops(i, k, p(n))
    BY <1>4, <1>7, <2>1, <2>2
  <2>3. CASE ~ Stops(i, k, p(n))
    BY <1>9, <2>1, <2>3
  <2> QED
    BY <2>2, <2>3
<1>10. B \ {head} = {}
  <2> SUFFICES ASSUME B \ {head} # {} PROVE FALSE
    OBVIOUS
  <2>1. B \ {head} \subseteq Nodes \ {head}
    OBVIOUS
  <2>2. PICK b \in B \ {head} : \A n \in B \ {head} : ~ Precedes(b, n)
    <3> HIDE DEF B
    <3> QED
      BY <2>1, LastNode
  <2>3. p(b) # None /\ Precedes(b, p(b)) /\ p(b) # head
    BY <1>3, <2>2
  <2> QED
    BY <1>9, <2>2, <2>3
<1>11. \A n \in D : ~ Stops(i, k, n) => f[n] = z
  BY <1>3, <1>9, <1>10
<1>12. CASE Stops(i, k, c)
  BY <1>1, <1>4, <1>7, <1>8, <1>12
<1>13. CASE ~ Stops(i, k, c)
  BY <1>1, <1>2, <1>8, <1>11, <1>13
<1> QED
  BY <1>12, <1>13

(* The walks from the top level down. *)
UpdateFcn(top, k) ==
  CHOOSE u : u = [i \in 1 .. top |-> LastBefore(IF i = top THEN head ELSE u[i + 1], i, k)]

(* They find for each level the last node before the key. *)
LEMMA UpdateIs ==
  ASSUME Types, ins = None, \A i \in Levels : SortedBy(Linked(i), Pointers(i)),
         NEW k \in Nat, NEW top \in Levels
  PROVE  /\ Update(top, k) \in Seq(Nat) /\ Len(Update(top, k)) = top
         /\ \A i \in 1 .. top : LastAt(i, Update(top, k)[i], k)
<1> DEFINE Z == [i \in 1 .. top |-> CHOOSE z : LastAt(i, z, k)]
           From(u, i) == IF i = top THEN head ELSE u[i + 1]
           Def(u) == u = [i \in 1 .. top |-> LastBefore(From(u, i), i, k)]
<1>1. top \in Nat /\ \A i \in 1 .. top : i \in Levels
  BY ListAssumption DEF Levels
<1>2. \A i \in 1 .. top : LastAt(i, Z[i], k)
  <2> SUFFICES ASSUME NEW i \in 1 .. top PROVE LastAt(i, Z[i], k)
    OBVIOUS
  <2>1. \E z : LastAt(i, z, k)
    BY <1>1, LastExists
  <2> QED
    BY <2>1
<1> HIDE DEF Z
<1>3. ASSUME NEW u, NEW i \in 1 .. top, i # top => u[i + 1] = Z[i + 1]
      PROVE  LastBefore(From(u, i), i, k) = Z[i]
  <2>1. /\ From(u, i) \in Linked(i) \cup {head}
        /\ From(u, i) = head \/ key[From(u, i)] < k
    <3>1. CASE i = top
      BY <3>1
    <3>2. CASE i # top
      <4>1. i + 1 \in 1 .. top /\ i + 1 \in Levels /\ i \in 1 .. i + 1
        BY <1>1, <3>2
      <4>2. LastAt(i + 1, u[i + 1], k)
        BY <1>2, <1>3, <3>2, <4>1
      <4>3. u[i + 1] \in Linked(i + 1) => u[i + 1] \in Linked(i)
        BY <4>1, LinkedBelow
      <4> QED
        BY <3>2, <4>2, <4>3 DEF LastAt
    <3> QED
      BY <3>1, <3>2
  <2>2. LastAt(i, LastBefore(From(u, i), i, k), k)
    <3> HIDE DEF From
    <3> QED
      BY <1>1, <2>1, LastBeforeIs
  <2> QED
    BY <1>1, <1>2, <2>2, LastUnique
<1>4. Def(Z)
  <2>1. \A i \in 1 .. top : Z[i] = LastBefore(From(Z, i), i, k)
    BY <1>3
  <2>2. Z = [i \in 1 .. top |-> Z[i]]
    BY DEF Z
  <2> QED
    BY <2>1, <2>2
<1> DEFINE U == UpdateFcn(top, k)
<1>5. Def(U)
  <2>1. U = CHOOSE u : Def(u)
    BY DEF UpdateFcn
  <2> QED
    BY <1>4, <2>1
<1>6. Update(top, k) = U
  BY DEF Update, UpdateFcn
<1> HIDE DEF U
<1>7. DOMAIN U = 1 .. top /\ \A i \in 1 .. top : U[i] = LastBefore(From(U, i), i, k)
  BY <1>5
<1> HIDE DEF Def
<1> DEFINE T == {j \in Nat : j < top /\ U[top - j] # Z[top - j]}
<1>8. T = {}
  <2> SUFFICES ASSUME T # {} PROVE FALSE
    OBVIOUS
  <2>1. T \subseteq Nat
    OBVIOUS
  <2>2. PICK j \in T : \A l \in T : j <= l
    <3> HIDE DEF T
    <3> QED
      BY <2>1, Least
  <2> DEFINE i == top - j
  <2>3. /\ i \in 1 .. top /\ U[i] # Z[i]
        /\ i # top => (j - 1) \in Nat /\ j - 1 < top /\ i + 1 = top - (j - 1) /\ ~ (j <= j - 1)
    BY <1>1, <2>1
  <2>4. i # top => U[i + 1] = Z[i + 1]
    <3> SUFFICES ASSUME i # top PROVE U[i + 1] = Z[i + 1]
      OBVIOUS
    <3>1. j - 1 \notin T
      BY <2>2, <2>3
    <3> QED
      BY <2>3, <3>1
  <2> HIDE DEF i
  <2> QED
    BY <1>3, <1>7, <2>3, <2>4
<1>9. \A i \in 1 .. top : U[i] = Z[i]
  <2> SUFFICES ASSUME NEW i \in 1 .. top PROVE U[i] = Z[i]
    OBVIOUS
  <2>1. top - i \in Nat /\ top - i < top /\ top - (top - i) = i
    BY <1>1
  <2>2. top - i \notin T
    BY <1>8
  <2> QED
    BY <2>1, <2>2
<1>10. \A i \in 1 .. top : U[i] \in Nat /\ LastAt(i, U[i], k)
  <2>1. \A i \in 1 .. top : LastAt(i, U[i], k)
    BY <1>2, <1>9
  <2> QED
    BY <1>1, <2>1, LinkedType, NodeType DEF LastAt
<1>11. U = [i \in 1 .. top |-> U[i]]
  <2>1. U = [i \in 1 .. top |-> LastBefore(From(U, i), i, k)]
    BY <1>5 DEF Def
  <2> QED
    BY <1>7, <2>1
<1>12. U \in Seq(Nat) /\ Len(U) = top
  BY <1>1, <1>10, <1>11, IsASeq
<1> QED
  BY <1>6, <1>10, <1>12

-----------------------------------------------------------------------------
(* Steps of an insertion. *)

LevelsInv ==
  \A i \in Levels : \A m \in Linked(i) \cup {head} :
    IF next[m][i] = None THEN IsLast(i, m) ELSE IsNext(i, m, next[m][i])

(* Writing one pointer. *)
Writes(f, u, a, x) == f = [next EXCEPT ![u][a] = x]

Written(f, u, a, x) ==
  /\ f \in [0 .. Len(key) -> Towers] /\ DOMAIN f = Nodes
  /\ Len(f[head]) = MaxLevel
  /\ \A m \in Nodes : DOMAIN f[m] = DOMAIN next[m] /\ Len(f[m]) = Len(next[m])
  /\ f[u][a] = x
  /\ \A m \in Nodes : \A i \in DOMAIN next[m] :
       m # u \/ i # a => f[m][i] = next[m][i]

LEMMA PointerPut ==
  ASSUME Types, NEW u \in Nodes, NEW a \in DOMAIN next[u], NEW x \in Nat \cup {None},
         NEW f, Writes(f, u, a, x)
  PROVE  Written(f, u, a, x)
<1>1. next \in [0 .. Len(key) -> Towers] /\ DOMAIN next = Nodes /\ Nodes = 0 .. Len(key)
  BY NodeType DEF Types, Nodes
<1> DEFINE t == next[u]
           g == [t EXCEPT ![a] = x]
<1>2. t \in Seq(Nat \cup {None}) /\ Len(t) \in Levels /\ a \in 1 .. Len(t)
  BY TowerType
<1> HIDE DEF t
<1>3. /\ g \in Seq(Nat \cup {None}) /\ Len(g) = Len(t) /\ DOMAIN g = DOMAIN t
      /\ g[a] = x /\ \A i \in DOMAIN t : i # a => g[i] = t[i]
  BY <1>2
<1> HIDE DEF g
<1>4. f = [next EXCEPT ![u] = g]
  BY <1>1 DEF t, g, Writes
<1>5. g \in Towers
  BY <1>2, <1>3 DEF Towers
<1>6. f \in [0 .. Len(key) -> Towers] /\ f[u] = g /\ \A m \in Nodes : m # u => f[m] = next[m]
  BY <1>1, <1>4, <1>5
<1>7. \A m \in Nodes : DOMAIN f[m] = DOMAIN next[m] /\ Len(f[m]) = Len(next[m])
  BY <1>3, <1>6 DEF t
<1>8. Len(f[head]) = MaxLevel
  BY <1>7, NodeType DEF Types
<1> QED
  BY <1>1, <1>3, <1>6, <1>7, <1>8 DEF t, Written

(* A node is made and its places are found; the levels are as they were.   *)
LEMMA InsertStep ==
  ASSUME Types, LevelsInv, NEW k \in Keys, Insert(k)
  PROVE  /\ Types' /\ LevelsInv' /\ InsInv'
         /\ Nodes' = Nodes \cup {Len(key) + 1}
         /\ \A i \in Levels : Linked(i)' = Linked(i)
         /\ \A n \in Nodes \ {head} : key'[n] = key[n]
         /\ \A n \in Nodes : next'[n] = next[n]
         /\ \A m, n \in Nodes : Precedes(m, n)' <=> Precedes(m, n)
         /\ Seen' = Seen
<1> DEFINE n == Len(key) + 1
<1>1. PICK newLevel \in Levels :
        LET top == IF level > newLevel THEN level ELSE newLevel
        IN  /\ key' = Append(key, k)
            /\ next' = [m \in Nodes \cup {n} |->
                         IF m = n THEN [i \in 1 .. newLevel |-> None] ELSE next[m]]
            /\ ins' = [node |-> n, update |-> Update(top, k), at |-> 1, do |-> "link"]
  BY DEF Insert
<1> DEFINE top == IF level > newLevel THEN level ELSE newLevel
<1>2. /\ ins = None /\ nodeNum' = nodeNum + 1
      /\ UNCHANGED <<level, search, answer>>
  BY DEF Insert
<1>3. /\ key \in Seq(Keys) /\ Len(key) \in Nat /\ Nodes = 0 .. Len(key) /\ DOMAIN next = Nodes
      /\ Len(key') = Len(key) + 1 /\ key' \in Seq(Keys) /\ key'[n] = k
      /\ \A m \in Nodes \ {head} : key'[m] = key[m]
      /\ k \in Nat /\ newLevel \in Nat /\ newLevel >= 1 /\ newLevel <= MaxLevel
      /\ n \notin Nodes /\ n \in Nat
  <2>1. key \in Seq(Keys) /\ Len(key) \in Nat /\ Nodes = 0 .. Len(key) /\ DOMAIN next = Nodes
    BY NodeType DEF Types, Nodes
  <2>2. k \in Nat /\ newLevel \in Nat /\ newLevel >= 1 /\ newLevel <= MaxLevel
    BY ListAssumption DEF Levels
  <2>3. /\ Len(key') = Len(key) + 1 /\ key' \in Seq(Keys) /\ key'[n] = k
        /\ \A m \in 1 .. Len(key) : key'[m] = key[m]
    BY <1>1, <2>1
  <2> QED
    BY <2>1, <2>2, <2>3 DEF head
<1> HIDE DEF n
<1>4. top \in Levels /\ newLevel \in 1 .. top
  BY <1>3, ListAssumption DEF Types, Levels
<1>5. /\ Update(top, k) \in Seq(Nat) /\ Len(Update(top, k)) = top
      /\ \A i \in 1 .. top : LastAt(i, Update(top, k)[i], k)
  <2> HIDE DEF top
  <2>1. \A i \in Levels : SortedBy(Linked(i), Pointers(i))
    BY SortedLevels DEF LevelsInv
  <2> QED
    BY <1>2, <1>3, <1>4, <2>1, UpdateIs
<1>6. PICK U \in Seq(Nat) :
        /\ Len(U) = top /\ \A i \in 1 .. top : LastAt(i, U[i], k)
        /\ ins' = [node |-> n, update |-> U, at |-> 1, do |-> "link"]
  BY <1>1, <1>5
<1> DEFINE tower == [i \in 1 .. newLevel |-> None]
<1>7. tower \in Seq(Nat \cup {None}) /\ Len(tower) = newLevel /\ DOMAIN tower = 1 .. newLevel
  BY <1>3, IsASeq
<1> HIDE DEF tower
<1>8. /\ next' = [m \in Nodes \cup {n} |-> IF m = n THEN tower ELSE next[m]]
      /\ next'[n] = tower
      /\ \A m \in Nodes : next'[m] = next[m]
  BY <1>1, <1>3 DEF tower
<1>9. Nodes' = Nodes \cup {n} /\ Nodes' = 0 .. Len(key')
  BY <1>3, <1>8 DEF Nodes, n
<1>20. ins' \in Insertions
  BY <1>3, <1>6 DEF Insertions
<1>10. Types'
  <2>1. next' \in [0 .. Len(key') -> Towers]
    <3>1. tower \in Towers
      BY <1>7 DEF Towers
    <3>2. \A m \in Nodes : next[m] \in Towers
      BY DEF Types, Nodes
    <3>3. \A m \in Nodes \cup {n} : (IF m = n THEN tower ELSE next[m]) \in Towers
      BY <3>1, <3>2
    <3> QED
      BY <1>8, <1>9, <3>3
  <2>2. Len(next'[head]) = MaxLevel
    BY <1>8, NodeType DEF Types
  <2>3. ins' \in Insertions
    BY <1>20
  <2> QED
    BY <1>2, <1>3, <2>1, <2>2, <2>3 DEF Types
<1>11. ins' # None /\ ins'.node = n /\ ins'.at = 1 /\ ins'.do = "link" /\ ins'.update = U
  BY <1>6, <1>20, NoneAssumption
<1>12. \A i \in Levels : Linked(i)' = Linked(i)
  <2> SUFFICES ASSUME NEW i \in Levels, NEW m
               PROVE  m \in Linked(i)' <=> m \in Linked(i)
    OBVIOUS
  <2>1. i >= 1
    BY ListAssumption DEF Levels
  <2>2. m \in Linked(i) <=> m \in Nodes \ {head} /\ i \in DOMAIN next[m]
    BY <1>2 DEF Linked
  <2>3. m \in Linked(i)' <=> m \in Nodes' \ {head} /\ i \in DOMAIN next'[m] /\ m # n
    BY <1>11, <2>1 DEF Linked, head
  <2> QED
    BY <1>3, <1>8, <1>9, <2>2, <2>3
<1>13. \A a, b \in Nodes : Precedes(a, b)' <=> Precedes(a, b)
  BY <1>3 DEF Precedes, head
<1>14. \A i \in Levels : \A m \in Linked(i) \cup {head} : m \in Nodes
  BY LinkedType
<1>15. LevelsInv'
  <2> SUFFICES ASSUME NEW i \in Levels, NEW m \in Linked(i) \cup {head}
               PROVE  IF next'[m][i] = None THEN IsLast(i, m)' ELSE IsNext(i, m, next[m][i])'
    BY <1>12 DEF LevelsInv, head
  <2>1. PICK x : x = next[m][i]
    OBVIOUS
  <2>2. next'[m][i] = x /\ m \in Nodes
    BY <1>8, <1>14, <2>1
  <2>3. IF x = None THEN IsLast(i, m) ELSE IsNext(i, m, x)
    BY <2>1 DEF LevelsInv
  <2>4. CASE x = None
    BY <1>12, <1>13, <1>14, <2>2, <2>3, <2>4 DEF IsLast
  <2>5. CASE x # None
    <3>1. x \in Linked(i) /\ x \in Nodes
      BY <1>14, <2>3, <2>5 DEF IsNext
    <3>2. IsNext(i, m, x)'
      BY <1>12, <1>13, <1>14, <2>2, <2>3, <2>5, <3>1 DEF IsNext
    <3> QED
      BY <2>2, <2>5, <3>2
  <2> QED
    BY <2>4, <2>5
<1>16. InsInv'
  <2>1. Len(next'[n]) = newLevel
    BY <1>7, <1>8
  <2>2. ASSUME NEW i \in 1 .. newLevel
        PROVE  LastAt(i, U[i], k)'
    <3>1. i \in 1 .. top /\ i \in Levels
      <4> HIDE DEF top
      <4> QED
        BY <1>3, <1>4, ListAssumption DEF Levels
    <3>0. PICK u : u = U[i]
      OBVIOUS
    <3>2. LastAt(i, u, k)
      BY <1>6, <3>0, <3>1
    <3>3. u \in Linked(i) \cup {head} /\ u \in Nodes /\ next'[u][i] = next[u][i]
      BY <1>8, <1>14, <3>1, <3>2 DEF LastAt
    <3>4. next[u][i] = None \/ next[u][i] \in Nodes \ {head}
      BY <1>14, <3>1, <3>3, LinkedType DEF LevelsInv, IsNext
    <3>5. /\ u \in Linked(i)' \cup {head}
          /\ u = head \/ key'[u] < k
          /\ next'[u][i] = None \/ key'[next'[u][i]] >= k
      BY <1>3, <1>12, <3>1, <3>2, <3>3, <3>4 DEF LastAt
    <3>6. LastAt(i, u, k)'
      BY <3>5 DEF LastAt, head
    <3> QED
      BY <3>0, <3>6
  <2>3. Len(U) >= newLevel
    BY <1>3, <1>4, <1>6, ListAssumption DEF Levels
  <2>4. k = key'[n]
    BY <1>3
  <2> QED
    BY <1>3, <1>11, <2>1, <2>2, <2>3, <2>4 DEF InsInv, n, head
<1>17. Seen' = Seen
  BY <1>2, <1>3, <1>11 DEF Seen
<1> QED
  BY <1>3, <1>8, <1>9, <1>10, <1>12, <1>13, <1>15, <1>16, <1>17 DEF n

(* The first of the two writes of a level is to the new node alone.        *)
LEMMA LinkStep ==
  ASSUME Types, LevelsInv, InsInv, Link
  PROVE  /\ Types' /\ LevelsInv' /\ InsInv'
         /\ Nodes' = Nodes
         /\ \A i \in Levels : Linked(i)' = Linked(i)
         /\ \A i \in Levels : \A m \in Linked(i) \cup {head} : next'[m][i] = next[m][i]
         /\ Seen' = Seen
<1> PICK n, a, u, x : n = ins.node /\ a = ins.at /\ u = ins.update[a] /\ x = next[u][a]
  OBVIOUS
<1>1. /\ ins # None /\ a <= Len(next[n])
      /\ next' = [next EXCEPT ![n][a] = x]
      /\ ins' = [ins EXCEPT !.do = "publish"]
      /\ UNCHANGED <<key, level, nodeNum, search, answer>>
  BY DEF Link
<1>2. /\ ins \in Insertions /\ n \in Nat /\ a \in Nat
  BY <1>1 DEF Types, Insertions
<1>3. /\ n = Len(key) /\ n \in Nodes \ {head} /\ a >= 1 /\ a <= Len(next[n])
      /\ Len(ins.update) >= Len(next[n])
      /\ \A i \in a .. Len(next[n]) : LastAt(i, ins.update[i], key[n])
  BY <1>1, <1>2, NodeType DEF InsInv
<1>4. a \in DOMAIN next[n] /\ a \in Levels /\ Len(next[n]) \in Levels
  BY <1>2, <1>3, TowerType, ListAssumption DEF Levels
<1>5. LastAt(a, u, key[n])
  BY <1>2, <1>3, <1>4, ListAssumption DEF Levels
<1>6. \A i \in Levels : n \in Linked(i) => i < a
  <2> SUFFICES ASSUME NEW i \in Levels, n \in Linked(i) PROVE i < a
    OBVIOUS
  <2>1. ~ (i >= a)
    BY <1>1 DEF Linked
  <2> QED
    BY <1>2, <2>1, ListAssumption DEF Levels
<1>7. /\ u \in Linked(a) \cup {head} /\ u \in Nodes /\ u # n /\ a \in DOMAIN next[u]
      /\ x \in Nat \cup {None}
  <2>1. u \in Linked(a) \cup {head}
    BY <1>5 DEF LastAt
  <2>2. u \in Nodes /\ a \in DOMAIN next[u]
    BY <1>4, <2>1, LinkedType
  <2> QED
    BY <1>2, <1>3, <1>4, <1>6, <2>1, <2>2, TowerType
<1>8. /\ next' \in [0 .. Len(key) -> Towers] /\ DOMAIN next' = Nodes
      /\ Len(next'[head]) = MaxLevel
      /\ \A m \in Nodes : DOMAIN next'[m] = DOMAIN next[m] /\ Len(next'[m]) = Len(next[m])
      /\ next'[n][a] = x
      /\ \A m \in Nodes : \A i \in DOMAIN next[m] :
           m # n \/ i # a => next'[m][i] = next[m][i]
  <2>1. PICK f : f = next'
    OBVIOUS
  <2>2. Writes(f, n, a, x)
    BY <1>1, <2>1 DEF Writes
  <2>3. n \in Nodes /\ a \in DOMAIN next[n] /\ x \in Nat \cup {None}
    BY <1>3, <1>4, <1>7
  <2>4. Written(f, n, a, x)
    BY <2>2, <2>3, PointerPut
  <2> QED
    BY <2>1, <2>4 DEF Written, head
<1>9. /\ ins' \in Insertions /\ ins'.node = n /\ ins'.at = a /\ ins'.update = ins.update
      /\ ins'.do = "publish" /\ ins' # None
  <2>1. /\ ins' \in Insertions /\ ins'.node = n /\ ins'.at = a /\ ins'.update = ins.update
        /\ ins'.do = "publish"
    BY <1>1, <1>2 DEF Insertions
  <2> QED
    BY <2>1, NoneAssumption
<1>10. Types'
  BY <1>1, <1>8, <1>9 DEF Types
<1>11. Nodes' = Nodes
  BY <1>8 DEF Nodes
<1>12. \A i \in Levels : Linked(i)' = Linked(i)
  BY <1>1, <1>8, <1>9, <1>11 DEF Linked, head
<1>13. \A i \in Levels : \A m \in Linked(i) \cup {head} : next'[m][i] = next[m][i]
  BY <1>3, <1>4, <1>6, <1>8, LinkedType
<1>14. LevelsInv'
  <2>1. \A m, o : Precedes(m, o)' <=> Precedes(m, o)
    BY <1>1 DEF Precedes, head
  <2> SUFFICES ASSUME NEW i \in Levels, NEW m \in Linked(i) \cup {head}
               PROVE  IF next'[m][i] = None THEN IsLast(i, m)' ELSE IsNext(i, m, next[m][i])'
    BY <1>12 DEF LevelsInv, head
  <2>2. PICK y : y = next[m][i]
    OBVIOUS
  <2>3. next'[m][i] = y
    BY <1>13, <2>2
  <2>4. IF y = None THEN IsLast(i, m) ELSE IsNext(i, m, y)
    BY <2>2 DEF LevelsInv
  <2>5. IF y = None THEN IsLast(i, m)' ELSE IsNext(i, m, y)'
    BY <1>12, <2>1, <2>4 DEF IsLast, IsNext
  <2> QED
    BY <2>3, <2>5
<1>15. InsInv'
  <2>1. \A i \in a .. Len(next[n]) : LastAt(i, ins.update[i], key[n])'
    <3> SUFFICES ASSUME NEW i \in a .. Len(next[n]) PROVE LastAt(i, ins.update[i], key[n])'
      OBVIOUS
    <3>1. i \in Levels
      BY <1>2, <1>3, <1>4, ListAssumption DEF Levels
    <3>2. PICK v, k : v = ins.update[i] /\ k = key[n]
      OBVIOUS
    <3>3. LastAt(i, v, k)
      BY <1>3, <3>2
    <3>4. next'[v][i] = next[v][i]
      BY <1>13, <3>1, <3>3 DEF LastAt
    <3>5. LastAt(i, v, k)'
      BY <1>1, <1>12, <3>1, <3>3, <3>4 DEF LastAt, head
    <3> QED
      BY <1>1, <1>9, <3>2, <3>5
  <2>2. next'[n][a] = next'[u][a]
    BY <1>4, <1>7, <1>8
  <2>3. /\ n # head /\ n = Len(key) /\ a \in 1 .. Len(next[n]) + 1
        /\ Len(next'[n]) = Len(next[n])
    BY <1>2, <1>3, <1>4, <1>8, ListAssumption DEF Levels
  <2> QED
    BY <1>1, <1>3, <1>9, <2>1, <2>2, <2>3 DEF InsInv, head
<1>16. Seen' = Seen
  BY <1>1, <1>9 DEF Seen
<1> QED
  BY <1>10, <1>11, <1>12, <1>13, <1>14, <1>15, <1>16

(* The second puts the node into the level. *)
LEMMA PublishStep ==
  ASSUME Types, LevelsInv, InsInv, Publish
  PROVE  /\ Types' /\ LevelsInv' /\ InsInv'
         /\ Nodes' = Nodes
         /\ \A i \in Levels : \A m \in Linked(i) \cup {head} :
              /\ m \in Linked(i)' \cup {head}
              /\ next[m][i] # None =>
                   /\ next'[m][i] # None /\ key[next'[m][i]] \in Nat
                   /\ key[next'[m][i]] <= key[next[m][i]]
         /\ Seen' \in Nat /\ Seen <= Seen'
         /\ Seen' = Seen \/ (Seen' = Seen + 1 /\ Seen' <= Len(key))
<1> PICK n, a, u, x : n = ins.node /\ a = ins.at /\ u = ins.update[a] /\ x = next[u][a]
  OBVIOUS
<1>1. /\ ins # None /\ ins.do = "publish"
      /\ next' = [next EXCEPT ![u][a] = n]
      /\ ins' = [ins EXCEPT !.at = a + 1, !.do = "link"]
      /\ UNCHANGED <<key, level, nodeNum, search, answer>>
  BY DEF Publish
<1>2. /\ ins \in Insertions /\ n \in Nat /\ a \in Nat
  BY <1>1 DEF Types, Insertions
<1>3. /\ n = Len(key) /\ n \in Nodes \ {head} /\ a >= 1 /\ a <= Len(next[n])
      /\ Len(ins.update) >= Len(next[n])
      /\ \A i \in a .. Len(next[n]) : LastAt(i, ins.update[i], key[n])
      /\ next[n][a] = x
  BY <1>1, <1>2, NodeType DEF InsInv
<1>4. a \in DOMAIN next[n] /\ a \in Levels /\ Len(next[n]) \in Levels
  BY <1>2, <1>3, TowerType, ListAssumption DEF Levels
<1>5. LastAt(a, u, key[n])
  BY <1>2, <1>3, <1>4, ListAssumption DEF Levels
<1>6. \A i \in Levels : n \in Linked(i) => i < a
  <2> SUFFICES ASSUME NEW i \in Levels, n \in Linked(i) PROVE i < a
    OBVIOUS
  <2>1. ~ (i >= a)
    BY <1>1 DEF Linked
  <2> QED
    BY <1>2, <2>1, ListAssumption DEF Levels
<1>7. /\ u \in Linked(a) \cup {head} /\ u \in Nodes /\ u # n /\ a \in DOMAIN next[u]
      /\ n \notin Linked(a)
  <2>1. u \in Linked(a) \cup {head}
    BY <1>5 DEF LastAt
  <2>2. u \in Nodes /\ a \in DOMAIN next[u]
    BY <1>4, <2>1, LinkedType
  <2>3. n \notin Linked(a)
    BY <1>2, <1>4, <1>6
  <2> QED
    BY <1>3, <2>1, <2>2, <2>3
<1>8. /\ next' \in [0 .. Len(key) -> Towers] /\ DOMAIN next' = Nodes
      /\ Len(next'[head]) = MaxLevel
      /\ \A m \in Nodes : DOMAIN next'[m] = DOMAIN next[m] /\ Len(next'[m]) = Len(next[m])
      /\ next'[u][a] = n
      /\ \A m \in Nodes : \A i \in DOMAIN next[m] :
           m # u \/ i # a => next'[m][i] = next[m][i]
  <2>1. PICK f : f = next'
    OBVIOUS
  <2>2. Writes(f, u, a, n)
    BY <1>1, <2>1 DEF Writes
  <2>3. u \in Nodes /\ a \in DOMAIN next[u] /\ n \in Nat \cup {None}
    BY <1>2, <1>7
  <2>4. Written(f, u, a, n)
    BY <2>2, <2>3, PointerPut
  <2> QED
    BY <2>1, <2>4 DEF Written, head
<1>9. /\ ins' \in Insertions /\ ins'.node = n /\ ins'.at = a + 1 /\ ins'.update = ins.update
      /\ ins'.do = "link" /\ ins' # None
  <2>0. PICK b \in Nat : b = a + 1
    BY <1>2
  <2>2. ins' = [ins EXCEPT !.at = b, !.do = "link"]
    BY <1>1, <2>0
  <2>1. /\ ins' \in Insertions /\ ins'.node = n /\ ins'.at = a + 1 /\ ins'.update = ins.update
        /\ ins'.do = "link"
    BY <1>2, <2>0, <2>2 DEF Insertions
  <2> QED
    BY <2>1, NoneAssumption
<1>10. Types'
  BY <1>1, <1>8, <1>9 DEF Types
<1>11. Nodes' = Nodes
  BY <1>8 DEF Nodes
<1>12. /\ Linked(a)' = Linked(a) \cup {n}
       /\ \A i \in Levels : i # a => Linked(i)' = Linked(i)
  <2>1. ASSUME NEW i \in Levels, NEW m
        PROVE  m \in Linked(i)' <=> m \in Linked(i) \/ (m = n /\ i = a)
    <3>1. m \in Linked(i) <=> m \in Nodes \ {head} /\ i \in DOMAIN next[m] /\ ~ (m = n /\ i >= a)
      BY <1>1 DEF Linked
    <3>2. m \in Linked(i)' <=> m \in Nodes \ {head} /\ i \in DOMAIN next'[m] /\ ~ (m = n /\ i >= a + 1)
      BY <1>9, <1>11 DEF Linked, head
    <3>3. i \in Nat
      BY ListAssumption DEF Levels
    <3>4. i >= a <=> i >= a + 1 \/ i = a
      BY <1>2, <3>3
    <3> QED
      BY <1>2, <1>3, <1>4, <1>8, <3>1, <3>2, <3>3, <3>4
  <2> QED
    BY <1>4, <2>1
<1>13. \A m, o : Precedes(m, o)' <=> Precedes(m, o)
  BY <1>1 DEF Precedes, head
<1>14. x # None => x \in Linked(a) /\ x \in Nodes /\ x # head /\ x # n
  <2>1. x # None => x \in Linked(a)
    BY <1>4, <1>7 DEF LevelsInv, IsNext
  <2> QED
    BY <1>4, <1>7, <2>1, LinkedType
<1>15. Precedes(u, n) /\ (x = None \/ Precedes(n, x))
  <2>1. n \in Nat /\ key[n] \in Nat /\ (x # None => key[x] \in Nat /\ x \in 1 .. n /\ x < n)
    BY <1>3, <1>14, KeyType
  <2>2. u = head \/ key[u] < key[n]
    BY <1>5 DEF LastAt
  <2>3. x = None \/ key[x] >= key[n]
    BY <1>5 DEF LastAt
  <2>4. x # head
    BY <1>14, NodeType
  <2> QED
    BY <1>3, <2>1, <2>2, <2>3, <2>4 DEF Precedes
<1>16. SortedBy(Linked(a) \cup {n}, [m \in Nodes |-> IF m = u THEN n ELSE next[m][a]])
  <2>1. SortedBy(Linked(a), Pointers(a))
    BY <1>4, SortedLevels DEF LevelsInv
  <2>2. PICK L, p, q : /\ L = Linked(a) /\ p = Pointers(a)
                       /\ q = [m \in Nodes |-> IF m = u THEN n ELSE next[m][a]]
    OBVIOUS
  <2>3. L \subseteq Nodes \ {head} /\ u \in L \cup {head} /\ n \in (Nodes \ {head}) \ L
    BY <1>3, <1>4, <1>7, <2>2, LinkedType
  <2>4. p[u] = x /\ q[u] = n /\ q[n] = p[u]
    BY <1>3, <1>7, <2>2 DEF Pointers
  <2>5. \A m \in L \cup {head} : m # u => q[m] = p[m]
    BY <2>2, <2>3, NodeType DEF Pointers
  <2>6. SortedBy(L \cup {n}, q)
    BY <1>15, <2>1, <2>2, <2>3, <2>4, <2>5, Spliced
  <2> QED
    BY <2>2, <2>6
<1>17. \A m \in Linked(a) \cup {head, n} :
         next'[m][a] = IF m = u THEN n ELSE next[m][a]
  BY <1>3, <1>4, <1>8, LinkedType
<1>18. \A i \in Levels : i # a => \A m \in Linked(i) \cup {head} : next'[m][i] = next[m][i]
  BY <1>8, LinkedType
<1>19. LevelsInv'
  <2> SUFFICES ASSUME NEW i \in Levels, NEW m \in Linked(i)' \cup {head}
               PROVE  IF next'[m][i] = None THEN IsLast(i, m)' ELSE IsNext(i, m, next[m][i])'
    BY DEF LevelsInv, head
  <2>1. CASE i = a
    <3>1. PICK y : y = IF m = u THEN n ELSE next[m][a]
      OBVIOUS
    <3>2. m \in Linked(a) \cup {n} \cup {head} /\ m \in Nodes
      BY <1>3, <1>4, <1>12, <2>1, LinkedType
    <3>3. next'[m][i] = y
      BY <1>17, <2>1, <3>1, <3>2
    <3>4. IF y = None THEN \A o \in Linked(a) \cup {n} : ~ Precedes(m, o)
          ELSE /\ y \in Linked(a) \cup {n} /\ Precedes(m, y)
               /\ \A o \in Linked(a) \cup {n} : Precedes(m, o) => o = y \/ Precedes(y, o)
      BY <1>16, <3>1, <3>2 DEF SortedBy
    <3>5. IF y = None THEN IsLast(i, m)' ELSE IsNext(i, m, y)'
      BY <1>12, <1>13, <2>1, <3>4 DEF IsLast, IsNext
    <3> QED
      BY <3>3, <3>5
  <2>2. CASE i # a
    <3>1. PICK y : y = next[m][i]
      OBVIOUS
    <3>2. m \in Linked(i) \cup {head}
      BY <1>12, <2>2
    <3>3. next'[m][i] = y
      BY <1>18, <2>2, <3>1, <3>2
    <3>4. IF y = None THEN IsLast(i, m) ELSE IsNext(i, m, y)
      BY <3>1, <3>2 DEF LevelsInv
    <3>5. IF y = None THEN IsLast(i, m)' ELSE IsNext(i, m, y)'
      BY <1>12, <1>13, <2>2, <3>4 DEF IsLast, IsNext
    <3> QED
      BY <3>3, <3>5
  <2> QED
    BY <2>1, <2>2
<1>20. InsInv'
  <2>1. \A i \in a + 1 .. Len(next[n]) : LastAt(i, ins.update[i], key[n])'
    <3> SUFFICES ASSUME NEW i \in a + 1 .. Len(next[n]) PROVE LastAt(i, ins.update[i], key[n])'
      OBVIOUS
    <3>1. i \in Levels /\ i # a /\ i \in a .. Len(next[n])
      BY <1>2, <1>3, <1>4, ListAssumption DEF Levels
    <3>2. PICK v, k : v = ins.update[i] /\ k = key[n]
      OBVIOUS
    <3>3. LastAt(i, v, k)
      BY <1>3, <3>1, <3>2
    <3>4. next'[v][i] = next[v][i]
      BY <1>18, <3>1, <3>3 DEF LastAt
    <3>5. LastAt(i, v, k)'
      BY <1>1, <1>12, <3>1, <3>3, <3>4 DEF LastAt, head
    <3> QED
      BY <1>1, <1>9, <3>2, <3>5
  <2>2. /\ n # head /\ n = Len(key) /\ a + 1 \in 1 .. Len(next[n]) + 1
        /\ Len(next'[n]) = Len(next[n])
    BY <1>2, <1>3, <1>4, <1>8, ListAssumption DEF Levels
  <2> QED
    BY <1>1, <1>3, <1>9, <2>1, <2>2 DEF InsInv, head
<1>21. /\ Seen' \in Nat /\ Seen <= Seen'
       /\ Seen' = Seen \/ (Seen' = Seen + 1 /\ Seen' <= Len(key))
  <2>1. Len(key) \in Nat /\ Len(key) # 0
    BY <1>3, NodeType DEF head
  <2>2. Seen = Len(key) - (IF a = 1 THEN 1 ELSE 0)
    BY <1>1 DEF Seen
  <2>3. Seen' = Len(key)
    BY <1>1, <1>2, <1>3, <1>9, <2>1 DEF Seen
  <2> QED
    BY <2>1, <2>2, <2>3
<1>22. ASSUME NEW i \in Levels, NEW m \in Linked(i) \cup {head}
       PROVE  /\ m \in Linked(i)' \cup {head}
              /\ next[m][i] # None =>
                   /\ next'[m][i] # None /\ key[next'[m][i]] \in Nat
                   /\ key[next'[m][i]] <= key[next[m][i]]
  <2>1. m \in Linked(i)' \cup {head}
    BY <1>12
  <2>2. next[m][i] # None => key[next[m][i]] \in Nat
    <3>1. next[m][i] # None => next[m][i] \in Linked(i)
      BY DEF LevelsInv, IsNext
    <3> QED
      BY <3>1, LinkedType, KeyType
  <2>3. CASE i = a /\ m = u
    <3>1. key[n] \in Nat /\ (x # None => key[n] <= key[x])
      <4>1. x # None => key[x] \in Nat
        BY <1>14, KeyType
      <4>2. key[n] \in Nat
        BY <1>3, KeyType
      <4> QED
        BY <1>5, <4>1, <4>2 DEF LastAt
    <3>2. n # None
      BY <1>2, ListAssumption
    <3> QED
      BY <1>8, <2>1, <2>3, <3>1, <3>2
  <2>4. CASE i # a \/ m # u
    <3>1. next'[m][i] = next[m][i]
      BY <1>8, <2>4, LinkedType
    <3> QED
      BY <2>1, <2>2, <3>1
  <2> QED
    BY <2>3, <2>4
<1> QED
  BY <1>10, <1>11, <1>19, <1>20, <1>21, <1>22

(* When the level of the list follows, nothing else changes. *)
LEMMA RaiseStep ==
  ASSUME Types, LevelsInv, InsInv, Raise
  PROVE  /\ Types' /\ LevelsInv' /\ InsInv'
         /\ Nodes' = Nodes
         /\ \A i \in Levels : Linked(i)' = Linked(i)
         /\ Seen' = Seen
<1>1. /\ ins # None /\ ins' = None
      /\ level' = IF level < Len(next[ins.node]) THEN Len(next[ins.node]) ELSE level
      /\ ins.at > Len(next[ins.node])
      /\ UNCHANGED <<key, next, nodeNum, search, answer>>
  BY DEF Raise
<1>2. /\ ins.node = Len(key) /\ ins.node \in Nodes \ {head} /\ ins.at \in Nat
      /\ ins.at >= 1
  BY <1>1, NodeType DEF InsInv, Types, Insertions
<1>3. Len(next[ins.node]) \in Levels
  BY <1>2, TowerType
<1>4. Types'
  BY <1>1, <1>3, ListAssumption DEF Types, Levels
<1>5. Nodes' = Nodes
  BY <1>1 DEF Nodes
<1>6. \A i \in Levels : Linked(i)' = Linked(i)
  <2> SUFFICES ASSUME NEW i \in Levels, NEW m
               PROVE  m \in Linked(i)' <=> m \in Linked(i)
    OBVIOUS
  <2>1. m \in Linked(i)' <=> m \in Nodes \ {head} /\ i \in DOMAIN next[m]
    BY <1>1, <1>5 DEF Linked, head
  <2>2. m = ins.node /\ i \in DOMAIN next[m] => ~ (i >= ins.at)
    BY <1>1, <1>2, <1>3, TowerType, ListAssumption DEF Levels
  <2> QED
    BY <1>1, <2>1, <2>2 DEF Linked
<1>7. LevelsInv'
  BY <1>1, <1>6 DEF LevelsInv, IsLast, IsNext, Precedes, head
<1>8. InsInv'
  BY <1>1 DEF InsInv
<1>9. Seen' = Seen
  <2>1. ins.at # 1
    BY <1>1, <1>2, <1>3, ListAssumption DEF Levels
  <2> QED
    BY <1>1, <2>1 DEF Seen
<1> QED
  BY <1>4, <1>5, <1>6, <1>7, <1>8, <1>9

-----------------------------------------------------------------------------
(* Searches while nodes are linked. *)

(* What an insertion may do to the levels: nodes join them, and a pointer  *)
(* that led on leads on, to no greater key than before.                    *)
LEMMA SearchKept ==
  ASSUME Types, InsInv, LevelsInv, SearchInv, UNCHANGED search,
         Nodes \subseteq Nodes', \A n \in Nodes \ {head} : key'[n] = key[n],
         Seen' \in Nat, Seen <= Seen',
         \A i \in Levels : \A m \in Linked(i) \cup {head} :
           /\ m \in Linked(i)' \cup {head}
           /\ next[m][i] # None => /\ next'[m][i] # None
                                   /\ key'[next'[m][i]] \in Nat
                                   /\ key'[next'[m][i]] <= key[next[m][i]]
  PROVE  SearchInv'
<1> SUFFICES ASSUME search # None PROVE SearchInv'
  BY DEF SearchInv
<1> PICK s : s = search
  OBVIOUS
<1> DEFINE W == Wanted(s.query)
<1>1. /\ s \in Searches /\ search' = s /\ s # None
      /\ s.known \in Nat /\ s.at \in Nat /\ s.curr \in Nat \cup {None}
      /\ s.query.lo \in Nat /\ s.res \in Seq(Nat)
  BY ListAssumption DEF Types, Searches, Queries
<1>2. /\ s.known <= Seen
      /\ IF s.do = "scan" THEN Scans(s) ELSE s.res = <<>> /\ Stands(s)
  BY DEF SearchInv
<1>3. /\ 1 \in Levels /\ Seen \in Nat /\ Seen <= Len(key) /\ Linked(1) = 1 .. Seen
      /\ Len(key) \in Nat /\ Nodes = 0 .. Len(key)
  BY LinkedLowest, NodeType
<1>4. \A m, n \in Nodes : Precedes(m, n)' <=> Precedes(m, n)
  BY DEF Precedes, head
<1>5. \A i \in Levels : \A n \in Linked(i) : n \in Linked(i)' /\ n \in Nodes \ {head} /\ key[n] \in Nat
  BY LinkedType, KeyType
<1>6. CASE s.do = "scan"
  <2>1. s.curr # None => s.curr \in Linked(1)
    BY <1>2, <1>6 DEF Scans
  <2>2. \A a, b \in DOMAIN s.res : a < b => Precedes(s.res[a], s.res[b])
    BY <1>2, <1>6 DEF Scans
  <2>3. PICK upTo : Moments(s, upTo)
    BY <1>2, <1>6 DEF Scans
  <2>4. /\ upTo \in [W -> s.known .. Seen]
        /\ \A k, l \in W : k < l => upTo[k] <= upTo[l]
        /\ {s.res[a] : a \in DOMAIN s.res} =
             {i \in 1 .. Seen : key[i] \in W /\ i <= upTo[key[i]] /\ Passed(s, i)}
        /\ s.curr # None /\ key[s.curr] \in W => s.curr <= upTo[key[s.curr]]
    BY <2>3 DEF Moments
  <2> HIDE DEF W
  <2>5. upTo \in [W -> s.known .. Seen']
    BY <1>1, <1>3, <2>4
  <2>6. \A i \in 1 .. Seen : key'[i] = key[i] /\ (Passed(s, i)' <=> Passed(s, i)) /\ i \in Nodes
    BY <1>3, <1>4, <1>5, <2>1 DEF Passed, head
  <2>7. ASSUME NEW i \in 1 .. Seen', key'[i] \in W, i <= upTo[key'[i]]
        PROVE  i \in 1 .. Seen
    BY <1>1, <1>3, <2>4, <2>7
  <2>8. {s.res[a] : a \in DOMAIN s.res} =
          {i \in 1 .. Seen' : key'[i] \in W /\ i <= upTo[key'[i]] /\ Passed(s, i)'}
    <3>1. \A i : i \in 1 .. Seen => i \in 1 .. Seen'
      BY <1>3
    <3> DEFINE A == {i \in 1 .. Seen : key[i] \in W /\ i <= upTo[key[i]] /\ Passed(s, i)}
               B == {i \in 1 .. Seen' : key'[i] \in W /\ i <= upTo[key'[i]] /\ Passed(s, i)'}
    <3>2. \A i : i \in A <=> i \in B
      BY <2>6, <2>7, <3>1
    <3>3. A = B
      BY <3>2
    <3> QED
      BY <2>4, <3>3
  <2>9. s.curr # None => key'[s.curr] = key[s.curr]
    BY <1>5, <1>3, <2>1
  <2>10. Moments(s, upTo)'
    BY <2>4, <2>5, <2>8, <2>9 DEF Moments, W
  <2>11. \A a \in DOMAIN s.res : s.res[a] \in Nodes
    BY <2>4, <2>6
  <2>12. \A a, b \in DOMAIN s.res : a < b => Precedes(s.res[a], s.res[b])'
    BY <1>4, <2>2, <2>11
  <2>13. Scans(s)'
    BY <1>3, <1>5, <2>1, <2>10, <2>12 DEF Scans
  <2>14. s.known <= Seen'
    BY <1>1, <1>2, <1>3
  <2> QED
    BY <1>1, <1>6, <2>13, <2>14 DEF SearchInv
<1>7. CASE s.do # "scan"
  <2>1. s.res = <<>> /\ Stands(s)
    BY <1>2, <1>7
  <2> PICK c, a, k : c = s.curr /\ a = s.at /\ k = s.query.lo
    OBVIOUS
  <2>2. /\ a <= MaxLevel /\ c # None
        /\ c # head => (a > 0 => c \in Linked(a)) /\ c \in Linked(1) /\ key[c] < k
        /\ s.do # "test" => a > 0 /\ next[c][a] # None
        /\ s.do = "move" => key[next[c][a]] < k
    BY <2>1 DEF Stands
  <2>3. a > 0 => a \in Levels /\ c \in Linked(a) \cup {head}
    BY <1>1, <2>2, ListAssumption DEF Levels
  <2>4. c # head => (a > 0 => c \in Linked(a)') /\ c \in Linked(1)' /\ key'[c] < k
    BY <1>3, <1>5, <2>2, <2>3
  <2>5. a > 0 /\ next[c][a] # None => next'[c][a] # None /\ key'[next'[c][a]] <= key[next[c][a]]
    BY <2>3
  <2>6. a > 0 /\ next[c][a] # None => next[c][a] \in Linked(a)
    BY <2>3 DEF LevelsInv, IsNext
  <2>7. s.do = "move" => key'[next'[c][a]] < k
    <3> SUFFICES ASSUME s.do = "move" PROVE key'[next'[c][a]] < k
      OBVIOUS
    <3>1. a > 0 /\ next[c][a] # None /\ key[next[c][a]] < k
      BY <2>2
    <3>2. key[next[c][a]] \in Nat
      BY <1>5, <2>3, <2>6, <3>1
    <3>3. key'[next'[c][a]] \in Nat /\ key'[next'[c][a]] <= key[next[c][a]]
      BY <2>3, <3>1
    <3> QED
      BY <1>1, <3>1, <3>2, <3>3
  <2>8. Stands(s)'
    BY <2>2, <2>4, <2>5, <2>7 DEF Stands, head
  <2>9. s.known <= Seen'
    BY <1>1, <1>2, <1>3
  <2> QED
    BY <1>1, <1>7, <2>1, <2>8, <2>9 DEF SearchInv
<1> QED
  BY <1>6, <1>7

(* Whatever an insertion does, the search is as it should be. *)
LEMMA InsertingKeeps ==
  ASSUME Types, InsInv, LevelsInv, SearchInv,
         (\E k \in Keys : Insert(k)) \/ Link \/ Publish \/ Raise
  PROVE  SearchInv'
<1>0. \A i \in Levels : \A m \in Linked(i) \cup {head} :
        /\ m \in Nodes
        /\ next[m][i] # None => /\ next[m][i] \in Linked(i) /\ key[next[m][i]] \in Nat
                                /\ next[m][i] \in Nodes \ {head}
  <2> SUFFICES ASSUME NEW i \in Levels, NEW m \in Linked(i) \cup {head}
               PROVE  /\ m \in Nodes
                      /\ next[m][i] # None => /\ next[m][i] \in Linked(i) /\ key[next[m][i]] \in Nat
                                              /\ next[m][i] \in Nodes \ {head}
    OBVIOUS
  <2>1. next[m][i] # None => next[m][i] \in Linked(i)
    BY DEF LevelsInv, IsNext
  <2> QED
    BY <2>1, LinkedType, KeyType
<1>00. Seen \in Nat /\ Seen <= Seen
  BY LinkedLowest
<1>1. ASSUME NEW k \in Keys, Insert(k) PROVE SearchInv'
  <2>1. /\ Nodes' = Nodes \cup {Len(key) + 1}
        /\ \A i \in Levels : Linked(i)' = Linked(i)
        /\ \A n \in Nodes \ {head} : key'[n] = key[n]
        /\ \A n \in Nodes : next'[n] = next[n]
        /\ Seen' = Seen
    BY <1>1, InsertStep
  <2>2. UNCHANGED search
    BY <1>1 DEF Insert
  <2>3. \A i \in Levels : \A m \in Linked(i) \cup {head} :
          /\ m \in Linked(i)' \cup {head}
          /\ next[m][i] # None => /\ next'[m][i] # None
                                  /\ key'[next'[m][i]] \in Nat
                                  /\ key'[next'[m][i]] <= key[next[m][i]]
    BY <1>0, <2>1
  <2> QED
    BY <1>00, <2>1, <2>2, <2>3, SearchKept
<1>2. ASSUME Link PROVE SearchInv'
  <2>1. /\ Nodes' = Nodes
        /\ \A i \in Levels : Linked(i)' = Linked(i)
        /\ \A i \in Levels : \A m \in Linked(i) \cup {head} : next'[m][i] = next[m][i]
        /\ Seen' = Seen
    BY <1>2, LinkStep
  <2>2. UNCHANGED <<key, search>>
    BY <1>2 DEF Link
  <2>3. \A i \in Levels : \A m \in Linked(i) \cup {head} :
          /\ m \in Linked(i)' \cup {head}
          /\ next[m][i] # None => /\ next'[m][i] # None
                                  /\ key'[next'[m][i]] \in Nat
                                  /\ key'[next'[m][i]] <= key[next[m][i]]
    BY <1>0, <2>1, <2>2
  <2> QED
    BY <1>00, <2>1, <2>2, <2>3, SearchKept
<1>3. ASSUME Publish PROVE SearchInv'
  <2>1. /\ Nodes' = Nodes
        /\ \A i \in Levels : \A m \in Linked(i) \cup {head} :
             /\ m \in Linked(i)' \cup {head}
             /\ next[m][i] # None =>
                  /\ next'[m][i] # None /\ key[next'[m][i]] \in Nat
                  /\ key[next'[m][i]] <= key[next[m][i]]
        /\ Seen' \in Nat /\ Seen <= Seen'
    BY <1>3, PublishStep
  <2>2. UNCHANGED <<key, search>>
    BY <1>3 DEF Publish
  <2>3. \A i \in Levels : \A m \in Linked(i) \cup {head} :
          /\ m \in Linked(i)' \cup {head}
          /\ next[m][i] # None => /\ next'[m][i] # None
                                  /\ key'[next'[m][i]] \in Nat
                                  /\ key'[next'[m][i]] <= key[next[m][i]]
    BY <2>1, <2>2
  <2> QED
    BY <2>1, <2>2, <2>3, SearchKept
<1>4. ASSUME Raise PROVE SearchInv'
  <2>1. /\ Nodes' = Nodes
        /\ \A i \in Levels : Linked(i)' = Linked(i)
        /\ Seen' = Seen
    BY <1>4, RaiseStep
  <2>2. UNCHANGED <<key, next, search>>
    BY <1>4 DEF Raise
  <2>3. \A i \in Levels : \A m \in Linked(i) \cup {head} :
          /\ m \in Linked(i)' \cup {head}
          /\ next[m][i] # None => /\ next'[m][i] # None
                                  /\ key'[next'[m][i]] \in Nat
                                  /\ key'[next'[m][i]] <= key[next[m][i]]
    BY <1>0, <2>1, <2>2
  <2> QED
    BY <1>00, <2>1, <2>2, <2>3, SearchKept
<1> QED
  BY <1>1, <1>2, <1>3, <1>4

-----------------------------------------------------------------------------
(* Steps of a search. *)

(* A step of a search leaves the list alone. *)
LEMMA ListKept ==
  ASSUME Types, LevelsInv, InsInv, UNCHANGED <<key, next, level, nodeNum, ins>>
  PROVE  /\ LevelsInv' /\ InsInv' /\ Seen' = Seen
         /\ \A s : Stands(s)' <=> Stands(s)
         /\ \A s : Scans(s)' <=> Scans(s)
<1>1. \A m, n : Precedes(m, n)' <=> Precedes(m, n)
  BY DEF Precedes, head
<1>2. \A i : Linked(i)' = Linked(i)
  BY DEF Linked, Nodes, head
<1>3. LevelsInv'
  BY <1>1, <1>2 DEF LevelsInv, IsLast, IsNext, head
<1>4. InsInv'
  BY <1>2 DEF InsInv, LastAt, head
<1>5. Seen' = Seen
  BY DEF Seen
<1>6. \A s : Stands(s)' <=> Stands(s)
  BY <1>2 DEF Stands, head
<1>7. \A s, upTo : Moments(s, upTo)' <=> Moments(s, upTo)
  BY <1>1, <1>5 DEF Moments, Passed
<1>8. \A s : Scans(s)' <=> Scans(s)
  BY <1>1, <1>2, <1>7 DEF Scans
<1> QED
  BY <1>3, <1>4, <1>5, <1>6, <1>8

(* What is not behind c is c or before it. *)
LEMMA PassedAfter ==
  ASSUME Types, InsInv, LevelsInv, NEW c \in Linked(1) \cup {head}, NEW y, y = next[c][1],
         NEW i \in Linked(1)
  PROVE  /\ (y = None \/ Precedes(i, y)) <=> (i = c \/ Precedes(i, c))
         /\ y # None => y \in Linked(1) /\ Precedes(c, y)
<1>1. 1 \in Levels /\ c \in Nodes /\ i \in Nodes
  BY LinkedLowest, LinkedType
<1>2. IF y = None THEN IsLast(1, c) ELSE IsNext(1, c, y)
  BY <1>1 DEF LevelsInv
<1>3. y # None => y \in Linked(1) /\ y \in Nodes /\ Precedes(c, y)
  BY <1>1, <1>2, LinkedType DEF IsNext
<1>4. /\ \A m \in Nodes : ~ Precedes(m, m)
      /\ \A m, n, o \in Nodes : Precedes(m, n) /\ Precedes(n, o) => Precedes(m, o)
      /\ \A m, n \in Nodes : m = n \/ Precedes(m, n) \/ Precedes(n, m)
  BY Order
<1>5. CASE y = None
  BY <1>1, <1>2, <1>4, <1>5 DEF IsLast
<1>6. CASE y # None
  <2>1. i = c \/ Precedes(i, c) => Precedes(i, y)
    BY <1>1, <1>3, <1>4, <1>6
  <2>2. Precedes(c, i) => ~ Precedes(i, y)
    BY <1>1, <1>2, <1>3, <1>4, <1>6 DEF IsNext
  <2> QED
    BY <1>1, <1>3, <1>4, <1>6, <2>1, <2>2
<1> QED
  BY <1>5, <1>6

(* A scan keeps what is wanted. *)
LEMMA WantedKeys ==
  ASSUME NEW q \in Queries, NEW k \in Keys
  PROVE  /\ Wanted(q) \subseteq Keys /\ k \in Nat /\ q.lo \in Nat
         /\ k \in Wanted(q) => k >= q.lo
         /\ k \in Wanted(q) => ~ Beyond(q, k)
         /\ k \notin Wanted(q) /\ ~ Beyond(q, k) => k < q.lo
         /\ Beyond(q, k) => \A l \in Wanted(q) : l < k
<1>1. q.lo \in Keys /\ (q.by = "key" \/ (q.by = "range" /\ q.hi \in Keys))
  BY DEF Queries
<1>2. /\ k \in Nat /\ q.lo \in Nat /\ (q.by = "range" => q.hi \in Nat)
      /\ \A l \in Keys : l \in Nat
  BY <1>1, ListAssumption
<1>3. CASE q.by = "key"
  BY <1>1, <1>2, <1>3 DEF Wanted, Beyond
<1>4. CASE q.by = "range"
  <2> PICK lo, hi : lo = q.lo /\ hi = q.hi
    OBVIOUS
  <2>1. lo \in Nat /\ hi \in Nat /\ q.by # "key"
    BY <1>2, <1>4
  <2>2. Wanted(q) = {l \in Keys : lo <= l /\ l < hi}
    BY <2>1 DEF Wanted
  <2>3. Beyond(q, k) <=> k >= hi
    BY <2>1 DEF Beyond
  <2>4. Wanted(q) \subseteq Keys
    BY <2>2
  <2>5. k \in Wanted(q) <=> lo <= k /\ k < hi
    BY <2>2
  <2>6. ASSUME Beyond(q, k), NEW l \in Wanted(q)
        PROVE  l < k
    <3>1. l \in Nat /\ l < hi
      BY <1>2, <2>2
    <3> QED
      BY <1>2, <2>1, <2>3, <2>6, <3>1
  <2> QED
    BY <1>2, <2>1, <2>3, <2>4, <2>5, <2>6
<1> QED
  BY <1>1, <1>3, <1>4

(* A search begins at the head and knows what is there. *)
LEMMA BeginStep ==
  ASSUME Types, LevelsInv, InsInv, NEW q \in Queries, Begin(q)
  PROVE  Types' /\ SearchInv'
<1>1. /\ UNCHANGED <<key, next, level, nodeNum, ins>> /\ answer' = <<>>
      /\ search' = [query |-> q, curr |-> head, at |-> level, res |-> <<>>,
                    do |-> "test", known |-> Seen]
  BY DEF Begin
<1>2. /\ Seen \in Nat /\ level \in Nat /\ level <= MaxLevel
  BY LinkedLowest, ListAssumption DEF Types
<1>3. PICK s : s = search'
  OBVIOUS
<1>4. /\ s \in Searches /\ s.curr = head /\ s.at = level /\ s.res = <<>> /\ s.do = "test"
      /\ s.known = Seen /\ s.query = q
  BY <1>1, <1>2, <1>3 DEF Searches, head
<1>5. Types'
  BY <1>1, <1>3, <1>4 DEF Types
<1>6. Stands(s)
  BY <1>2, <1>4, ListAssumption DEF Stands, head
<1> QED
  BY <1>1, <1>2, <1>3, <1>4, <1>5, <1>6, ListKept DEF SearchInv

(* A search under way stays the same search. *)
Continues == /\ search # None /\ search' # None
             /\ search'.query = search.query /\ search'.known = search.known
             /\ answer' = answer

(* Through the levels. *)
LEMMA LevelStep ==
  ASSUME Types, LevelsInv, InsInv, SearchInv, Test \/ Compare \/ Move
  PROVE  Types' /\ SearchInv' /\ Continues
<1> PICK s, t, y : s = search /\ t = search' /\ y = next[s.curr][s.at]
  OBVIOUS
<1>1. /\ s # None /\ s \in Searches /\ s.do \in {"test", "compare", "move"} /\ Stands(s)
      /\ s.res = <<>> /\ s.known <= Seen
      /\ UNCHANGED <<key, next, level, nodeNum, ins, answer>>
      /\ s.at \in Nat /\ s.query \in Queries
  <2>1. /\ s # None /\ s.do \in {"test", "compare", "move"}
        /\ UNCHANGED <<key, next, level, nodeNum, ins, answer>>
    BY DEF Test, Compare, Move, Go
  <2>2. s \in Searches /\ s.at \in Nat /\ s.query \in Queries
    BY <2>1 DEF Types, Searches
  <2> QED
    BY <2>1, <2>2 DEF SearchInv
<1>2. \/ /\ s.do = "test" /\ s.at > 0 /\ y = None
         /\ t = [s EXCEPT !.at = @ - 1]
      \/ /\ s.do = "test" /\ s.at > 0 /\ y # None
         /\ t = [s EXCEPT !.do = "compare"]
      \/ /\ s.do = "compare" /\ key[y] < s.query.lo
         /\ t = [s EXCEPT !.do = "move"]
      \/ /\ s.do = "compare" /\ ~ (key[y] < s.query.lo)
         /\ t = [s EXCEPT !.at = @ - 1, !.do = "test"]
      \/ /\ s.do = "move"
         /\ t = [s EXCEPT !.curr = y, !.do = "test"]
  BY DEF Test, Compare, Move, Go, Following
<1>3. /\ s.at <= MaxLevel /\ s.curr # None
      /\ s.curr # head =>
           /\ s.at > 0 => s.curr \in Linked(s.at)
           /\ s.curr \in Linked(1) /\ key[s.curr] < s.query.lo
      /\ s.do # "test" => s.at > 0 /\ y # None
      /\ s.do = "move" => key[y] < s.query.lo
  BY <1>1 DEF Stands
<1>4. s.at > 0 => s.at \in Levels /\ s.curr \in Linked(s.at) \cup {head}
  BY <1>1, <1>3, ListAssumption DEF Levels
<1>5. s.at > 0 /\ y # None => y \in Linked(s.at) /\ y \in Linked(1) /\ y \in Nat /\ y # None /\ y # head
  <2> SUFFICES ASSUME s.at > 0, y # None
               PROVE  y \in Linked(s.at) /\ y \in Linked(1) /\ y \in Nat /\ y # None /\ y # head
    OBVIOUS
  <2>1. y \in Linked(s.at)
    BY <1>4 DEF LevelsInv, IsNext
  <2>2. 1 \in 1 .. s.at
    BY <1>1
  <2> QED
    BY <1>4, <2>1, <2>2, LinkedBelow, LinkedType, NodeType
<1>6. ASSUME s.at > 0, s.curr # head, s.at - 1 > 0
      PROVE  s.curr \in Linked(s.at - 1)
  <2>1. s.at - 1 \in 1 .. s.at
    BY <1>1, <1>6
  <2> QED
    BY <1>3, <1>4, <1>6, <2>1, LinkedBelow
<1>7. t \in Searches /\ t.query = s.query /\ t.res = <<>> /\ t.known = s.known /\ Stands(t)
      /\ t.do # "scan"
  <2>1. CASE s.do = "test" /\ s.at > 0 /\ t = [s EXCEPT !.at = s.at - 1]
    <3>1. s.at - 1 \in Nat
      BY <1>1, <2>1
    <3>2. /\ t \in Searches /\ t.query = s.query /\ t.res = <<>> /\ t.known = s.known
          /\ t.curr = s.curr /\ t.at = s.at - 1 /\ t.do = "test"
      BY <1>1, <2>1, <3>1 DEF Searches
    <3>3. t.at <= MaxLevel
      BY <1>1, <1>3, <3>2, ListAssumption
    <3> QED
      BY <1>3, <1>6, <2>1, <3>2, <3>3 DEF Stands
  <2>2. CASE s.do = "test" /\ s.at > 0 /\ y # None /\ t = [s EXCEPT !.do = "compare"]
    <3>2. /\ t \in Searches /\ t.query = s.query /\ t.res = <<>> /\ t.known = s.known
          /\ t.curr = s.curr /\ t.at = s.at /\ t.do = "compare"
      BY <1>1, <2>2 DEF Searches
    <3> QED
      BY <1>3, <2>2, <3>2 DEF Stands
  <2>3. CASE s.do = "compare" /\ key[y] < s.query.lo /\ t = [s EXCEPT !.do = "move"]
    <3>2. /\ t \in Searches /\ t.query = s.query /\ t.res = <<>> /\ t.known = s.known
          /\ t.curr = s.curr /\ t.at = s.at /\ t.do = "move"
      BY <1>1, <2>3 DEF Searches
    <3> QED
      BY <1>3, <2>3, <3>2 DEF Stands
  <2>4. CASE s.do = "compare" /\ t = [s EXCEPT !.at = s.at - 1, !.do = "test"]
    <3>0. s.at > 0
      BY <1>3, <2>4
    <3>1. s.at - 1 \in Nat
      BY <1>1, <3>0
    <3>2. /\ t \in Searches /\ t.query = s.query /\ t.res = <<>> /\ t.known = s.known
          /\ t.curr = s.curr /\ t.at = s.at - 1 /\ t.do = "test"
      BY <1>1, <2>4, <3>1 DEF Searches
    <3>3. t.at <= MaxLevel
      BY <1>1, <1>3, <3>2, ListAssumption
    <3> QED
      BY <1>3, <1>6, <2>4, <3>0, <3>2, <3>3 DEF Stands
  <2>5. CASE s.do = "move" /\ t = [s EXCEPT !.curr = y, !.do = "test"]
    <3>0. y \in Linked(s.at) /\ y \in Linked(1) /\ y \in Nat /\ y # None /\ key[y] < s.query.lo
      BY <1>3, <1>5, <2>5
    <3>2. /\ t \in Searches /\ t.query = s.query /\ t.res = <<>> /\ t.known = s.known
          /\ t.curr = y /\ t.at = s.at /\ t.do = "test"
      BY <1>1, <2>5, <3>0 DEF Searches
    <3> QED
      BY <1>3, <3>0, <3>2 DEF Stands
  <2> QED
    BY <1>2, <2>1, <2>2, <2>3, <2>4, <2>5
<1>8. Types'
  BY <1>1, <1>7 DEF Types
<1> QED
  BY <1>1, <1>7, <1>8, ListKept, NoneAssumption DEF SearchInv, Continues

(* The scan begins behind the last smaller node that was found. *)
LEMMA BeginScanStep ==
  ASSUME Types, LevelsInv, InsInv, SearchInv, BeginScan
  PROVE  Types' /\ SearchInv' /\ Continues
<1> PICK s, t, c, y : s = search /\ t = search' /\ c = s.curr /\ y = next[c][1]
  OBVIOUS
<1>1. /\ s # None /\ s.do = "test" /\ t = [s EXCEPT !.curr = y, !.do = "scan"]
      /\ UNCHANGED <<key, next, level, nodeNum, ins, answer>>
  BY DEF BeginScan, Go
<1>2. /\ s \in Searches /\ s.query \in Queries /\ s.known \in Nat
  BY <1>1 DEF Types, Searches
<1>3. /\ s.res = <<>> /\ s.known <= Seen
      /\ c # head => c \in Linked(1) /\ key[c] < s.query.lo
  BY <1>1 DEF SearchInv, Stands
<1>4. /\ c \in Linked(1) \cup {head}
      /\ 1 \in Levels /\ Seen \in Nat /\ Linked(1) = 1 .. Seen
      /\ \A i \in Linked(1) : key[i] \in Keys /\ key[i] \in Nat /\ i \in Nodes
  BY <1>3, LinkedLowest, LinkedType, KeyType
<1>5. y # None => y \in Linked(1) /\ y \in Nat
  <2>1. IF y = None THEN IsLast(1, c) ELSE IsNext(1, c, y)
    BY <1>4 DEF LevelsInv
  <2> QED
    BY <1>4, <2>1 DEF IsNext
<1>6. /\ t \in Searches /\ t.query = s.query /\ t.res = <<>> /\ t.known = s.known
      /\ t.curr = y /\ t.do = "scan"
  BY <1>1, <1>2, <1>3, <1>5 DEF Searches
<1> DEFINE W == Wanted(s.query)
           upTo == [k \in W |-> Seen]
<1>7. W \subseteq Keys /\ W \subseteq Nat /\ s.query.lo \in Nat /\ \A k \in W : k >= s.query.lo
  <2>1. s.query.lo \in Keys
    BY <1>2 DEF Queries
  <2> QED
    BY <1>2, <2>1, WantedKeys
<1> HIDE DEF W
<1>8. upTo \in [W -> s.known .. Seen] /\ \A k \in W : upTo[k] = Seen
  BY <1>2, <1>3, <1>4
<1>9. \A i \in 1 .. Seen : Passed(t, i) => key[i] \notin W
  <2> SUFFICES ASSUME NEW i \in 1 .. Seen, Passed(t, i) PROVE key[i] \notin W
    OBVIOUS
  <2>1. i = c \/ Precedes(i, c)
    BY <1>4, <1>6, PassedAfter DEF Passed
  <2>2. c # head
    BY <1>4, <2>1, LinkedType DEF Precedes
  <2>3. key[c] \in Nat /\ key[i] \in Nat /\ key[i] <= key[c]
    BY <1>4, <2>1, <2>2 DEF Precedes, head
  <2> QED
    BY <1>3, <1>7, <2>2, <2>3
<1>10. Moments(t, upTo)
  <2>1. {t.res[a] : a \in DOMAIN t.res} = {}
    BY <1>6
  <2>2. {i \in 1 .. Seen : key[i] \in W /\ i <= upTo[key[i]] /\ Passed(t, i)} = {}
    BY <1>9
  <2>3. \A k, l \in W : k < l => upTo[k] <= upTo[l]
    BY <1>4, <1>8
  <2>4. y # None /\ key[y] \in W => y <= upTo[key[y]]
    BY <1>4, <1>5, <1>8
  <2> HIDE DEF upTo
  <2> QED
    BY <1>6, <1>8, <2>1, <2>2, <2>3, <2>4 DEF Moments, W
<1>11. Scans(t)
  <2> HIDE DEF upTo
  <2> QED
    BY <1>5, <1>6, <1>10 DEF Scans
<1>12. Types'
  BY <1>1, <1>6 DEF Types
<1> QED
  BY <1>1, <1>3, <1>6, <1>11, <1>12, ListKept, NoneAssumption DEF SearchInv, Continues

(* What the scan reads next: the keys up to that of the node it leaves     *)
(* keep their moments, that of the keys behind is now.                     *)
LEMMA ScanStep ==
  ASSUME Types, LevelsInv, InsInv, SearchInv, Scan
  PROVE  Types' /\ SearchInv' /\ Continues
<1> PICK s, t, c, y : s = search /\ t = search' /\ c = s.curr /\ y = next[c][1]
  OBVIOUS
<1>1. /\ s # None /\ s.do = "scan" /\ c # None /\ ~ Beyond(s.query, key[c])
      /\ t = [s EXCEPT !.res = IF key[c] < s.query.lo THEN @ ELSE Append(@, c), !.curr = y]
      /\ UNCHANGED <<key, next, level, nodeNum, ins, answer>>
  BY DEF Scan, Go
<1>2. /\ s \in Searches /\ s.query \in Queries /\ s.known \in Nat /\ s.res \in Seq(Nat)
  BY <1>1 DEF Types, Searches
<1>3. /\ Scans(s) /\ s.known <= Seen
  BY <1>1 DEF SearchInv
<1>4. /\ c \in Linked(1) /\ c \in Linked(1) \cup {head}
      /\ 1 \in Levels /\ Seen \in Nat /\ Linked(1) = 1 .. Seen
      /\ \A i \in Linked(1) : key[i] \in Keys /\ key[i] \in Nat /\ i \in Nodes /\ i \in Nat
  BY <1>1, <1>3, LinkedLowest, LinkedType, KeyType DEF Scans
<1>5. y # None => y \in Linked(1) /\ Precedes(c, y) /\ y \in Nat
  <2>1. IF y = None THEN IsLast(1, c) ELSE IsNext(1, c, y)
    BY <1>4 DEF LevelsInv
  <2> QED
    BY <1>4, <2>1 DEF IsNext
<1> DEFINE W == Wanted(s.query)
<1>6. /\ W \subseteq Keys /\ W \subseteq Nat
      /\ key[c] \in W <=> ~ (key[c] < s.query.lo)
  <2>1. key[c] \in Keys /\ key[c] \in Nat /\ s.query.lo \in Nat /\ W \subseteq Keys
    BY <1>2, <1>4, WantedKeys
  <2>2. key[c] \in W => key[c] >= s.query.lo
    BY <1>2, <2>1, WantedKeys
  <2>3. key[c] \notin W => key[c] < s.query.lo
    BY <1>1, <1>2, <2>1, WantedKeys
  <2> HIDE DEF W
  <2> QED
    BY <2>1, <2>2, <2>3, ListAssumption
<1> HIDE DEF W
<1>7. PICK upTo : /\ upTo \in [W -> s.known .. Seen]
                  /\ \A k, l \in W : k < l => upTo[k] <= upTo[l]
                  /\ {s.res[a] : a \in DOMAIN s.res} =
                       {i \in 1 .. Seen : key[i] \in W /\ i <= upTo[key[i]] /\ Passed(s, i)}
                  /\ key[c] \in W => c <= upTo[key[c]]
  BY <1>1, <1>3 DEF Scans, Moments, W
<1>8. /\ \A a, b \in DOMAIN s.res : a < b => Precedes(s.res[a], s.res[b])
      /\ \A a \in DOMAIN s.res : s.res[a] \in Nat /\ s.res[a] \in Linked(1) /\ Precedes(s.res[a], c)
  <2>1. \A a \in DOMAIN s.res : s.res[a] \in 1 .. Seen /\ Passed(s, s.res[a])
    BY <1>7
  <2> QED
    BY <1>1, <1>3, <1>4, <2>1 DEF Scans, Passed
<1> DEFINE res == IF key[c] \in W THEN Append(s.res, c) ELSE s.res
<1>9. /\ res \in Seq(Nat)
      /\ {res[a] : a \in DOMAIN res} = {s.res[a] : a \in DOMAIN s.res} \cup
                                        (IF key[c] \in W THEN {c} ELSE {})
      /\ \A a, b \in DOMAIN res : a < b => Precedes(res[a], res[b])
  <2>1. CASE key[c] \in W
    <3>1. PICK r, n : r = s.res /\ n = Len(r)
      OBVIOUS
    <3>2. r \in Seq(Nat) /\ n \in Nat /\ c \in Nat
      BY <1>2, <1>4, <3>1
    <3> DEFINE q == Append(r, c)
    <3>3. /\ q \in Seq(Nat) /\ DOMAIN q = 1 .. n + 1 /\ DOMAIN r = 1 .. n /\ q[n + 1] = c
          /\ \A a \in 1 .. n : q[a] = r[a]
      BY <3>1, <3>2
    <3>4. res = q
      BY <2>1, <3>1
    <3> HIDE DEF q, res
    <3>5. {q[a] : a \in DOMAIN q} = {r[a] : a \in DOMAIN r} \cup {c}
      <4>1. \A x : x \in {q[a] : a \in DOMAIN q} => x \in {r[a] : a \in DOMAIN r} \cup {c}
        <5>1. \A a \in 1 .. n + 1 : a \in 1 .. n \/ a = n + 1
          BY <3>2
        <5> QED
          BY <3>3, <5>1
      <4>2. \A x : x \in {r[a] : a \in DOMAIN r} \cup {c} => x \in {q[a] : a \in DOMAIN q}
        <5>1. n + 1 \in DOMAIN q /\ \A a \in 1 .. n : a \in DOMAIN q
          BY <3>2, <3>3
        <5> QED
          BY <3>3, <5>1
      <4> QED
        BY <4>1, <4>2
    <3>6. \A a, b \in DOMAIN q : a < b => Precedes(q[a], q[b])
      <4> SUFFICES ASSUME NEW a \in 1 .. n + 1, NEW b \in 1 .. n + 1, a < b
                   PROVE  Precedes(q[a], q[b])
        BY <3>3
      <4>1. a \in 1 .. n /\ (b \in 1 .. n \/ b = n + 1)
        BY <3>2
      <4>2. CASE b \in 1 .. n
        BY <1>8, <3>1, <3>3, <4>1, <4>2
      <4>3. CASE b = n + 1
        BY <1>8, <3>1, <3>3, <4>1, <4>3
      <4> QED
        BY <4>1, <4>2, <4>3
    <3>7. {res[a] : a \in DOMAIN res} = {q[a] : a \in DOMAIN q}
      BY <3>4
    <3>8. {s.res[a] : a \in DOMAIN s.res} = {r[a] : a \in DOMAIN r}
      BY <3>1
    <3>9. \A a, b \in DOMAIN res : a < b => Precedes(res[a], res[b])
      BY <3>4, <3>6
    <3>10. res \in Seq(Nat)
      BY <3>3, <3>4
    <3>11. {res[a] : a \in DOMAIN res} = {s.res[a] : a \in DOMAIN s.res} \cup {c}
      BY <3>5, <3>7, <3>8
    <3> QED
      BY <2>1, <3>9, <3>10, <3>11
  <2>2. CASE key[c] \notin W
    BY <1>2, <1>8, <2>2
  <2> QED
    BY <2>1, <2>2
<1>10. t = [s EXCEPT !.res = res, !.curr = y]
  BY <1>1, <1>6
<1> HIDE DEF res
<1>11. /\ t \in Searches /\ t.query = s.query /\ t.res = res /\ t.known = s.known
       /\ t.curr = y /\ t.do = "scan"
  BY <1>1, <1>2, <1>5, <1>9, <1>10 DEF Searches
<1> DEFINE new == [k \in W |-> IF k <= key[c] THEN upTo[k] ELSE Seen]
<1>12. /\ key[c] \in Nat /\ \A k \in W : k \in Nat /\ upTo[k] \in Nat /\ upTo[k] <= Seen /\ s.known <= upTo[k]
  BY <1>2, <1>4, <1>6, <1>7
<1>13. new \in [W -> s.known .. Seen]
  BY <1>2, <1>3, <1>4, <1>12
<1>14. /\ \A k \in W : k <= key[c] => new[k] = upTo[k]
       /\ \A k \in W : ~ (k <= key[c]) => new[k] = Seen
  OBVIOUS
<1> HIDE DEF new
<1>15. \A k, l \in W : k < l => new[k] <= new[l]
  <2> SUFFICES ASSUME NEW k \in W, NEW l \in W, k < l PROVE new[k] <= new[l]
    OBVIOUS
  <2>1. CASE l <= key[c]
    BY <1>7, <1>12, <1>14, <2>1
  <2>2. CASE ~ (l <= key[c])
    <3>1. new[k] \in s.known .. Seen
      BY <1>13
    <3> QED
      BY <1>2, <1>4, <1>14, <2>2, <3>1
  <2> QED
    BY <2>1, <2>2
<1>16. ASSUME NEW i \in 1 .. Seen
       PROVE  /\ Passed(t, i) <=> (i = c \/ Passed(s, i))
              /\ i = c \/ Passed(s, i) => key[i] <= key[c]
  <2>1. Passed(t, i) <=> (i = c \/ Precedes(i, c))
    BY <1>4, <1>11, PassedAfter DEF Passed
  <2>2. Passed(s, i) <=> Precedes(i, c)
    BY <1>1 DEF Passed
  <2>3. key[i] \in Nat /\ key[c] \in Nat
    BY <1>4
  <2> QED
    BY <1>4, <2>1, <2>2, <2>3, LinkedType DEF Precedes
<1>17. {t.res[a] : a \in DOMAIN t.res} =
         {i \in 1 .. Seen : key[i] \in W /\ i <= new[key[i]] /\ Passed(t, i)}
  <2> DEFINE A == {i \in 1 .. Seen : key[i] \in W /\ i <= upTo[key[i]] /\ Passed(s, i)}
             B == {i \in 1 .. Seen : key[i] \in W /\ i <= new[key[i]] /\ Passed(t, i)}
  <2>1. \A i : i \in B <=> i \in A \/ (i = c /\ key[c] \in W)
    <3> SUFFICES ASSUME NEW i \in 1 .. Seen
                 PROVE  i \in B <=> i \in A \/ (i = c /\ key[c] \in W)
      BY <1>4
    <3>1. CASE i = c
      BY <1>7, <1>12, <1>14, <1>16, <3>1
    <3>2. CASE i # c
      BY <1>12, <1>14, <1>16, <3>2
    <3> QED
      BY <3>1, <3>2
  <2>2. B = A \cup (IF key[c] \in W THEN {c} ELSE {})
    <3> HIDE DEF A, B
    <3> QED
      BY <2>1
  <2>3. {s.res[a] : a \in DOMAIN s.res} = A
    BY <1>7
  <2>4. {t.res[a] : a \in DOMAIN t.res} = {res[a] : a \in DOMAIN res}
    BY <1>11
  <2>5. {t.res[a] : a \in DOMAIN t.res} = B
    <3> HIDE DEF A, B
    <3> QED
      BY <1>9, <2>2, <2>3, <2>4
  <2> QED
    BY <2>5
<1>18. y # None /\ key[y] \in W => y <= new[key[y]]
  <2> SUFFICES ASSUME y # None, key[y] \in W PROVE y <= new[key[y]]
    OBVIOUS
  <2>1. y \in 1 .. Seen /\ key[y] \in Nat /\ key[c] \in Nat /\ Precedes(c, y)
    BY <1>4, <1>5
  <2>2. CASE key[y] <= key[c]
    <3>1. key[y] = key[c] /\ y < c
      BY <1>4, <2>1, <2>2, LinkedType DEF Precedes
    <3> QED
      BY <1>4, <1>7, <1>12, <1>14, <2>1, <2>2, <3>1
  <2>3. CASE ~ (key[y] <= key[c])
    BY <1>4, <1>14, <2>1, <2>3
  <2> QED
    BY <2>2, <2>3
<1>19. Moments(t, new)
  BY <1>11, <1>13, <1>15, <1>17, <1>18 DEF Moments, W
<1>20. Scans(t)
  BY <1>5, <1>9, <1>11, <1>19 DEF Scans
<1>21. Types'
  BY <1>1, <1>11 DEF Types
<1> QED
  BY <1>1, <1>3, <1>11, <1>20, <1>21, ListKept, NoneAssumption DEF SearchInv, Continues

(* With the answer the search is over. *)
LEMMA ReturnStep ==
  ASSUME Types, LevelsInv, InsInv, SearchInv, Return
  PROVE  Types' /\ SearchInv'
<1>1. /\ search # None /\ answer' = search.res /\ search' = None
      /\ UNCHANGED <<key, next, level, nodeNum, ins>>
  BY DEF Return
<1>2. search.res \in Seq(Nat)
  BY <1>1 DEF Types, Searches
<1> QED
  BY <1>1, <1>2 DEF Types, SearchInv

-----------------------------------------------------------------------------
(* The invariant. *)

IInv == Types /\ LevelsInv /\ InsInv /\ SearchInv

LEMMA InitInv == Init => IInv
<1> SUFFICES ASSUME Init PROVE IInv
  OBVIOUS
<1>1. /\ key = <<>> /\ next = [n \in {head} |-> [i \in Levels |-> None]]
      /\ level = 0 /\ nodeNum = 0 /\ ins = None /\ search = None /\ answer = <<>>
  BY DEF Init
<1> DEFINE tower == [i \in Levels |-> None]
<1>2. /\ tower \in Seq(Nat \cup {None}) /\ Len(tower) = MaxLevel /\ MaxLevel \in Levels
      /\ MaxLevel \in Nat
  BY ListAssumption, IsASeq DEF Levels
<1>3. tower \in Towers
  BY <1>2 DEF Towers
<1>4. next[head] = tower /\ DOMAIN next = {head}
  BY <1>1
<1> HIDE DEF tower
<1>5. /\ key \in Seq(Keys) /\ Len(key) = 0 /\ 0 .. Len(key) = {head}
  BY <1>1 DEF head
<1>6. next \in [0 .. Len(key) -> Towers]
  BY <1>1, <1>3, <1>5 DEF tower
<1>7. Types
  BY <1>1, <1>2, <1>4, <1>5, <1>6 DEF Types
<1>8. \A i \in Levels : Linked(i) = {} /\ next[head][i] = None
  BY <1>1, <1>4 DEF Linked, Nodes, tower
<1>9. LevelsInv
  BY <1>8 DEF LevelsInv, IsLast
<1> QED
  BY <1>1, <1>7, <1>9 DEF IInv, InsInv, SearchInv

LEMMA NextInv == IInv /\ [Next]_vars => IInv'
<1> SUFFICES ASSUME Types, LevelsInv, InsInv, SearchInv, [Next]_vars
             PROVE  Types' /\ LevelsInv' /\ InsInv' /\ SearchInv'
  BY DEF IInv
<1>1. ASSUME NEW k \in Keys, Insert(k)
      PROVE  Types' /\ LevelsInv' /\ InsInv' /\ SearchInv'
  BY <1>1, InsertStep, InsertingKeeps
<1>2. CASE Link
  BY <1>2, LinkStep, InsertingKeeps
<1>3. CASE Publish
  BY <1>3, PublishStep, InsertingKeeps
<1>4. CASE Raise
  BY <1>4, RaiseStep, InsertingKeeps
<1>5. ASSUME NEW q \in Queries, Begin(q)
      PROVE  Types' /\ LevelsInv' /\ InsInv' /\ SearchInv'
  <2>1. UNCHANGED <<key, next, level, nodeNum, ins>>
    BY <1>5 DEF Begin
  <2> QED
    BY <1>5, <2>1, BeginStep, ListKept
<1>6. CASE Test \/ Compare \/ Move
  <2>1. UNCHANGED <<key, next, level, nodeNum, ins>>
    BY <1>6 DEF Test, Compare, Move, Go
  <2> QED
    BY <1>6, <2>1, LevelStep, ListKept
<1>7. CASE BeginScan
  <2>1. UNCHANGED <<key, next, level, nodeNum, ins>>
    BY <1>7 DEF BeginScan, Go
  <2> QED
    BY <1>7, <2>1, BeginScanStep, ListKept
<1>8. CASE Scan
  <2>1. UNCHANGED <<key, next, level, nodeNum, ins>>
    BY <1>8 DEF Scan, Go
  <2> QED
    BY <1>8, <2>1, ScanStep, ListKept
<1>9. CASE Return
  <2>1. UNCHANGED <<key, next, level, nodeNum, ins>>
    BY <1>9 DEF Return
  <2> QED
    BY <1>9, <2>1, ReturnStep, ListKept
<1>10. CASE UNCHANGED vars
  <2>1. UNCHANGED <<key, next, level, nodeNum, ins>> /\ UNCHANGED <<search, answer>>
    BY <1>10 DEF vars
  <2>2. Types'
    BY <2>1 DEF Types
  <2>3. SearchInv'
    BY <2>1, ListKept DEF SearchInv
  <2> QED
    BY <2>1, <2>2, <2>3, ListKept
<1> QED
  BY <1>1, <1>2, <1>3, <1>4, <1>5, <1>6, <1>7, <1>8, <1>9, <1>10 DEF Next, Searching

LEMMA InvAlways == Spec => []IInv
<1> QED
  BY InitInv, NextInv, PTL DEF Spec

(* Every variable keeps its type: a node has between one and all levels,   *)
(* its pointers lead to nodes, and nothing but keys is inserted.           *)
THEOREM ListTypes == Spec => []Types
<1>1. IInv => Types
  BY DEF IInv
<1> QED
  BY <1>1, InvAlways, PTL

(* For any keys, levels and number of nodes, and wherever insertion and    *)
(* search are: the pointers of a level lead in order through the nodes it  *)
(* has been linked with, and a search stands at one of them, not beyond    *)
(* what it looks for (insert, findByKey and findByRange of the skip list). *)
THEOREM LevelsAlwaysSorted == Spec => []LevelsSorted
<1>1. ASSUME IInv
      PROVE  LevelsSorted
  <2>1. level \in 0 .. MaxLevel /\ nodeNum = Len(key)
    BY <1>1 DEF IInv, Types
  <2>2. ASSUME search # None, search.do # "scan", search.curr # head
        PROVE  /\ search.at > 0 => search.curr \in Linked(search.at)
               /\ search.curr \in Linked(1) /\ key[search.curr] < search.query.lo
    BY <1>1, <2>2 DEF IInv, SearchInv, Stands
  <2> QED
    BY <1>1, <2>1, <2>2 DEF IInv, LevelsInv, LevelsSorted
<1> QED
  BY <1>1, InvAlways, PTL

-----------------------------------------------------------------------------
(* The ordered list of entries that the skip list implements. *)

Entries == SubSeq(key, 1, Seen)
Asked == IF search = None THEN None
         ELSE [keys |-> Wanted(search.query), known |-> search.known]

(* The entries are the keys of the nodes that are seen. *)
LEMMA EntriesType ==
  ASSUME Types, InsInv
  PROVE  /\ Entries \in Seq(Keys) /\ Len(Entries) = Seen /\ DOMAIN Entries = 1 .. Seen
         /\ \A i \in 1 .. Seen : Entries[i] = key[i]
<1>1. Seen \in Nat /\ Seen <= Len(key) /\ key \in Seq(Keys)
  BY LinkedLowest DEF Types
<1> QED
  BY <1>1 DEF Entries

(* Beginnings of sequences. *)
LEMMA SameBeginning ==
  ASSUME NEW S, NEW s \in Seq(S), NEW t \in Seq(S), NEW n \in Nat,
         n <= Len(s), n <= Len(t), \A i \in 1 .. n : s[i] = t[i]
  PROVE  SubSeq(s, 1, n) = SubSeq(t, 1, n)
<1> DEFINE a == SubSeq(s, 1, n)
           b == SubSeq(t, 1, n)
<1>1. /\ a \in Seq(S) /\ Len(a) = n /\ \A i \in 1 .. n : a[i] = s[i]
  OBVIOUS
<1>2. /\ b \in Seq(S) /\ Len(b) = n /\ \A i \in 1 .. n : b[i] = t[i]
  OBVIOUS
<1> HIDE DEF a, b
<1>3. a = b
  BY <1>1, <1>2, SeqEqual
<1> QED
  BY <1>3 DEF a, b

LEMMA OneMore ==
  ASSUME NEW S, NEW s \in Seq(S), NEW n \in Nat, n + 1 <= Len(s)
  PROVE  SubSeq(s, 1, n + 1) = Append(SubSeq(s, 1, n), s[n + 1])
<1> DEFINE a == SubSeq(s, 1, n + 1)
           c == SubSeq(s, 1, n)
           b == Append(c, s[n + 1])
<1>1. /\ a \in Seq(S) /\ Len(a) = n + 1 /\ \A i \in 1 .. n + 1 : a[i] = s[i]
  OBVIOUS
<1>2. /\ c \in Seq(S) /\ Len(c) = n /\ \A i \in 1 .. n : c[i] = s[i]
  OBVIOUS
<1>3. s[n + 1] \in S
  OBVIOUS
<1> HIDE DEF a, c
<1>4. /\ b \in Seq(S) /\ Len(b) = n + 1 /\ \A i \in 1 .. n + 1 : b[i] = s[i]
  BY <1>2, <1>3
<1> HIDE DEF b
<1>5. a = b
  BY <1>1, <1>4, SeqEqual
<1> QED
  BY <1>5 DEF a, b, c

LEMMA ListInit == Init => List!Init
<1> SUFFICES ASSUME Init PROVE List!Init
  OBVIOUS
<1>1. key = <<>> /\ search = None /\ answer = <<>> /\ ins = None
  BY DEF Init
<1>2. Seen = 0
  BY <1>1 DEF Seen
<1>3. SubSeq(key, 1, Seen) = <<>>
  BY <1>1, <1>2
<1> QED
  BY <1>1, <1>3 DEF List!Init

ListStep == [List!Next]_List!vars

(* Steps that show nothing of themselves. *)
LEMMA ListStutters ==
  ASSUME Entries' = Entries, Asked' = Asked, answer' = answer
  PROVE  ListStep
BY DEF ListStep, List!vars, Entries, Asked

LEMMA InsertRefines ==
  ASSUME Types, LevelsInv, InsInv, NEW k \in Keys, Insert(k)
  PROVE  ListStep
<1>1. /\ Seen \in Nat /\ Seen <= Len(key) /\ key \in Seq(Keys) /\ Nodes = 0 .. Len(key)
      /\ Len(key) \in Nat
  BY LinkedLowest, NodeType DEF Types
<1>2. /\ \A n \in Nodes \ {head} : key'[n] = key[n]
      /\ Seen' = Seen
  BY InsertStep
<1>3. key' = Append(key, k) /\ search' = search /\ answer' = answer
  BY DEF Insert
<1>4. PICK s, n : s = Append(key, k) /\ n = Seen
  OBVIOUS
<1>5. s \in Seq(Keys) /\ n <= Len(s) /\ n \in Nat /\ n <= Len(key)
  BY <1>1, <1>4
<1>6. \A i \in 1 .. n : s[i] = key[i]
  BY <1>1, <1>4
<1>7. SubSeq(s, 1, n) = SubSeq(key, 1, n)
  BY <1>1, <1>5, <1>6, SameBeginning
<1>8. Entries' = Entries
  BY <1>2, <1>3, <1>4, <1>7 DEF Entries
<1>9. Asked' = Asked
  BY <1>3 DEF Asked
<1> QED
  BY <1>3, <1>8, <1>9, ListStutters

(* A pointer of the new node, or the level of the list: no entry appears. *)
LEMMA UnseenRefines ==
  ASSUME Types, LevelsInv, InsInv, Link \/ Raise
  PROVE  ListStep
<1>1. UNCHANGED <<key, search, answer>>
  BY DEF Link, Raise
<1>2. Seen' = Seen
  BY LinkStep, RaiseStep
<1>3. Entries' = Entries /\ Asked' = Asked
  BY <1>1, <1>2 DEF Entries, Asked
<1> QED
  BY <1>1, <1>3, ListStutters

LEMMA PublishRefines ==
  ASSUME Types, LevelsInv, InsInv, Publish
  PROVE  ListStep
<1>1. /\ Seen \in Nat /\ key \in Seq(Keys) /\ Len(key) \in Nat
  BY LinkedLowest, NodeType DEF Types
<1>2. UNCHANGED <<key, search, answer>>
  BY DEF Publish
<1>3. Asked' = Asked
  BY <1>2 DEF Asked
<1>4. Seen' = Seen \/ (Seen' = Seen + 1 /\ Seen' <= Len(key))
  BY PublishStep
<1>5. CASE Seen' = Seen
  <2>1. Entries' = Entries
    BY <1>2, <1>5 DEF Entries
  <2> QED
    BY <1>2, <1>3, <2>1, ListStutters
<1>6. CASE Seen' = Seen + 1 /\ Seen' <= Len(key)
  <2>1. PICK n \in Nat : n = Seen
    BY <1>1
  <2>2. SubSeq(key, 1, n + 1) = Append(SubSeq(key, 1, n), key[n + 1])
    BY <1>1, <1>6, <2>1, OneMore
  <2>3. Entries' = Append(Entries, key[n + 1])
    BY <1>2, <1>6, <2>1, <2>2 DEF Entries
  <2>4. key[n + 1] \in Keys
    BY <1>1, <1>6, <2>1
  <2>5. List!Insert(key[n + 1])
    BY <1>2, <1>3, <2>3 DEF List!Insert, Entries, Asked
  <2> QED
    BY <2>4, <2>5 DEF ListStep, List!Next
<1> QED
  BY <1>4, <1>5, <1>6

LEMMA BeginRefines ==
  ASSUME Types, LevelsInv, InsInv, NEW q \in Queries, Begin(q)
  PROVE  ListStep
<1>1. /\ search = None /\ UNCHANGED <<key, next, level, nodeNum, ins>> /\ answer' = <<>>
      /\ search' = [query |-> q, curr |-> head, at |-> level, res |-> <<>>,
                    do |-> "test", known |-> Seen]
  BY DEF Begin
<1>2. Entries' = Entries /\ Asked = None
  BY <1>1, ListKept DEF Entries, Asked
<1>3. PICK s : s = search'
  OBVIOUS
<1>4. /\ s.query = q /\ s.known = Seen /\ s \in Searches
  <2>1. Seen \in Nat /\ level \in Nat
    BY LinkedLowest, ListAssumption DEF Types
  <2> QED
    BY <1>1, <1>3, <2>1 DEF Searches, head
<1>5. Asked' = [keys |-> Wanted(q), known |-> Len(Entries)]
  <2>1. s # None
    BY <1>4, NoneAssumption
  <2> QED
    BY <1>3, <1>4, <2>1, EntriesType DEF Asked
<1>6. Wanted(q) \in SUBSET Keys
  <2>1. q.lo \in Keys
    BY DEF Queries
  <2> QED
    BY <2>1, WantedKeys
<1>7. List!Begin(Wanted(q))
  BY <1>1, <1>2, <1>5 DEF List!Begin, Entries, Asked
<1> QED
  BY <1>6, <1>7 DEF ListStep, List!Next

LEMMA ContinueRefines ==
  ASSUME Types, LevelsInv, InsInv, Continues, UNCHANGED <<key, next, level, nodeNum, ins>>
  PROVE  ListStep
<1>1. Entries' = Entries
  BY ListKept DEF Entries
<1>2. Asked' = Asked /\ answer' = answer
  BY DEF Asked, Continues
<1> QED
  BY <1>1, <1>2, ListStutters

(* The answer is what was there at the moments of the scan. *)
LEMMA ReturnRefines ==
  ASSUME Types, LevelsInv, InsInv, SearchInv, Return
  PROVE  ListStep
<1> PICK s, c, n : s = search /\ c = s.curr /\ n = Seen
  OBVIOUS
<1>1. /\ s # None /\ s.do = "scan" /\ (c # None => Beyond(s.query, key[c]))
      /\ answer' = s.res /\ search' = None
      /\ UNCHANGED <<key, next, level, nodeNum, ins>>
  BY DEF Return
<1>2. /\ s.query \in Queries /\ s.known \in Nat /\ s.res \in Seq(Nat)
  BY <1>1 DEF Types, Searches
<1>3. Scans(s) /\ s.known <= n
  BY <1>1 DEF SearchInv
<1>4. /\ n \in Nat /\ Linked(1) = 1 .. n
      /\ c # None => c \in Linked(1)
      /\ \A i \in Linked(1) : key[i] \in Keys /\ key[i] \in Nat /\ i \in Nat /\ i # head
  BY <1>1, <1>3, LinkedLowest, LinkedType, KeyType, NodeType DEF Scans
<1> DEFINE W == Wanted(s.query)
<1>5. c # None => \A k \in W : k < key[c]
  <2> SUFFICES ASSUME c # None PROVE \A k \in W : k < key[c]
    OBVIOUS
  <2>1. c \in Linked(1) /\ key[c] \in Keys
    BY <1>3, <1>4 DEF Scans
  <2> QED
    BY <1>1, <1>2, <2>1, WantedKeys
<1>6. W \subseteq Keys
  <2>1. s.query.lo \in Keys
    BY <1>2 DEF Queries
  <2> QED
    BY <1>2, <2>1, WantedKeys
<1> HIDE DEF W
<1>7. PICK upTo : /\ upTo \in [W -> s.known .. n]
                  /\ \A k, l \in W : k < l => upTo[k] <= upTo[l]
                  /\ {s.res[a] : a \in DOMAIN s.res} =
                       {i \in 1 .. n : key[i] \in W /\ i <= upTo[key[i]] /\ Passed(s, i)}
  BY <1>1, <1>3 DEF Scans, Moments, W
<1>8. \A i \in 1 .. n : key[i] \in W => Passed(s, i)
  <2> SUFFICES ASSUME NEW i \in 1 .. n, key[i] \in W, c # None PROVE Precedes(i, c)
    BY DEF Passed
  <2>1. key[i] < key[c] /\ c # head
    BY <1>3, <1>4, <1>5 DEF Scans
  <2> QED
    BY <2>1 DEF Precedes
<1>9. {s.res[a] : a \in DOMAIN s.res} = {i \in 1 .. n : key[i] \in W /\ i <= upTo[key[i]]}
  BY <1>7, <1>8
<1>10. /\ \A a, b \in DOMAIN s.res : a < b => Precedes(s.res[a], s.res[b])
       /\ \A a \in DOMAIN s.res : s.res[a] \in 1 .. n
  BY <1>3, <1>9 DEF Scans
<1>11. s.res \in Seq(1 .. n)
  <2> PICK r, l : r = s.res /\ l = Len(s.res)
    OBVIOUS
  <2>1. l \in Nat /\ DOMAIN r = 1 .. l /\ r = [a \in 1 .. l |-> r[a]]
    BY <1>2
  <2>2. \A a \in 1 .. l : r[a] \in 1 .. n
    BY <1>10, <2>1
  <2>3. r \in [1 .. l -> 1 .. n]
    BY <2>1, <2>2
  <2> QED
    BY <2>1, <2>3
<1>12. /\ Len(Entries) = n /\ DOMAIN Entries = 1 .. n /\ Entries' = Entries
       /\ \A i \in 1 .. n : Entries[i] = key[i]
  <2>1. Entries' = Entries
    BY <1>1, ListKept DEF Entries
  <2> QED
    BY <2>1, EntriesType
<1>13. Asked = [keys |-> W, known |-> s.known] /\ Asked' = None
  BY <1>1 DEF Asked, W
<1>14. \A a, b \in DOMAIN s.res : a < b =>
         \/ Entries[s.res[a]] < Entries[s.res[b]]
         \/ Entries[s.res[a]] = Entries[s.res[b]] /\ s.res[a] > s.res[b]
  <2> SUFFICES ASSUME NEW a \in DOMAIN s.res, NEW b \in DOMAIN s.res, a < b
               PROVE  \/ Entries[s.res[a]] < Entries[s.res[b]]
                      \/ Entries[s.res[a]] = Entries[s.res[b]] /\ s.res[a] > s.res[b]
    OBVIOUS
  <2> PICK x, y : x = s.res[a] /\ y = s.res[b]
    OBVIOUS
  <2>1. x \in 1 .. n /\ y \in 1 .. n /\ Precedes(x, y)
    BY <1>10
  <2>2. Entries[x] = key[x] /\ Entries[y] = key[y]
    BY <1>12, <2>1
  <2>3. x # head
    BY <1>4, <2>1
  <2> QED
    BY <2>1, <2>2, <2>3 DEF Precedes
<1>15. {s.res[a] : a \in DOMAIN s.res} =
         {i \in DOMAIN Entries : Entries[i] \in DOMAIN upTo /\ i <= upTo[Entries[i]]}
  BY <1>7, <1>9, <1>12
<1>16. List!Lists(s.res, upTo)
  BY <1>14, <1>15 DEF List!Lists, List!Precedes, Entries
<1>17. List!End
  <2>1. Asked # None
    <3>1. Asked \in [keys : SUBSET Keys, known : Nat]
      BY <1>2, <1>6, <1>13
    <3> QED
      BY <3>1, NoneAssumption
  <2>2. Asked.keys = W /\ Asked.known = s.known
    BY <1>13
  <2>3. answer' \in Seq(DOMAIN Entries) /\ List!Lists(answer', upTo)
    BY <1>1, <1>11, <1>12, <1>16
  <2>4. upTo \in [Asked.keys -> Asked.known .. Len(Entries)]
    BY <1>7, <1>12, <2>2
  <2> QED
    BY <1>7, <1>12, <1>13, <2>1, <2>2, <2>3, <2>4 DEF List!End, Entries, Asked
<1> QED
  BY <1>17 DEF ListStep, List!Next


(* Every step of insertion and search is one of the ordered list, or none. *)
LEMMA NextRefines == IInv /\ [Next]_vars => ListStep
<1> SUFFICES ASSUME Types, LevelsInv, InsInv, SearchInv, [Next]_vars
             PROVE  ListStep
  BY DEF IInv
<1>1. ASSUME NEW k \in Keys, Insert(k)
      PROVE  ListStep
  BY <1>1, InsertRefines
<1>2. CASE Link \/ Raise
  BY <1>2, UnseenRefines
<1>3. CASE Publish
  BY <1>3, PublishRefines
<1>5. ASSUME NEW q \in Queries, Begin(q)
      PROVE  ListStep
  BY <1>5, BeginRefines
<1>6. CASE Test \/ Compare \/ Move
  <2>1. UNCHANGED <<key, next, level, nodeNum, ins>>
    BY <1>6 DEF Test, Compare, Move, Go
  <2> QED
    BY <1>6, <2>1, LevelStep, ContinueRefines
<1>7. CASE BeginScan
  <2>1. UNCHANGED <<key, next, level, nodeNum, ins>>
    BY <1>7 DEF BeginScan, Go
  <2> QED
    BY <1>7, <2>1, BeginScanStep, ContinueRefines
<1>8. CASE Scan
  <2>1. UNCHANGED <<key, next, level, nodeNum, ins>>
    BY <1>8 DEF Scan, Go
  <2> QED
    BY <1>8, <2>1, ScanStep, ContinueRefines
<1>9. CASE Return
  BY <1>9, ReturnRefines
<1>10. CASE UNCHANGED vars
  <2>1. UNCHANGED <<key, next, level, nodeNum, ins>> /\ UNCHANGED <<search, answer>>
    BY <1>10 DEF vars
  <2>2. Entries' = Entries /\ Asked' = Asked
    BY <2>1, ListKept DEF Entries, Asked
  <2> QED
    BY <2>1, <2>2, ListStutters
<1> QED
  BY <1>1, <1>2, <1>3, <1>5, <1>6, <1>7, <1>8, <1>9, <1>10 DEF Next, Searching

(* For any keys, levels and number of nodes, however insertion and search  *)
(* interleave: the skip list is an ordered list of entries.  A search      *)
(* lists, keys ascending and the newest first, for each key what was there *)
(* at some moment of it, never an entry whose insertion was not seen and   *)
(* none twice (insert, findByKey and findByRange of the skip list).        *)
THEOREM SkipListIsAList == Spec => ImplementsList
<1>1. IInv /\ [Next]_vars => [List!Next]_List!vars
  BY NextRefines DEF ListStep
<1> QED
  BY <1>1, ListInit, InvAlways, PTL DEF Spec, ImplementsList, List!Spec
=============================================================================
