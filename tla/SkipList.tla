------------------------------ MODULE SkipList ------------------------------
(***************************************************************************)
(* The skip list of the memory index (src/src-old/lib/skipList.hpp): one   *)
(* thread inserts, another searches, and neither takes a lock.  Every read *)
(* and every write of a pointer is a step of its own; stores are seen in   *)
(* the order of the program, as the processors the build is for (x86-64)   *)
(* show plain stores the compiler has kept in order.                       *)
(*                                                                         *)
(* Node 0 is the head; the others are numbered as they are made, and the   *)
(* number stands for the value of the node.  Level i of the code is level  *)
(* i + 1 here.  Of two nodes with one key the newer comes first.           *)
(***************************************************************************)
EXTENDS Integers, Sequences, FiniteSets

CONSTANTS Keys,     \* keys, numbers
          MaxLevel, \* maxLevel
          MaxNode,  \* the bound insert is given
          None      \* no node, no search, no insertion

ASSUME ListAssumption == /\ Keys \subseteq Nat /\ MaxNode \in Nat
                         /\ MaxLevel \in Nat \ {0}
                         /\ None \notin Nat

VARIABLES key,    \* of each node but the head
          next,   \* per node and level: the following node, or None
          level,
          nodeNum,
          ins,    \* the insertion under way: node, update, level reached
          search, \* the search under way, or None
          answer  \* res of the last search, until the next begins

vars == <<key, next, level, nodeNum, ins, search, answer>>

(* findByKey and findByRange: what of the list is wanted.                  *)
Queries == [by : {"key"}, lo : Keys, hi : {0}] \cup
           [by : {"range"}, lo : Keys, hi : Keys]

Insertions == [node : Nat, update : Seq(Nat), at : Nat, do : {"link", "publish"}]
Searches == [query : Queries, curr : Nat \cup {None}, at : Nat, res : Seq(Nat),
             do : {"test", "compare", "move", "scan"}, known : Nat]

ASSUME NoneAssumption == /\ None \notin Insertions /\ None \notin Searches
                         /\ None \notin [keys : SUBSET Keys, known : Nat]

head == 0
Levels == 1 .. MaxLevel
Nodes == DOMAIN next

Init == /\ key = <<>>
        /\ next = [n \in {head} |-> [i \in Levels |-> None]]
        /\ level = 0
        /\ nodeNum = 0
        /\ ins = None
        /\ search = None
        /\ answer = <<>>
-----------------------------------------------------------------------------
(* The last node before key k at level i, looked for from node c.          *)
LastBefore(c, i, k) ==
  LET f[n \in {m \in Nodes : i \in DOMAIN next[m]}] ==
        IF next[n][i] = None THEN n
        ELSE IF key[next[n][i]] < k THEN f[next[n][i]] ELSE n
  IN  f[c]

(* Faulty variant: the search for the places starts anew from the first    *)
(* node that is not smaller at the level above.                            *)
UpdateBehind(top, k) ==
  LET u[i \in 1 .. top] ==
        LastBefore(IF i = top THEN head
                   ELSE IF next[u[i + 1]][i + 1] = None THEN u[i + 1]
                   ELSE next[u[i + 1]][i + 1], i, k)
  IN  u

(* update: for each level the node the new one goes behind.                *)
Update(top, k) ==
  LET u[i \in 1 .. top] ==
        LastBefore(IF i = top THEN head ELSE u[i + 1], i, k)
  IN  u

(* insert: a node of a random level is made and its places are found; only *)
(* the inserting thread changes what is read here.  It is refused when the *)
(* number of nodes before it exceeds maxNode.                              *)
Insert(k) ==
  /\ ins = None
  /\ nodeNum <= MaxNode
  /\ \E newLevel \in Levels :
       LET n == Len(key) + 1
           top == IF level > newLevel THEN level ELSE newLevel
       IN  /\ key' = Append(key, k)
           /\ next' = [m \in Nodes \cup {n} |->
                        IF m = n THEN [i \in 1 .. newLevel |-> None] ELSE next[m]]
           /\ ins' = [node |-> n, update |-> Update(top, k), at |-> 1, do |-> "link"]
  /\ nodeNum' = nodeNum + 1
  /\ UNCHANGED <<level, search, answer>>

(* Faulty variant: the node is linked with the node before it first.       *)
LinkPublished ==
  /\ ins # None
  /\ ins.at <= Len(next[ins.node]) /\ ins.do = "link"
  /\ next' = [next EXCEPT ![ins.update[ins.at]][ins.at] = ins.node]
  /\ ins' = [ins EXCEPT !.do = "publish"]
  /\ UNCHANGED <<key, level, nodeNum, search, answer>>

(* putNext(newNode, i, getNext(update[i], i)) *)
Link ==
  /\ ins # None
  /\ ins.at <= Len(next[ins.node]) /\ ins.do = "link"
  /\ next' = [next EXCEPT ![ins.node][ins.at] = next[ins.update[ins.at]][ins.at]]
  /\ ins' = [ins EXCEPT !.do = "publish"]
  /\ UNCHANGED <<key, level, nodeNum, search, answer>>

(* putNext(update[i], i, newNode) *)
Publish ==
  /\ ins # None
  /\ ins.do = "publish"
  /\ next' = [next EXCEPT ![ins.update[ins.at]][ins.at] = ins.node]
  /\ ins' = [ins EXCEPT !.at = @ + 1, !.do = "link"]
  /\ UNCHANGED <<key, level, nodeNum, search, answer>>

(* The level of the list follows when all levels of the node are linked.   *)
Raise ==
  /\ ins # None
  /\ ins.at > Len(next[ins.node])
  /\ level' = IF level < Len(next[ins.node]) THEN Len(next[ins.node]) ELSE level
  /\ ins' = None
  /\ UNCHANGED <<key, next, nodeNum, search, answer>>
-----------------------------------------------------------------------------
(* What a search wants, and where its scan ends: a range excludes its end. *)
Wanted(q) == IF q.by = "key" THEN {q.lo} ELSE {k \in Keys : q.lo <= k /\ k < q.hi}
Beyond(q, k) == IF q.by = "key" THEN k > q.lo ELSE k >= q.hi

(* Insertions are seen as a whole when the lowest level has the node.       *)
Seen == Len(key) - (IF ins # None /\ ins.at = 1 THEN 1 ELSE 0)

Begin(q) ==
  /\ search = None
  /\ search' = [query |-> q, curr |-> head, at |-> level, res |-> <<>>,
                do |-> "test", known |-> Seen]
  /\ answer' = <<>>
  /\ UNCHANGED <<key, next, level, nodeNum, ins>>

Following == next[search.curr][search.at]
Go(s) == search' = s /\ UNCHANGED <<key, next, level, nodeNum, ins, answer>>

(* getNext(curr, i) != nullptr *)
Test == /\ search # None
        /\ search.do = "test" /\ search.at > 0
        /\ Go(IF Following = None THEN [search EXCEPT !.at = @ - 1]
              ELSE [search EXCEPT !.do = "compare"])

(* compareNodeKey(getNext(curr, i), key) < 0: the pointer is read again.    *)
Compare == /\ search # None
           /\ search.do = "compare"
           /\ Go(IF key[Following] < search.query.lo THEN [search EXCEPT !.do = "move"]
                 ELSE [search EXCEPT !.at = @ - 1, !.do = "test"])

(* curr = getNext(curr, i): and again.                                     *)
Move == /\ search # None
        /\ search.do = "move"
        /\ Go([search EXCEPT !.curr = Following, !.do = "test"])

(* beginNode = getNext(curr, 0) *)
BeginScan == /\ search # None
             /\ search.do = "test" /\ search.at = 0
             /\ Go([search EXCEPT !.curr = next[search.curr][1], !.do = "scan"])

(* Faulty variant: a smaller node is passed without going to the next.      *)
ScanWaiting ==
  /\ search # None
  /\ search.do = "scan" /\ search.curr # None
  /\ ~ Beyond(search.query, key[search.curr])
  /\ Go(IF key[search.curr] < search.query.lo THEN search
        ELSE [search EXCEPT !.res = Append(@, search.curr),
                            !.curr = next[search.curr][1]])

(* A node of the scan is passed if smaller, else listed; then the next.     *)
Scan == /\ search # None
        /\ search.do = "scan" /\ search.curr # None
        /\ ~ Beyond(search.query, key[search.curr])
        /\ Go([search EXCEPT
                 !.res = IF key[search.curr] < search.query.lo THEN @
                         ELSE Append(@, search.curr),
                 !.curr = next[search.curr][1]])

Return == /\ search # None
          /\ search.do = "scan"
          /\ search.curr # None => Beyond(search.query, key[search.curr])
          /\ answer' = search.res
          /\ search' = None
          /\ UNCHANGED <<key, next, level, nodeNum, ins>>

Searching == Test \/ Compare \/ Move \/ BeginScan \/ Scan \/ Return

Next == \/ \E k \in Keys : Insert(k)
        \/ Link \/ Publish \/ Raise
        \/ \E q \in Queries : Begin(q)
        \/ Searching

(* A searching thread runs on; the inserting one may stop where it is.      *)
Spec == Init /\ [][Next]_vars /\ WF_vars(Searching)
-----------------------------------------------------------------------------
(* The nodes a level has been linked with. *)
Linked(i) == {n \in Nodes \ {head} : i \in DOMAIN next[n] /\
                ~ (ins # None /\ ins.node = n /\ i >= ins.at)}

(* The order of a level: the head, then by key, of equal ones the newer.   *)
Precedes(m, n) == n # head /\ (m = head \/ key[m] < key[n] \/ (key[m] = key[n] /\ m > n))

IsLast(i, m) == \A n \in Linked(i) : ~ Precedes(m, n)

IsNext(i, m, n) == /\ n \in Linked(i) /\ Precedes(m, n)
                   /\ \A o \in Linked(i) : Precedes(m, o) => o = n \/ Precedes(n, o)

(* Whatever an insertion has reached, the pointers of a level lead from    *)
(* the head through all nodes the level has been linked with, in the order *)
(* of their keys, of equal ones the newer first, and through no other.     *)
(* Whoever is under way through the levels stands at such a node of the    *)
(* level it reads, and never beyond what it looks for.                     *)
LevelsSorted ==
  /\ level \in 0 .. MaxLevel /\ nodeNum = Len(key)
  /\ \A i \in Levels : \A m \in Linked(i) \cup {head} :
       IF next[m][i] = None THEN IsLast(i, m) ELSE IsNext(i, m, next[m][i])
  /\ search # None /\ search.do # "scan" /\ search.curr # head =>
       /\ search.at > 0 => search.curr \in Linked(search.at)
       /\ search.curr \in Linked(1) /\ key[search.curr] < search.query.lo

(* A search answers as an ordered list of entries promises: it lists every *)
(* entry whose insertion was over when it began, none twice, none that was *)
(* never made, and of each key what was there at one moment.               *)
List == INSTANCE IndexList WITH
  entries <- SubSeq(key, 1, Seen),
  search <- IF search = None THEN None
            ELSE [keys |-> Wanted(search.query), known |-> search.known]

ImplementsList == List!Spec

(* A search ends, though the inserting thread may stop between any two of  *)
(* its writes.                                                             *)
SearchEnds == [](search # None => <>(search = None))
=============================================================================
