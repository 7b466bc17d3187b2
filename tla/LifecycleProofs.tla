--------------------------- MODULE LifecycleProofs --------------------------
(* Proofs about Lifecycle: nothing is deleted while a thread runs, and no  *)
(* signal vanishes whenever the node is stopped.  The second is about sums *)
(* over the components, which are recursive functions: what a sum becomes  *)
(* when one summand changes is proved by induction.                        *)
EXTENDS Lifecycle, Integers, WellFoundedInduction, TLAPS

-----------------------------------------------------------------------------
(* Induction over the natural numbers, and what it says of functions       *)
(* defined by recursion.  A property is stated as the set of numbers that  *)
(* have it, and the step of a recursion is a function, so that each use    *)
(* cites a fact about sets.                                                *)

(* A set of natural numbers has a least one. *)
LEMMA Least ==
  ASSUME NEW T, T \subseteq Nat, T # {}
  PROVE  \E x \in T : \A y \in T : x <= y
<1> DEFINE R == {p \in Nat \X Nat : p[1] < p[2]}
<1>1. IsWellFoundedOn(R, Nat)
  BY NatLessThanWellFounded DEF OpToRel
<1>2. \A x, y \in Nat : y < x => <<y, x>> \in R
  OBVIOUS
<1> HIDE DEF R
<1>3. PICK x \in T : \A y \in T : ~(<<y, x>> \in R)
  BY <1>1, WFMin
<1>4. \A y \in T : ~(y < x)
  BY <1>2, <1>3
<1> QED
  BY <1>4

(* What holds of 0 and of the successor of each number it holds of, holds  *)
(* of all of them.                                                         *)
LEMMA NatInSet ==
  ASSUME NEW S, 0 \in S, \A n \in Nat : n \in S => n + 1 \in S
  PROVE  \A n \in Nat : n \in S
<1> DEFINE T == {n \in Nat : n \notin S}
<1> SUFFICES ASSUME T # {} PROVE FALSE
  OBVIOUS
<1>1. T \subseteq Nat
  OBVIOUS
<1>2. PICK x \in T : \A y \in T : x <= y
  <2> HIDE DEF T
  <2> QED
    BY <1>1, Least
<1>3. x # 0
  OBVIOUS
<1>4. x - 1 \in Nat /\ x - 1 \notin T /\ (x - 1) + 1 = x
  BY <1>2, <1>3
<1> QED
  BY <1>4

(* f is what recursion over 1 .. n makes of its first value c and its step.*)
Recurs(f, n, c, step) ==
  f = [i \in 0 .. n |-> IF i = 0 THEN c ELSE step[<<i, f[i - 1]>>]]

(* There is such a function. *)
LEMMA RecursionDefines ==
  ASSUME NEW n \in Nat, NEW T, NEW c \in T, NEW step \in [(1 .. n) \X T -> T]
  PROVE  \E f \in [0 .. n -> T] : Recurs(f, n, c, step)
<1> DEFINE Upto(m, f) == f[0] = c /\ \A i \in 1 .. m : f[i] = step[<<i, f[i - 1]>>]
           S == {m \in Nat : m <= n => \E f \in [0 .. m -> T] : Upto(m, f)}
<1>1. 0 \in S
  <2>1. [i \in 0 .. 0 |-> c] \in [0 .. 0 -> T] /\ Upto(0, [i \in 0 .. 0 |-> c])
    OBVIOUS
  <2> HIDE DEF Upto
  <2> QED
    BY <2>1
<1>2. ASSUME NEW m \in Nat, m \in S
      PROVE  m + 1 \in S
  <2> SUFFICES ASSUME m + 1 <= n
               PROVE  \E f \in [0 .. m + 1 -> T] : Upto(m + 1, f)
    OBVIOUS
  <2>1. PICK g \in [0 .. m -> T] : Upto(m, g)
    BY <1>2
  <2> DEFINE x == step[<<m + 1, g[m]>>]
             f == [i \in 0 .. m + 1 |-> IF i = m + 1 THEN x ELSE g[i]]
  <2>2. x \in T
    <3>1. m + 1 \in 1 .. n /\ g[m] \in T
      OBVIOUS
    <3> QED
      BY <3>1
  <2>3. f \in [0 .. m + 1 -> T]
    BY <2>2
  <2>4. /\ f[0] = g[0] /\ f[m + 1] = x
        /\ \A i \in 1 .. m : f[i] = g[i] /\ f[i - 1] = g[i - 1]
        /\ f[(m + 1) - 1] = g[m]
    OBVIOUS
  <2>5. \A i \in 1 .. m + 1 : i \in 1 .. m \/ i = m + 1
    OBVIOUS
  <2>6. Upto(m + 1, f)
    <3> HIDE DEF f
    <3> QED
      BY <2>1, <2>4, <2>5
  <2> QED
    BY <2>3, <2>6
<1>3. n \in S
  <2> HIDE DEF S
  <2> QED
    BY <1>1, <1>2, NatInSet
<1>4. PICK f \in [0 .. n -> T] : Upto(n, f)
  BY <1>3
<1>5. \A i \in 0 .. n : f[i] = IF i = 0 THEN c ELSE step[<<i, f[i - 1]>>]
  BY <1>4
<1> QED
  BY <1>5 DEF Recurs

(* g begins with c and goes on by the step up to n, as long as its values  *)
(* are in T.                                                               *)
Follows(g, n, T, c, step) ==
  /\ g[0] = c
  /\ \A i \in 1 .. n : g[i - 1] \in T => g[i] = step[<<i, g[i - 1]>>]

(* Then all of them are. *)
LEMMA RecursionType ==
  ASSUME NEW n \in Nat, NEW T, NEW c \in T, NEW step \in [(1 .. n) \X T -> T],
         NEW g, Follows(g, n, T, c, step)
  PROVE  \A i \in 0 .. n : g[i] \in T
<1> DEFINE S == {i \in Nat : i <= n => g[i] \in T}
<1>1. 0 \in S
  BY DEF Follows
<1>2. ASSUME NEW i \in Nat, i \in S
      PROVE  i + 1 \in S
  <2> SUFFICES ASSUME i + 1 <= n
               PROVE  g[i + 1] \in T
    OBVIOUS
  <2>1. g[i] \in T /\ i + 1 \in 1 .. n /\ (i + 1) - 1 = i
    BY <1>2
  <2>2. step[<<i + 1, g[i]>>] \in T
    BY <2>1
  <2> QED
    BY <2>1, <2>2 DEF Follows
<1>3. \A i \in Nat : i \in S
  <2> HIDE DEF S
  <2> QED
    BY <1>1, <1>2, NatInSet
<1> QED
  BY <1>3

-----------------------------------------------------------------------------
(* What is true of main and the threads between two steps: the threads     *)
(* created so far are those from next + 1 on while main is in run, all of  *)
(* them afterwards; those that main has joined have ended.                 *)
Joined ==
  /\ main \in {"run", "wait", "stop", "join", "clean", "exited", "crashed"}
  /\ next \in Components
  /\ pc \in [Components -> {"none", "spawned", "loop", "get", "put", "store", "done"}]
  /\ main = "run" => \A c \in Components : c <= next => pc[c] = "none"
  /\ main = "join" => \A c \in Components : c > next => pc[c] = "done"
  /\ main \in {"clean", "exited"} => \A c \in Components : pc[c] = "done"

(* There are components, the first and the last among them.                *)
LEMMA SomeComponents == /\ N \in Nat /\ N > 3
                        /\ Components \subseteq Nat
                        /\ 1 \in Components /\ N \in Components
BY LifecycleAssumption DEF N, Components

(* Initially no thread has been created.                                   *)
LEMMA JoinedInit == Init => Joined
BY SomeComponents DEF Init, Joined

(* A step of a thread neither revives one that has ended nor creates one,  *)
(* and leaves main alone, unless the process dies.                         *)
LEMMA ThreadStep ==
  ASSUME Joined, NEW c \in Components, Thread(c)
  PROVE  /\ main' \in {main, "crashed"} /\ UNCHANGED next
         /\ pc[c] # "none" /\ pc[c] # "done"
         /\ \/ \E x \in {"loop", "get", "put", "store", "done"} : pc' = [pc EXCEPT ![c] = x]
            \/ UNCHANGED pc
<1> USE SomeComponents DEF Server, Engine, Workers, Flusher, Joined, threads
<1>1. CASE Start(c)
  BY <1>1 DEF Start
<1>2. CASE Leave(c) \/ Test(c) \/ GetNothing(c)
  BY <1>2 DEF Leave, Test, GetNothing
<1>3. CASE Put(c)
  BY <1>3 DEF Put
<1>4. CASE c = Server /\ ServerReads
  BY <1>4 DEF ServerReads, PutFor
<1>5. CASE c = Server /\ ServerEnds
  BY <1>5 DEF ServerEnds
<1>6. CASE c = Engine /\ EngineTakes
  BY <1>6 DEF EngineTakes, Take, PutFor
<1>7. CASE c \in Workers /\ WorkerHandles(c)
  BY <1>7 DEF WorkerHandles, Take
<1>8. CASE c \in Workers /\ WorkerFlushes(c)
  BY <1>8 DEF WorkerFlushes, Take, PutFor
<1>9. CASE c \in Workers /\ (WaitForRoom(c) \/ Store(c))
  BY <1>9 DEF WaitForRoom, Store
<1>10. CASE c = Flusher /\ (FlusherFlushes \/ FlusherMisses)
  BY <1>10 DEF FlusherFlushes, FlusherMisses, Take
<1> QED
  BY <1>1, <1>2, <1>3, <1>4, <1>5, <1>6, <1>7, <1>8, <1>9, <1>10 DEF Thread, Step

(* Every step keeps Joined.                                                *)
LEMMA JoinedStep == Joined /\ [Next]_vars => Joined'
<1> SUFFICES ASSUME Joined, [Next]_vars PROVE Joined'
  OBVIOUS
<1> USE SomeComponents
<1>1. CASE Run
  <2>1. CASE next = 1
    BY <1>1, <2>1 DEF Run, Joined
  <2>2. CASE next # 1
    <3>1. next - 1 \in Components
      BY <2>2 DEF Joined, Components
    <3> QED
      BY <1>1, <2>2, <3>1 DEF Run, Joined
  <2> QED
    BY <2>1, <2>2
<1>2. CASE Quit
  BY <1>2 DEF Quit, Joined, threads
<1>3. CASE Stop
  <2>1. CASE next = N
    BY <1>3, <2>1 DEF Stop, Joined, threads, Components
  <2>2. CASE next # N
    <3>1. next + 1 \in Components
      BY <2>2 DEF Joined, Components
    <3> QED
      BY <1>3, <2>2, <3>1 DEF Stop, Joined, threads
  <2> QED
    BY <2>1, <2>2
<1>4. CASE Join
  <2>1. CASE next = 1
    BY <1>4, <2>1 DEF Join, Joined, threads, Components
  <2>2. CASE next # 1
    <3>1. next - 1 \in Components
      BY <2>2 DEF Joined, Components
    <3>2. \A c \in Components : c > next - 1 => c > next \/ c = next
      BY DEF Joined, Components
    <3> QED
      BY <1>4, <2>2, <3>1, <3>2 DEF Join, Joined, threads
  <2> QED
    BY <2>1, <2>2
<1>5. CASE Clean
  BY <1>5 DEF Clean, Joined, threads
<1>6. CASE ClientsClose
  BY <1>6 DEF ClientsClose, Joined, threads
<1>7. CASE \E c \in Components : Thread(c)
  <2>1. PICK c \in Components : Thread(c)
    BY <1>7
  <2> QED
    BY <2>1, ThreadStep DEF Joined
<1>8. CASE UNCHANGED vars
  BY <1>8 DEF vars, threads, Joined
<1> QED
  BY <1>1, <1>2, <1>3, <1>4, <1>5, <1>6, <1>7, <1>8 DEF Next, Main

(* main's place in the join loop separates the threads that have ended     *)
(* from those still waited for, in every state (DataNode::run, stop).      *)
THEOREM JoinOrder == Spec => []Joined
BY JoinedInit, JoinedStep, PTL DEF Spec

(* Pipes and components are deleted only when no thread can touch them any *)
(* more, however many workers there are and whenever q is entered          *)
(* (DataNode::stop, clean).                                                *)
THEOREM CleanAfterJoin == Spec => []CleanedWhenQuiet
<1>1. Joined => CleanedWhenQuiet
  BY DEF Joined, CleanedWhenQuiet
<1> QED
  BY <1>1, JoinOrder, PTL
-----------------------------------------------------------------------------
(* Sums over the components. *)
Summands == [Components -> Nat]

SumFcn(f) ==
  CHOOSE sum : sum = [i \in 0 .. N |-> IF i = 0 THEN 0 ELSE sum[i - 1] + f[i]]

AddNext(f) == [p \in (1 .. N) \X Nat |-> p[2] + f[p[1]]]

(* The recursive function behind Total exists and satisfies its equations. *)
LEMMA SumDefined ==
  ASSUME NEW f \in Summands
  PROVE  /\ Total(f) = SumFcn(f)[N]
         /\ SumFcn(f)[0] = 0
         /\ \A i \in 1 .. N : SumFcn(f)[i] = SumFcn(f)[i - 1] + f[i]
         /\ \A i \in 0 .. N : SumFcn(f)[i] \in Nat
<1> DEFINE step == AddNext(f)
           Def(s) == s = [i \in 0 .. N |-> IF i = 0 THEN 0 ELSE s[i - 1] + f[i]]
<1>1. N \in Nat /\ 0 \in Nat /\ \A i \in 1 .. N : f[i] \in Nat
  BY SomeComponents DEF Summands, Components
<1>2. step \in [(1 .. N) \X Nat -> Nat]
  BY <1>1 DEF AddNext
<1>3. PICK s \in [0 .. N -> Nat] : Recurs(s, N, 0, step)
  <2> HIDE DEF step
  <2> QED
    BY <1>1, <1>2, RecursionDefines
<1>4. Def(s)
  <2>1. s[0] = 0
    BY <1>1, <1>3 DEF Recurs
  <2>2. ASSUME NEW i \in 1 .. N
        PROVE  s[i] = s[i - 1] + f[i]
    <3>1. s[i] = step[<<i, s[i - 1]>>]
      BY <1>1, <1>3 DEF Recurs
    <3>2. s[i - 1] \in Nat /\ <<i, s[i - 1]>> \in (1 .. N) \X Nat
      BY <1>1, <1>3
    <3> QED
      BY <3>1, <3>2 DEF AddNext
  <2>3. \A i \in 0 .. N : s[i] = IF i = 0 THEN 0 ELSE s[i - 1] + f[i]
    <3>1. \A i \in 0 .. N : i = 0 \/ i \in 1 .. N
      BY <1>1
    <3> QED
      BY <2>1, <2>2, <3>1
  <2> QED
    BY <2>3
<1>5. Def(SumFcn(f))
  <2>1. SumFcn(f) = CHOOSE g : Def(g)
    BY DEF SumFcn
  <2> HIDE DEF Def
  <2> QED
    BY <1>4, <2>1
<1> DEFINE g == SumFcn(f)
<1> HIDE DEF g
<1>6. g[0] = 0 /\ \A i \in 1 .. N : g[i] = g[i - 1] + f[i]
  BY <1>1, <1>5 DEF g
<1>7. \A i \in 0 .. N : g[i] \in Nat
  <2>1. \A i \in 1 .. N : g[i - 1] \in Nat => g[i] = step[<<i, g[i - 1]>>]
    BY <1>6 DEF AddNext
  <2>2. Follows(g, N, Nat, 0, step)
    BY <1>6, <2>1 DEF Follows
  <2> HIDE DEF step
  <2> QED
    BY <1>1, <1>2, <2>2, RecursionType
<1>8. Total(f) = g[N]
  BY DEF Total, SumFcn, g
<1> QED
  BY <1>6, <1>7, <1>8 DEF g

(* One summand changes. *)
LEMMA SumChange ==
  ASSUME NEW f \in Summands, NEW g \in Summands, NEW c \in Components,
         \A d \in Components : d # c => g[d] = f[d]
  PROVE  /\ Total(f) \in Nat /\ Total(g) \in Nat
         /\ Total(g) + f[c] = Total(f) + g[c]
<1> DEFINE s == SumFcn(f)
           t == SumFcn(g)
           I == {i \in Nat : i <= N => IF i < c THEN t[i] = s[i]
                                                ELSE t[i] + f[c] = s[i] + g[c]}
<1>1. N \in Nat /\ c \in 1 .. N /\ \A i \in 1 .. N : f[i] \in Nat /\ g[i] \in Nat
  BY SomeComponents DEF Summands, Components
<1>2. /\ Total(f) = s[N] /\ s[0] = 0 /\ \A i \in 0 .. N : s[i] \in Nat
      /\ \A i \in 1 .. N : s[i] = s[i - 1] + f[i]
  BY SumDefined
<1>3. /\ Total(g) = t[N] /\ t[0] = 0 /\ \A i \in 0 .. N : t[i] \in Nat
      /\ \A i \in 1 .. N : t[i] = t[i - 1] + g[i]
  BY SumDefined
<1> HIDE DEF s, t
<1>4. 0 \in I
  BY <1>1, <1>2, <1>3
<1>5. ASSUME NEW i \in Nat, i \in I
      PROVE  i + 1 \in I
  <2> SUFFICES ASSUME i + 1 <= N
               PROVE  IF i + 1 < c THEN t[i + 1] = s[i + 1]
                                   ELSE t[i + 1] + f[c] = s[i + 1] + g[c]
    OBVIOUS
  <2>1. /\ i + 1 \in 1 .. N /\ (i + 1) - 1 = i /\ i \in 0 .. N
        /\ s[i] \in Nat /\ t[i] \in Nat /\ f[i + 1] \in Nat /\ g[i + 1] \in Nat
        /\ f[c] \in Nat /\ g[c] \in Nat
    BY <1>1, <1>2, <1>3
  <2>2. s[i + 1] = s[i] + f[i + 1] /\ t[i + 1] = t[i] + g[i + 1]
    BY <1>2, <1>3, <2>1
  <2>3. i + 1 # c => g[i + 1] = f[i + 1]
    BY <2>1 DEF Components
  <2>4. IF i < c THEN t[i] = s[i] ELSE t[i] + f[c] = s[i] + g[c]
    BY <1>5, <2>1
  <2>5. CASE i + 1 < c
    BY <1>1, <2>1, <2>2, <2>3, <2>4, <2>5
  <2>6. CASE i + 1 = c
    BY <1>1, <2>1, <2>2, <2>4, <2>6
  <2>7. CASE i + 1 > c
    BY <1>1, <2>1, <2>2, <2>3, <2>4, <2>7
  <2> QED
    BY <1>1, <2>1, <2>5, <2>6, <2>7
<1>6. N \in I
  <2> HIDE DEF I
  <2> QED
    BY <1>1, <1>4, <1>5, NatInSet
<1> QED
  BY <1>1, <1>2, <1>3, <1>6

(* A sum grows with its summands. *)
LEMMA SumGrows ==
  ASSUME NEW f \in Summands, NEW g \in Summands, \A c \in Components : f[c] <= g[c]
  PROVE  Total(f) <= Total(g)
<1> DEFINE s == SumFcn(f)
           t == SumFcn(g)
           I == {i \in Nat : i <= N => s[i] <= t[i]}
<1>1. N \in Nat /\ \A i \in 1 .. N : f[i] \in Nat /\ g[i] \in Nat /\ f[i] <= g[i]
  BY SomeComponents DEF Summands, Components
<1>2. /\ Total(f) = s[N] /\ s[0] = 0 /\ \A i \in 0 .. N : s[i] \in Nat
      /\ \A i \in 1 .. N : s[i] = s[i - 1] + f[i]
  BY SumDefined
<1>3. /\ Total(g) = t[N] /\ t[0] = 0 /\ \A i \in 0 .. N : t[i] \in Nat
      /\ \A i \in 1 .. N : t[i] = t[i - 1] + g[i]
  BY SumDefined
<1> HIDE DEF s, t
<1>4. 0 \in I
  BY <1>2, <1>3
<1>5. ASSUME NEW i \in Nat, i \in I
      PROVE  i + 1 \in I
  <2> SUFFICES ASSUME i + 1 <= N
               PROVE  s[i + 1] <= t[i + 1]
    OBVIOUS
  <2>1. /\ i + 1 \in 1 .. N /\ (i + 1) - 1 = i /\ i \in 0 .. N
        /\ s[i] \in Nat /\ t[i] \in Nat /\ s[i] <= t[i]
        /\ f[i + 1] \in Nat /\ g[i + 1] \in Nat /\ f[i + 1] <= g[i + 1]
    BY <1>1, <1>2, <1>3, <1>5
  <2>2. s[i + 1] = s[i] + f[i + 1] /\ t[i + 1] = t[i] + g[i + 1]
    BY <1>2, <1>3, <2>1
  <2> QED
    BY <2>1, <2>2
<1>6. N \in I
  <2> HIDE DEF I
  <2> QED
    BY <1>1, <1>4, <1>5, NatInSet
<1> QED
  BY <1>1, <1>2, <1>3, <1>6

(* The sum of nothing. *)
LEMMA SumOfNone ==
  ASSUME NEW f \in Summands, \A c \in Components : f[c] = 0
  PROVE  Total(f) = 0
<1> DEFINE s == SumFcn(f)
           I == {i \in Nat : i <= N => s[i] = 0}
<1>1. N \in Nat /\ \A i \in 1 .. N : f[i] = 0
  BY SomeComponents DEF Components
<1>2. Total(f) = s[N] /\ s[0] = 0 /\ \A i \in 1 .. N : s[i] = s[i - 1] + f[i]
  BY SumDefined
<1> HIDE DEF s
<1>3. 0 \in I
  BY <1>2
<1>4. ASSUME NEW i \in Nat, i \in I
      PROVE  i + 1 \in I
  <2> SUFFICES ASSUME i + 1 <= N
               PROVE  s[i + 1] = 0
    OBVIOUS
  <2>1. i + 1 \in 1 .. N /\ (i + 1) - 1 = i /\ s[i] = 0
    BY <1>1, <1>4
  <2> QED
    BY <1>1, <1>2, <2>1
<1>5. N \in I
  <2> HIDE DEF I
  <2> QED
    BY <1>1, <1>3, <1>4, NatInSet
<1> QED
  BY <1>1, <1>2, <1>5
-----------------------------------------------------------------------------
(* What threads have in hand and what is in pipes, when one thread moves   *)
(* or one pipe changes.                                                    *)
InPut == {"put", "store"}

LEMMA HandChange ==
  ASSUME DOMAIN pc = Components, NEW c \in Components, NEW x, pc' = [pc EXCEPT ![c] = x], NEW C
  PROVE  /\ InHand(C) \in Nat /\ InHand(C)' \in Nat
         /\ c \in C /\ pc[c] \notin InPut /\ x \in InPut => InHand(C)' = InHand(C) + 1
         /\ c \in C /\ pc[c] \in InPut /\ x \notin InPut => InHand(C) = InHand(C)' + 1
         /\ c \notin C \/ (pc[c] \in InPut <=> x \in InPut) => InHand(C)' = InHand(C)
<1> DEFINE f == [d \in Components |-> IF d \in C \cap Putters THEN 1 ELSE 0]
           g == [d \in Components |-> IF d \in C \cap Putters' THEN 1 ELSE 0]
<1>1. f \in Summands /\ g \in Summands
  BY DEF Summands
<1>2. /\ f[c] = (IF c \in C /\ pc[c] \in InPut THEN 1 ELSE 0)
      /\ g[c] = (IF c \in C /\ x \in InPut THEN 1 ELSE 0)
      /\ \A d \in Components : d # c => g[d] = f[d]
  BY DEF Putters, InPut
<1>3. InHand(C) = Total(f) /\ InHand(C)' = Total(g)
  BY DEF InHand, Total
<1> HIDE DEF f, g
<1>4. /\ Total(f) \in Nat /\ Total(g) \in Nat /\ Total(g) + f[c] = Total(f) + g[c]
  BY <1>1, <1>2, SumChange
<1> QED
  BY <1>2, <1>3, <1>4

LEMMA PipeChange ==
  ASSUME pipe \in [Components -> Nat], NEW c \in Components, NEW n \in Nat,
         pipe' = [pipe EXCEPT ![c] = n], NEW C
  PROVE  /\ InPipes(C) \in Nat /\ InPipes(C)' \in Nat
         /\ c \in C => InPipes(C)' + pipe[c] = InPipes(C) + n
         /\ c \notin C => InPipes(C)' = InPipes(C)
<1> DEFINE f == [d \in Components |-> IF d \in C THEN pipe[d] ELSE 0]
           g == [d \in Components |-> IF d \in C THEN pipe'[d] ELSE 0]
<1>1. f \in Summands /\ g \in Summands
  BY DEF Summands
<1>2. /\ f[c] = (IF c \in C THEN pipe[c] ELSE 0) /\ g[c] = (IF c \in C THEN n ELSE 0)
      /\ \A d \in Components : d # c => g[d] = f[d]
  OBVIOUS
<1>3. InPipes(C) = Total(f) /\ InPipes(C)' = Total(g)
  BY DEF InPipes, Total
<1> HIDE DEF f, g
<1>4. /\ Total(f) \in Nat /\ Total(g) \in Nat /\ Total(g) + f[c] = Total(f) + g[c]
  BY <1>1, <1>2, SumChange
<1> QED
  BY <1>2, <1>3, <1>4

(* They are numbers, and workers are among those a request goes through.   *)
LEMMA HandShape ==
  /\ \A C : InHand(C) \in Nat
  /\ InHand(Workers) <= InHand(Handlers)
<1> DEFINE f(C) == [d \in Components |-> IF d \in C \cap Putters THEN 1 ELSE 0]
<1>1. \A C : f(C) \in Summands /\ InHand(C) = Total(f(C))
  BY DEF Summands, InHand
<1>2. 1 \in Components /\ \A c \in Components : f(Workers)[c] <= f(Handlers)[c]
  BY SomeComponents DEF Handlers
<1> HIDE DEF f
<1>3. \A C : Total(f(C)) \in Nat
  BY <1>1, <1>2, SumChange
<1>4. Total(f(Workers)) <= Total(f(Handlers))
  BY <1>1, <1>2, SumGrows
<1> QED
  BY <1>1, <1>3, <1>4

LEMMA PipeShape ==
  ASSUME pipe \in [Components -> Nat]
  PROVE  \A C : InPipes(C) \in Nat
<1> SUFFICES ASSUME NEW C
             PROVE  InPipes(C) \in Nat
  OBVIOUS
<1> DEFINE f == [d \in Components |-> IF d \in C THEN pipe[d] ELSE 0]
<1>1. f \in Summands /\ InPipes(C) = Total(f) /\ 1 \in Components
  BY SomeComponents DEF Summands, InPipes
<1> HIDE DEF f
<1> QED
  BY <1>1, SumChange
-----------------------------------------------------------------------------
(* What the counts rest on: the types; who is in a put and for whom, and   *)
(* that as long as no puts overlap the one worker in a put has room; that  *)
(* no more is parsed than the lines read hold; and that a memtable is      *)
(* frozen for a request that is done with or in a worker's hands.          *)
Typed ==
  /\ running \in [Components -> BOOLEAN]
  /\ target \in [Components -> Components \ {Server}]
  /\ pipe \in [Components -> Nat]
  /\ \A c \in Components : pipe[c] < Capacity \/ (c = Flusher /\ overlapped)
  /\ overlapped \in BOOLEAN
  /\ batch \in 0 .. MaxBatch
  /\ lines \in 0 .. Lines /\ eof \in BOOLEAN
  /\ parsed \in Nat /\ handled \in Nat /\ frozen \in Nat /\ flushed \in Nat

Putting ==
  /\ pc[Server] = "put" <=> batch > 0
  /\ pc[Server] = "put" => target[Server] = Engine
  /\ pc[Engine] = "put" => target[Engine] \in Workers
  /\ pc[Server] # "store" /\ pc[Engine] # "store" /\ pc[Flusher] \notin InPut
  /\ overlapped \/ /\ \A v, w \in Workers : pc[v] \in InPut /\ pc[w] \in InPut => v = w
                   /\ \A w \in Workers : pc[w] = "store" => pipe[Flusher] < Capacity - 1

Counted ==
  /\ parsed + lines * MaxBatch <= Lines * MaxBatch
  /\ frozen <= handled + InHand(Workers)

CountInv == Joined /\ Typed /\ Putting /\ Counted /\ NothingVanishes

(* Who the components are. *)
LEMMA Who ==
  /\ Server \in Components /\ Engine \in Components /\ Flusher \in Components
  /\ Workers \subseteq Components /\ Handlers \subseteq Components
  /\ Server \notin Handlers /\ Engine \notin Workers /\ Flusher \notin Handlers
  /\ Server # Engine /\ Server # Flusher /\ Engine # Flusher
  /\ Workers \subseteq Handlers /\ Engine \in Handlers /\ Server \notin Workers
  /\ Flusher \notin Workers
  /\ Components = Handlers \cup {Server, Flusher} /\ Handlers = Workers \cup {Engine}
BY LifecycleAssumption DEF Server, Engine, Flusher, Workers, Handlers, Components, N

(* The bounds are numbers, and a line less is a batch less. *)
LEMMA Bounds ==
  /\ Lines \in Nat /\ MaxBatch \in Nat /\ MaxBatch > 0 /\ Capacity \in Nat /\ Capacity > 1
BY LifecycleAssumption

LEMMA LineLess ==
  ASSUME NEW a \in Nat, a > 0, NEW b \in Nat
  PROVE  a * b \in Nat /\ (a - 1) * b = a * b - b
OBVIOUS

LEMMA LinesHold == ASSUME NEW a \in Nat, NEW b \in Nat PROVE a * b \in Nat
OBVIOUS

(* The shape of what is counted. *)
LEMMA CountShape ==
  ASSUME CountInv
  PROVE  /\ DOMAIN pc = Components /\ pipe \in [Components -> Nat]
         /\ \A c \in Components : pipe[c] \in Nat
         /\ \A C : InHand(C) \in Nat /\ InPipes(C) \in Nat
         /\ batch \in Nat /\ lines \in Nat /\ lines * MaxBatch \in Nat
         /\ parsed \in Nat /\ handled \in Nat /\ frozen \in Nat /\ flushed \in Nat
         /\ Lines * MaxBatch \in Nat
<1>1. pipe \in [Components -> Nat] /\ batch \in Nat /\ lines \in Nat
  BY Bounds DEF CountInv, Typed
<1>2. lines * MaxBatch \in Nat /\ Lines * MaxBatch \in Nat
  BY <1>1, Bounds, LinesHold
<1> QED
  BY <1>1, <1>2, HandShape, PipeShape DEF CountInv, Joined, Typed

(* Initially nothing is anywhere. *)
LEMMA CountInit == Init => CountInv
<1> SUFFICES ASSUME Init
             PROVE  CountInv
  OBVIOUS
<1>1. Joined
  BY JoinedInit
<1>2. Typed
  <2>1. Engine \in Components \ {Server} /\ 0 < Capacity
        /\ 0 \in 0 .. MaxBatch /\ Lines \in 0 .. Lines /\ 0 \in Nat
    BY Who, Bounds
  <2> QED
    BY <2>1 DEF Init, Typed
<1>3. Putting
  BY Who DEF Init, Putting, InPut
<1>4. ASSUME NEW C
      PROVE  InHand(C) = 0 /\ InPipes(C) = 0
  <2> DEFINE f == [d \in Components |-> IF d \in C \cap Putters THEN 1 ELSE 0]
             g == [d \in Components |-> IF d \in C THEN pipe[d] ELSE 0]
  <2>1. /\ f \in Summands /\ \A c \in Components : f[c] = 0
        /\ g \in Summands /\ \A c \in Components : g[c] = 0
    BY DEF Init, Summands, Putters
  <2>2. InHand(C) = Total(f) /\ InPipes(C) = Total(g)
    BY DEF InHand, InPipes
  <2> HIDE DEF f, g
  <2> QED
    BY <2>1, <2>2, SumOfNone
<1>5. lines * MaxBatch = Lines * MaxBatch /\ Lines * MaxBatch \in Nat
  BY Bounds, LinesHold DEF Init
<1>6. Counted
  BY <1>4, <1>5 DEF Init, Counted
<1>7. NothingVanishes
  BY <1>4, Who DEF Init, NothingVanishes
<1> QED
  BY <1>1, <1>2, <1>3, <1>6, <1>7 DEF CountInv

(* A thread that is in no put before or after changes no count.            *)
LEMMA CountKept ==
  ASSUME CountInv, NEW c \in Components, NEW x, pc' = [pc EXCEPT ![c] = x],
         pc[c] \notin InPut, x \notin InPut,
         UNCHANGED <<target, pipes, batch, lines, counts>>
  PROVE  Putting' /\ Counted' /\ NothingVanishes'
<1>1. \A C : InHand(C)' = InHand(C)
  <2> SUFFICES ASSUME NEW C
               PROVE  InHand(C)' = InHand(C)
    OBVIOUS
  <2> QED
    BY CountShape, HandChange
<1>2. \A C : InPipes(C)' = InPipes(C)
  BY DEF InPipes, pipes
<1>3. Putting'
  <2>1. \A d \in Components : pc'[d] \in InPut => d # c /\ pc'[d] = pc[d]
    BY CountShape
  <2>2. "put" \in InPut /\ "store" \in InPut
    BY DEF InPut
  <2>3. /\ pc'[Server] = "put" <=> pc[Server] = "put"
        /\ pc'[Server] # "store" /\ pc'[Engine] # "store" /\ pc'[Flusher] \notin InPut
        /\ pc'[Engine] = "put" => pc[Engine] = "put"
    BY <2>1, <2>2, CountShape, Who DEF CountInv, Putting
  <2>4. \A w \in Workers : pc'[w] \in InPut => pc[w] = pc'[w]
    BY <2>1, Who
  <2> QED
    BY <2>2, <2>3, <2>4, Who DEF CountInv, Putting, pipes
<1> QED
  BY <1>1, <1>2, <1>3 DEF CountInv, Counted, NothingVanishes, counts, pipes

(* Nor does a step that moves no thread. *)
LEMMA CountStill ==
  ASSUME CountInv, UNCHANGED <<pc, target, pipes, batch, lines, counts>>
  PROVE  Putting' /\ Counted' /\ NothingVanishes'
BY DEF CountInv, Putting, Counted, NothingVanishes, InHand, Putters, InPipes, counts, pipes

(* One signal less in a pipe. *)
LEMMA TakeOne ==
  ASSUME CountInv, NEW c \in Components, Take(c), overlapped' \in {overlapped, TRUE}
  PROVE  /\ pipe[c] - 1 \in Nat /\ pipe' \in [Components -> Nat]
         /\ \A d \in Components : pipe'[d] < Capacity \/ (d = Flusher /\ overlapped')
         /\ pc[c] = "get" /\ pipe' = [pipe EXCEPT ![c] = @ - 1]
         /\ \A C : /\ InPipes(C)' \in Nat
                   /\ c \in C => InPipes(C)' + 1 = InPipes(C)
                   /\ c \notin C => InPipes(C)' = InPipes(C)
<1>1. /\ pipe' = [pipe EXCEPT ![c] = pipe[c] - 1] /\ pipe[c] > 0 /\ pc[c] = "get"
      /\ pipe \in [Components -> Nat] /\ pipe[c] \in Nat
      /\ Capacity \in Nat
  BY CountShape, Bounds DEF Take
<1>2. pipe[c] - 1 \in Nat /\ pipe[c] - 1 < pipe[c]
  BY <1>1
<1>3. pipe' \in [Components -> Nat]
  BY <1>1, <1>2
<1>4. ASSUME NEW d \in Components
      PROVE  pipe'[d] < Capacity \/ (d = Flusher /\ overlapped')
  <2>1. pipe[d] < Capacity \/ (d = Flusher /\ overlapped)
    BY DEF CountInv, Typed
  <2>2. overlapped => overlapped'
    BY DEF CountInv, Typed
  <2>3. CASE d = c
    <3>1. pipe'[d] < pipe[d] /\ pipe'[d] \in Nat /\ pipe[d] \in Nat
      BY <1>1, <1>2, <2>3
    <3>2. pipe[d] < Capacity => pipe'[d] < Capacity
      BY <1>1, <3>1
    <3> QED
      BY <2>1, <2>2, <3>2
  <2>4. CASE d # c
    BY <1>1, <2>1, <2>2, <2>4
  <2> QED
    BY <2>3, <2>4
<1>5. ASSUME NEW C
      PROVE  /\ InPipes(C)' \in Nat
             /\ c \in C => InPipes(C)' + 1 = InPipes(C)
             /\ c \notin C => InPipes(C)' = InPipes(C)
  <2>1. /\ InPipes(C) \in Nat /\ InPipes(C)' \in Nat
        /\ c \in C => InPipes(C)' + pipe[c] = InPipes(C) + (pipe[c] - 1)
        /\ c \notin C => InPipes(C)' = InPipes(C)
    BY <1>1, <1>2, PipeChange
  <2> QED
    BY <1>1, <2>1
<1> QED
  BY <1>1, <1>2, <1>3, <1>4, <1>5

(* A thread in a put is none in a get. *)
LEMMA NotPutting == "get" \notin InPut /\ "loop" \notin InPut /\ "put" \in InPut
                    /\ "store" \in InPut
BY DEF InPut

(* What is in hand when a thread stays in or out of a put, begins one and  *)
(* ends one.                                                               *)
LEMMA HandsKept ==
  ASSUME CountInv, NEW c \in Components, NEW x, pc' = [pc EXCEPT ![c] = x],
         pc[c] \in InPut <=> x \in InPut
  PROVE  \A C : InHand(C)' = InHand(C)
<1> SUFFICES ASSUME NEW C
             PROVE  InHand(C)' = InHand(C)
  OBVIOUS
<1>1. DOMAIN pc = Components
  BY CountShape
<1> QED
  BY <1>1, HandChange

LEMMA HandTaken ==
  ASSUME CountInv, NEW c \in Components, NEW x, pc' = [pc EXCEPT ![c] = x],
         pc[c] \notin InPut, x \in InPut, NEW C
  PROVE  /\ c \in C => InHand(C)' = InHand(C) + 1
         /\ c \notin C => InHand(C)' = InHand(C)
BY CountShape, HandChange

LEMMA HandFreed ==
  ASSUME CountInv, NEW c \in Components, NEW x, pc' = [pc EXCEPT ![c] = x],
         pc[c] \in InPut, x \notin InPut, NEW C
  PROVE  /\ InHand(C)' \in Nat
         /\ c \in C => InHand(C) = InHand(C)' + 1
         /\ c \notin C => InHand(C)' = InHand(C)
BY CountShape, HandChange

(* Who is in a put stays so when a component that is not in one takes a    *)
(* signal and goes back to its loop.                                       *)
LEMMA TakePutting ==
  ASSUME CountInv, NEW c \in Components, Take(c), pc' = [pc EXCEPT ![c] = "loop"],
         UNCHANGED <<target, batch, overlapped>>
  PROVE  Putting'
<1>1. /\ pc[c] = "get" /\ pipe' = [pipe EXCEPT ![c] = @ - 1] /\ DOMAIN pc = Components
      /\ pipe[Flusher] \in Nat /\ Capacity \in Nat
  BY TakeOne, CountShape, Who, Bounds
<1>2. \A d \in Components : pc'[d] \in InPut => pc'[d] = pc[d]
  BY <1>1, NotPutting
<1>3. /\ pc'[Server] = "put" <=> pc[Server] = "put"
      /\ pc'[Server] # "store" /\ pc'[Engine] # "store" /\ pc'[Flusher] \notin InPut
      /\ pc'[Engine] = "put" => pc[Engine] = "put"
  BY <1>1, <1>2, NotPutting, Who DEF CountInv, Putting
<1>4. \A w \in Workers : pc'[w] \in InPut => pc[w] = pc'[w]
  BY <1>2, Who
<1>5. pipe[Flusher] < Capacity - 1 => pipe'[Flusher] < Capacity - 1
  BY <1>1, CountShape, Who DEF Take
<1> QED
  BY <1>3, <1>4, <1>5, NotPutting DEF CountInv, Putting

(* The engine takes a signal for a worker: from its pipe into its hand.    *)
LEMMA EngineCounts ==
  ASSUME CountInv, EngineTakes
  PROVE  Typed' /\ Putting' /\ Counted' /\ NothingVanishes'
<1>1. PICK w \in Workers :
        /\ Take(Engine) /\ PutFor(Engine, w)
        /\ UNCHANGED <<main, next, running, overlapped, batch, input, counts>>
  BY DEF EngineTakes
<1>2. /\ pc' = [pc EXCEPT ![Engine] = "put"] /\ target' = [target EXCEPT ![Engine] = w]
      /\ UNCHANGED <<running, overlapped, batch, lines, eof, parsed, handled, frozen, flushed>>
  BY <1>1 DEF PutFor, input, counts
<1>3. /\ pipe' \in [Components -> Nat] /\ pc[Engine] = "get"
      /\ \A d \in Components : pipe'[d] < Capacity \/ (d = Flusher /\ overlapped')
      /\ InPipes(Handlers)' + 1 = InPipes(Handlers) /\ InPipes(Handlers)' \in Nat
      /\ pipe' = [pipe EXCEPT ![Engine] = @ - 1]
  BY <1>1, <1>2, Who, TakeOne
<1>4. /\ InHand(Handlers)' = InHand(Handlers) + 1 /\ InHand(Workers)' = InHand(Workers)
  <2>1. pc[Engine] \notin InPut /\ "put" \in InPut
    BY <1>3, NotPutting
  <2> QED
    BY <1>2, <2>1, Who, HandTaken
<1>5. Typed'
  BY <1>2, <1>3, Who DEF CountInv, Typed
<1>6. pipe'[Flusher] = pipe[Flusher]
  BY <1>3, Who, CountShape
<1>7. Putting'
  <2>1. \A d \in Components : d # Engine => pc'[d] = pc[d] /\ target'[d] = target[d]
    BY <1>2, CountShape DEF CountInv, Typed
  <2>2. pc'[Engine] = "put" /\ target'[Engine] = w
    BY <1>2, CountShape, Who DEF CountInv, Typed
  <2> QED
    BY <1>2, <1>6, <2>1, <2>2, Who DEF CountInv, Putting
<1>8. Counted'
  BY <1>2, <1>4 DEF CountInv, Counted
<1>9. NothingVanishes'
  <2>1. /\ InHand(Handlers) \in Nat /\ InPipes(Handlers) \in Nat
        /\ handled \in Nat /\ batch \in Nat
    BY CountShape
  <2>2. handled' + batch' + InHand(Handlers)' + InPipes(Handlers)'
          = handled + batch + InHand(Handlers) + InPipes(Handlers)
    BY <1>2, <1>3, <1>4, <2>1
  <2> QED
    BY <1>2, <1>4, <1>6, <2>2 DEF CountInv, NothingVanishes
<1> QED
  BY <1>5, <1>7, <1>8, <1>9

(* A worker is done with a request. *)
LEMMA HandleCounts ==
  ASSUME CountInv, NEW w \in Workers, WorkerHandles(w)
  PROVE  Typed' /\ Putting' /\ Counted' /\ NothingVanishes'
<1>1. /\ Take(w) /\ handled' = handled + 1 /\ pc' = [pc EXCEPT ![w] = "loop"]
      /\ UNCHANGED <<running, target, overlapped, batch, lines, eof, parsed, frozen, flushed>>
  BY DEF WorkerHandles, input
<1>2. /\ pipe' \in [Components -> Nat] /\ pipe' = [pipe EXCEPT ![w] = @ - 1]
      /\ \A d \in Components : pipe'[d] < Capacity \/ (d = Flusher /\ overlapped')
      /\ InPipes(Handlers)' + 1 = InPipes(Handlers) /\ InPipes(Handlers)' \in Nat
      /\ pc[w] = "get"
  BY <1>1, Who, TakeOne
<1>3. \A C : InHand(C)' = InHand(C)
  BY <1>1, <1>2, Who, HandsKept, NotPutting
<1>4. /\ handled \in Nat /\ batch \in Nat /\ InHand(Handlers) \in Nat /\ frozen \in Nat
      /\ InHand(Workers) \in Nat
  BY CountShape
<1>5. Typed'
  BY <1>1, <1>2 DEF CountInv, Typed
<1>6. Putting'
  BY <1>1, Who, TakePutting
<1>7. Counted'
  <2>1. frozen' <= handled' + InHand(Workers)'
    BY <1>1, <1>3, <1>4 DEF CountInv, Counted
  <2> QED
    BY <1>1, <2>1 DEF CountInv, Counted
<1>8. NothingVanishes'
  <2>1. pipe'[Flusher] = pipe[Flusher]
    BY <1>2, Who, CountShape
  <2>2. handled' + batch' + InHand(Handlers)' + InPipes(Handlers)'
          = handled + batch + InHand(Handlers) + InPipes(Handlers)
    BY <1>1, <1>2, <1>3, <1>4
  <2> QED
    BY <1>1, <1>3, <2>1, <2>2 DEF CountInv, NothingVanishes
<1> QED
  BY <1>5, <1>6, <1>7, <1>8

(* A worker freezes a memtable and has its signal in its hand. *)
LEMMA FreezeCounts ==
  ASSUME CountInv, NEW w \in Workers, WorkerFlushes(w)
  PROVE  Typed' /\ Putting' /\ Counted' /\ NothingVanishes'
<1>1. /\ Take(w) /\ frozen' = frozen + 1
      /\ pc' = [pc EXCEPT ![w] = "put"] /\ target' = [target EXCEPT ![w] = Flusher]
      /\ overlapped' = (overlapped \/ Workers \cap Putters # {})
      /\ UNCHANGED <<running, batch, lines, eof, parsed, handled, flushed>>
  BY DEF WorkerFlushes, PutFor, input
<1>2. overlapped' \in {overlapped, TRUE} /\ overlapped' \in BOOLEAN
  BY <1>1 DEF CountInv, Typed
<1>3. /\ pipe' \in [Components -> Nat] /\ pipe' = [pipe EXCEPT ![w] = @ - 1]
      /\ \A d \in Components : pipe'[d] < Capacity \/ (d = Flusher /\ overlapped')
      /\ InPipes(Handlers)' + 1 = InPipes(Handlers) /\ InPipes(Handlers)' \in Nat
      /\ pc[w] = "get"
  BY <1>1, <1>2, Who, TakeOne
<1>4. InHand(Handlers)' = InHand(Handlers) + 1 /\ InHand(Workers)' = InHand(Workers) + 1
  <2>1. pc[w] \notin InPut /\ "put" \in InPut
    BY <1>3, NotPutting
  <2> QED
    BY <1>1, <2>1, Who, HandTaken
<1>5. /\ handled \in Nat /\ batch \in Nat /\ InHand(Handlers) \in Nat /\ frozen \in Nat
      /\ InHand(Workers) \in Nat /\ flushed \in Nat /\ pipe[Flusher] \in Nat
  BY CountShape, Who
<1>6. Typed'
  BY <1>1, <1>2, <1>3, Who DEF CountInv, Typed
<1>7. pipe'[Flusher] = pipe[Flusher]
  BY <1>3, Who, CountShape
<1>8. Putting'
  <2>1. \A d \in Components : d # w => pc'[d] = pc[d] /\ target'[d] = target[d]
    BY <1>1, CountShape DEF CountInv, Typed
  <2>2. pc'[w] = "put" /\ w \in Components
    BY <1>1, CountShape, Who
  <2>3. /\ pc'[Server] = pc[Server] /\ pc'[Engine] = pc[Engine] /\ pc'[Flusher] = pc[Flusher]
        /\ target'[Server] = target[Server] /\ target'[Engine] = target[Engine]
    BY <2>1, Who
  <2>4. ~ overlapped' => ~ overlapped /\ \A v \in Workers : pc[v] \notin InPut
    BY <1>1, <1>2, Who DEF Putters, InPut
  <2>5. ~ overlapped' => \A v \in Workers : pc'[v] \in InPut => v = w
    BY <2>1, <2>4, Who
  <2>6. ~ overlapped' => \A v \in Workers : pc'[v] # "store"
    BY <2>2, <2>5, NotPutting
  <2> QED
    BY <1>1, <2>3, <2>5, <2>6 DEF CountInv, Putting
<1>9. Counted'
  <2>1. frozen' <= handled' + InHand(Workers)'
    BY <1>1, <1>4, <1>5 DEF CountInv, Counted
  <2> QED
    BY <1>1, <2>1 DEF CountInv, Counted
<1>10. NothingVanishes'
  <2>1. handled' + batch' + InHand(Handlers)' + InPipes(Handlers)'
          = handled + batch + InHand(Handlers) + InPipes(Handlers)
    BY <1>1, <1>3, <1>4, <1>5
  <2>2. /\ flushed + InHand(Workers) + pipe[Flusher] <= frozen
        /\ frozen = flushed + InHand(Workers) + pipe[Flusher] \/ overlapped
    BY DEF CountInv, NothingVanishes
  <2>3. /\ flushed' + InHand(Workers)' + pipe'[Flusher] <= frozen'
        /\ frozen = flushed + InHand(Workers) + pipe[Flusher] =>
             frozen' = flushed' + InHand(Workers)' + pipe'[Flusher]
    BY <1>1, <1>4, <1>5, <1>7, <2>2
  <2> QED
    BY <1>1, <2>1, <2>2, <2>3 DEF CountInv, NothingVanishes
<1> QED
  BY <1>6, <1>8, <1>9, <1>10

(* The flusher has flushed a memtable, or missed it. *)
LEMMA FlushCounts ==
  ASSUME CountInv, FlusherFlushes \/ FlusherMisses
  PROVE  Typed' /\ Putting' /\ Counted' /\ NothingVanishes'
<1>1. /\ Take(Flusher) /\ pc' = [pc EXCEPT ![Flusher] = "loop"]
      /\ flushed' = flushed + 1 \/ (overlapped /\ flushed' = flushed)
      /\ UNCHANGED <<running, target, overlapped, batch, lines, eof, parsed, handled, frozen>>
  BY DEF FlusherFlushes, FlusherMisses, input, counts
<1>2. /\ pipe' \in [Components -> Nat] /\ pipe[Flusher] - 1 \in Nat /\ pc[Flusher] = "get"
      /\ \A d \in Components : pipe'[d] < Capacity \/ (d = Flusher /\ overlapped')
      /\ pipe' = [pipe EXCEPT ![Flusher] = @ - 1] /\ InPipes(Handlers)' = InPipes(Handlers)
  BY <1>1, Who, TakeOne
<1>3. \A C : InHand(C)' = InHand(C)
  BY <1>1, <1>2, Who, HandsKept, NotPutting
<1>4. /\ flushed \in Nat /\ pipe[Flusher] \in Nat /\ InHand(Workers) \in Nat
      /\ pipe'[Flusher] = pipe[Flusher] - 1 /\ frozen \in Nat
  BY <1>2, CountShape, Who
<1>5. Typed'
  <2>1. flushed' \in Nat
    BY <1>1, <1>4
  <2> QED
    BY <1>1, <1>2, <2>1 DEF CountInv, Typed
<1>6. Putting'
  BY <1>1, Who, TakePutting
<1>7. Counted'
  BY <1>1, <1>3 DEF CountInv, Counted
<1>8. NothingVanishes'
  <2>1. /\ flushed + InHand(Workers) + pipe[Flusher] <= frozen
        /\ frozen = flushed + InHand(Workers) + pipe[Flusher] \/ overlapped
    BY DEF CountInv, NothingVanishes
  <2>2. CASE flushed' = flushed + 1
    <3>1. flushed' + InHand(Workers)' + pipe'[Flusher]
            = flushed + InHand(Workers) + pipe[Flusher]
      BY <1>3, <1>4, <2>2
    <3> QED
      BY <1>1, <1>2, <1>3, <2>1, <3>1 DEF CountInv, NothingVanishes
  <2>3. CASE overlapped /\ flushed' = flushed
    <3>1. flushed' + InHand(Workers)' + pipe'[Flusher] <= frozen
      BY <1>3, <1>4, <2>1, <2>3
    <3> QED
      BY <1>1, <1>2, <1>3, <2>3, <3>1 DEF CountInv, NothingVanishes
  <2> QED
    BY <1>1, <2>2, <2>3
<1> QED
  BY <1>5, <1>6, <1>7, <1>8

(* The server reads a line of n requests. *)
LEMMA ReadCounts ==
  ASSUME CountInv, ServerReads
  PROVE  Typed' /\ Putting' /\ Counted' /\ NothingVanishes'
<1>1. PICK n \in 0 .. MaxBatch :
        /\ pc[Server] = "loop" /\ lines > 0 /\ lines' = lines - 1 /\ batch' = n
        /\ parsed' = parsed + n
        /\ IF n > 0 THEN PutFor(Server, Engine) ELSE UNCHANGED threads
        /\ UNCHANGED <<running, pipe, overlapped, eof, handled, frozen, flushed>>
  BY DEF ServerReads, pipes
<1>2. /\ batch = 0 /\ n \in Nat /\ n <= MaxBatch /\ MaxBatch \in Nat /\ parsed \in Nat
      /\ lines \in Nat /\ lines - 1 \in 0 .. Lines
      /\ lines * MaxBatch \in Nat /\ Lines * MaxBatch \in Nat
  <2>1. batch = 0
    BY <1>1, CountShape DEF CountInv, Putting
  <2>2. lines \in 0 .. Lines /\ Lines \in Nat /\ MaxBatch \in Nat
    BY Bounds DEF CountInv, Typed
  <2> QED
    BY <1>1, <2>1, <2>2, CountShape
<1>3. \A C : InHand(C)' = InHand(C) \/ Server \in C
  <2>1. CASE n > 0
    BY <1>1, <2>1, HandTaken, NotPutting, Who DEF PutFor
  <2>2. CASE ~(n > 0)
    BY <1>1, <2>2 DEF InHand, Putters, threads
  <2> QED
    BY <2>1, <2>2
<1>4. \A C : InPipes(C)' = InPipes(C)
  BY <1>1 DEF InPipes
<1>5. Typed'
  <2>1. target' \in [Components -> Components \ {Server}]
    BY <1>1, Who DEF CountInv, Typed, PutFor, threads
  <2>2. parsed' \in Nat
    BY <1>1, <1>2
  <2> QED
    BY <1>1, <1>2, <2>1, <2>2 DEF CountInv, Typed
<1>6. Putting'
  <2>1. CASE n > 0
    <3>1. \A d \in Components : d # Server => pc'[d] = pc[d] /\ target'[d] = target[d]
      BY <1>1, <2>1, CountShape DEF CountInv, Typed, PutFor
    <3>2. pc'[Server] = "put" /\ target'[Server] = Engine
      BY <1>1, <2>1, CountShape, Who DEF CountInv, Typed, PutFor
    <3>3. batch' > 0
      BY <1>1, <2>1
    <3> QED
      BY <1>1, <3>1, <3>2, <3>3, Who DEF CountInv, Putting
  <2>2. CASE ~(n > 0)
    <3>1. UNCHANGED <<pc, target, pipe, overlapped>> /\ batch' = 0
      BY <1>1, <1>2, <2>2 DEF threads
    <3> QED
      BY <1>2, <3>1 DEF CountInv, Putting
  <2> QED
    BY <2>1, <2>2
<1>7. Counted'
  <2>1. (lines - 1) * MaxBatch = lines * MaxBatch - MaxBatch
    BY <1>1, <1>2, LineLess
  <2>2. parsed + lines * MaxBatch <= Lines * MaxBatch
    BY DEF CountInv, Counted
  <2> DEFINE k == lines * MaxBatch
             m == Lines * MaxBatch
  <2> HIDE DEF k, m
  <2>3. k \in Nat /\ m \in Nat /\ parsed + k <= m /\ (lines - 1) * MaxBatch = k - MaxBatch
    BY <1>2, <2>1, <2>2 DEF k, m
  <2>4. parsed + n + (k - MaxBatch) <= m
    BY <1>2, <2>3
  <2>5. parsed' + lines' * MaxBatch <= Lines * MaxBatch
    BY <1>1, <2>3, <2>4 DEF m
  <2> QED
    BY <1>1, <1>3, <2>5, Who DEF CountInv, Counted
<1>8. NothingVanishes'
  <2>1. InHand(Handlers)' = InHand(Handlers) /\ InHand(Workers)' = InHand(Workers)
        /\ InPipes(Handlers)' = InPipes(Handlers)
    BY <1>3, <1>4, Who
  <2>2. /\ handled \in Nat /\ InHand(Handlers) \in Nat /\ InPipes(Handlers) \in Nat
    BY CountShape
  <2>3. parsed = handled + batch + InHand(Handlers) + InPipes(Handlers)
    BY DEF CountInv, NothingVanishes
  <2>4. parsed' = handled' + batch' + InHand(Handlers)' + InPipes(Handlers)'
    BY <1>1, <1>2, <2>1, <2>2, <2>3
  <2> QED
    BY <1>1, <2>1, <2>4 DEF CountInv, NothingVanishes
<1> QED
  BY <1>5, <1>6, <1>7, <1>8

(* A put puts its signal into the pipe of the component t it is for.       *)
LEMMA PutOne ==
  ASSUME CountInv, NEW t \in Components, pipe' = [pipe EXCEPT ![t] = @ + 1],
         pipe[t] < Capacity - 1 \/ (t = Flusher /\ overlapped), overlapped' = overlapped
  PROVE  /\ pipe' \in [Components -> Nat]
         /\ \A d \in Components : pipe'[d] < Capacity \/ (d = Flusher /\ overlapped')
         /\ \A C : /\ InPipes(C)' \in Nat
                   /\ t \in C => InPipes(C)' = InPipes(C) + 1
                   /\ t \notin C => InPipes(C)' = InPipes(C)
<1>1. /\ pipe' = [pipe EXCEPT ![t] = pipe[t] + 1]
      /\ pipe \in [Components -> Nat] /\ pipe[t] \in Nat /\ Capacity \in Nat
      /\ pipe[t] + 1 \in Nat
  BY CountShape, Bounds
<1>2. pipe' \in [Components -> Nat]
  BY <1>1
<1>3. ASSUME NEW d \in Components
      PROVE  pipe'[d] < Capacity \/ (d = Flusher /\ overlapped')
  <2>1. CASE d = t
    <3>1. pipe'[d] = pipe[t] + 1
      BY <1>1, <2>1
    <3>2. pipe[t] < Capacity - 1 => pipe'[d] < Capacity
      BY <1>1, <3>1
    <3> QED
      BY <2>1, <3>2
  <2>2. CASE d # t
    <3>1. pipe'[d] = pipe[d]
      BY <1>1, <2>2
    <3> QED
      BY <3>1 DEF CountInv, Typed
  <2> QED
    BY <2>1, <2>2
<1>4. ASSUME NEW C
      PROVE  /\ InPipes(C)' \in Nat
             /\ t \in C => InPipes(C)' = InPipes(C) + 1
             /\ t \notin C => InPipes(C)' = InPipes(C)
  <2>1. /\ InPipes(C) \in Nat /\ InPipes(C)' \in Nat
        /\ t \in C => InPipes(C)' + pipe[t] = InPipes(C) + (pipe[t] + 1)
        /\ t \notin C => InPipes(C)' = InPipes(C)
    BY <1>1, PipeChange
  <2> QED
    BY <1>1, <2>1
<1> QED
  BY <1>2, <1>3, <1>4

(* A sole writer that finds the pipe not full finds it less than full. *)
LEMMA RoomIsRoom ==
  ASSUME CountInv, NEW t \in Components, Room(t)
  PROVE  pipe[t] < Capacity - 1 \/ (t = Flusher /\ overlapped)
<1>1. pipe[t] \in Nat /\ Capacity \in Nat /\ pipe[t] # Capacity - 1
  BY CountShape, Bounds DEF Room
<1>2. pipe[t] < Capacity \/ (t = Flusher /\ overlapped)
  BY DEF CountInv, Typed
<1>3. pipe[t] < Capacity => pipe[t] < Capacity - 1
  BY <1>1
<1> QED
  BY <1>2, <1>3

(* The put of the server: one signal less in the batch. *)
LEMMA ServerPutCounts ==
  ASSUME CountInv, Put(Server)
  PROVE  Typed' /\ Putting' /\ Counted' /\ NothingVanishes'
<1>1. /\ pc' = [pc EXCEPT ![Server] = IF batch > 1 THEN "put" ELSE "loop"]
      /\ batch' = batch - 1 /\ pc[Server] = "put" /\ Room(target[Server])
      /\ pipe' = [pipe EXCEPT ![target[Server]] = @ + 1]
      /\ UNCHANGED <<running, target, overlapped, lines, eof, parsed, handled, frozen, flushed>>
  BY Who DEF Put, input, counts
<1>2. target[Server] = Engine
  BY <1>1 DEF CountInv, Putting
<1>3. /\ pipe' \in [Components -> Nat] /\ pipe' = [pipe EXCEPT ![Engine] = @ + 1]
      /\ \A d \in Components : pipe'[d] < Capacity \/ (d = Flusher /\ overlapped')
      /\ InPipes(Handlers)' = InPipes(Handlers) + 1
  BY <1>1, <1>2, Who, RoomIsRoom, PutOne
<1>4. /\ batch > 0 /\ batch \in Nat /\ batch - 1 \in 0 .. MaxBatch
  <2>1. batch > 0 /\ batch \in 0 .. MaxBatch /\ batch \in Nat /\ MaxBatch \in Nat
    BY <1>1, CountShape, Bounds DEF CountInv, Putting, Typed
  <2> QED
    BY <2>1
<1>5. InHand(Handlers)' = InHand(Handlers) /\ InHand(Workers)' = InHand(Workers)
  BY <1>1, Who, CountShape, HandChange
<1>6. Typed'
  BY <1>1, <1>3, <1>4 DEF CountInv, Typed
<1>7. pipe'[Flusher] = pipe[Flusher]
  BY <1>3, Who, CountShape
<1>8. Putting'
  <2>1. \A d \in Components : d # Server => pc'[d] = pc[d]
    BY <1>1, CountShape
  <2>2. pc'[Server] = (IF batch > 1 THEN "put" ELSE "loop") /\ (batch > 1 <=> batch' > 0)
    BY <1>1, <1>4, CountShape, Who
  <2> QED
    BY <1>1, <1>7, <2>1, <2>2, Who DEF CountInv, Putting
<1>9. Counted'
  BY <1>1, <1>5 DEF CountInv, Counted
<1>10. NothingVanishes'
  <2>1. /\ handled \in Nat /\ InHand(Handlers) \in Nat /\ InPipes(Handlers) \in Nat
    BY CountShape
  <2>2. handled' + batch' + InHand(Handlers)' + InPipes(Handlers)'
          = handled + batch + InHand(Handlers) + InPipes(Handlers)
    BY <1>1, <1>3, <1>4, <1>5, <2>1
  <2> QED
    BY <1>1, <1>5, <1>7, <2>2 DEF CountInv, NothingVanishes
<1> QED
  BY <1>6, <1>8, <1>9, <1>10

(* The put of the engine: from its hand into the pipe of a worker. *)
LEMMA EnginePutCounts ==
  ASSUME CountInv, Put(Engine)
  PROVE  Typed' /\ Putting' /\ Counted' /\ NothingVanishes'
<1> DEFINE t == target[Engine]
<1>1. /\ pc' = [pc EXCEPT ![Engine] = "loop"] /\ pc[Engine] = "put" /\ Room(t)
      /\ pipe' = [pipe EXCEPT ![t] = @ + 1]
      /\ UNCHANGED <<running, target, overlapped, batch, lines, eof, parsed, handled, frozen,
                     flushed>>
  BY Who DEF Put, input, counts
<1>2. t \in Workers
  BY <1>1 DEF CountInv, Putting
<1> HIDE DEF t
<1>3. /\ pipe' \in [Components -> Nat]
      /\ \A d \in Components : pipe'[d] < Capacity \/ (d = Flusher /\ overlapped')
      /\ InPipes(Handlers)' = InPipes(Handlers) + 1
  BY <1>1, <1>2, Who, RoomIsRoom, PutOne
<1>4. /\ InHand(Handlers) = InHand(Handlers)' + 1 /\ InHand(Handlers)' \in Nat
      /\ InHand(Workers)' = InHand(Workers)
  <2>1. pc[Engine] \in InPut /\ "loop" \notin InPut
    BY <1>1, NotPutting
  <2> QED
    BY <1>1, <2>1, Who, HandFreed
<1>5. Typed'
  BY <1>1, <1>3 DEF CountInv, Typed
<1>6. pipe'[Flusher] = pipe[Flusher]
  BY <1>1, <1>2, Who, CountShape
<1>7. Putting'
  <2>1. \A d \in Components : d # Engine => pc'[d] = pc[d]
    BY <1>1, CountShape
  <2>2. pc'[Engine] = "loop"
    BY <1>1, CountShape, Who
  <2> QED
    BY <1>1, <1>6, <2>1, <2>2, Who DEF CountInv, Putting
<1>8. Counted'
  BY <1>1, <1>4 DEF CountInv, Counted
<1>9. NothingVanishes'
  <2>1. /\ handled \in Nat /\ batch \in Nat /\ InPipes(Handlers) \in Nat
    BY CountShape
  <2>2. handled' + batch' + InHand(Handlers)' + InPipes(Handlers)'
          = handled + batch + InHand(Handlers) + InPipes(Handlers)
    BY <1>1, <1>3, <1>4, <2>1
  <2> QED
    BY <1>1, <1>4, <1>6, <2>2 DEF CountInv, NothingVanishes
<1> QED
  BY <1>5, <1>7, <1>8, <1>9

(* A worker has found room; it is the one worker in a put, if no puts have *)
(* overlapped.                                                             *)
LEMMA WaitCounts ==
  ASSUME CountInv, NEW w \in Workers, WaitForRoom(w)
  PROVE  Typed' /\ Putting' /\ Counted' /\ NothingVanishes'
<1>1. /\ pc' = [pc EXCEPT ![w] = "store"] /\ pc[w] = "put" /\ Room(Flusher)
      /\ UNCHANGED <<running, target, pipe, overlapped, batch, lines, eof, parsed, handled,
                     frozen, flushed>>
  BY DEF WaitForRoom, input, counts, pipes
<1>2. \A C : InHand(C)' = InHand(C)
  BY <1>1, Who, HandsKept, NotPutting
<1>3. \A C : InPipes(C)' = InPipes(C)
  BY <1>1 DEF InPipes
<1>4. Typed' /\ Counted' /\ NothingVanishes'
  BY <1>1, <1>2, <1>3 DEF CountInv, Typed, Counted, NothingVanishes
<1>5. pipe[Flusher] < Capacity - 1 \/ overlapped
  BY <1>1, Who, RoomIsRoom
<1>6. Putting'
  <2>1. \A d \in Components : d # w => pc'[d] = pc[d]
    BY <1>1, CountShape
  <2>2. pc'[Server] = pc[Server] /\ pc'[Engine] = pc[Engine] /\ pc'[Flusher] = pc[Flusher]
    BY <2>1, Who
  <2>3. \A v \in Workers : pc'[v] \in InPut => pc[v] \in InPut
    BY <1>1, <2>1, NotPutting, Who
  <2> QED
    BY <1>1, <1>5, <2>2, <2>3 DEF CountInv, Putting
<1> QED
  BY <1>4, <1>6

(* The put of a worker: its frozen memtable is the flusher's and its       *)
(* request is done with.                                                   *)
LEMMA StoreCounts ==
  ASSUME CountInv, NEW w \in Workers, Store(w)
  PROVE  Typed' /\ Putting' /\ Counted' /\ NothingVanishes'
<1>1. /\ pc' = [pc EXCEPT ![w] = "loop"] /\ pc[w] = "store" /\ handled' = handled + 1
      /\ pipe' = [pipe EXCEPT ![Flusher] = @ + 1]
      /\ UNCHANGED <<running, target, overlapped, batch, lines, eof, parsed, frozen, flushed>>
  BY DEF Store, input
<1>2. pipe[Flusher] < Capacity - 1 \/ overlapped
  BY <1>1 DEF CountInv, Putting
<1>3. /\ pipe' \in [Components -> Nat]
      /\ \A d \in Components : pipe'[d] < Capacity \/ (d = Flusher /\ overlapped')
      /\ InPipes(Handlers)' = InPipes(Handlers)
  BY <1>1, <1>2, Who, PutOne
<1>4. /\ InHand(Handlers) = InHand(Handlers)' + 1 /\ InHand(Handlers)' \in Nat
      /\ InHand(Workers) = InHand(Workers)' + 1 /\ InHand(Workers)' \in Nat
  <2>1. pc[w] \in InPut /\ "loop" \notin InPut
    BY <1>1, NotPutting
  <2> QED
    BY <1>1, <2>1, Who, HandFreed
<1>5. /\ handled \in Nat /\ batch \in Nat /\ frozen \in Nat /\ flushed \in Nat
      /\ pipe[Flusher] \in Nat /\ pipe'[Flusher] = pipe[Flusher] + 1
      /\ InPipes(Handlers) \in Nat
  BY <1>1, CountShape, Who
<1>6. Typed'
  BY <1>1, <1>3, <1>5 DEF CountInv, Typed
<1>7. Putting'
  <2>1. \A d \in Components : d # w => pc'[d] = pc[d]
    BY <1>1, CountShape
  <2>2. pc'[Server] = pc[Server] /\ pc'[Engine] = pc[Engine] /\ pc'[Flusher] = pc[Flusher]
    BY <2>1, Who
  <2>3. pc'[w] = "loop"
    BY <1>1, CountShape, Who
  <2>4. overlapped \/ \A v \in Workers : pc[v] \in InPut => v = w
    BY <1>1, NotPutting DEF CountInv, Putting
  <2>5. overlapped \/ \A v \in Workers : pc'[v] \notin InPut
    BY <2>1, <2>3, <2>4, NotPutting, Who
  <2> QED
    BY <1>1, <2>2, <2>5, NotPutting DEF CountInv, Putting
<1>8. Counted'
  <2>1. frozen' <= handled' + InHand(Workers)'
    BY <1>1, <1>4, <1>5 DEF CountInv, Counted
  <2> QED
    BY <1>1, <2>1 DEF CountInv, Counted
<1>9. NothingVanishes'
  <2>1. handled' + batch' + InHand(Handlers)' + InPipes(Handlers)'
          = handled + batch + InHand(Handlers) + InPipes(Handlers)
    BY <1>1, <1>3, <1>4, <1>5
  <2>2. flushed' + InHand(Workers)' + pipe'[Flusher] = flushed + InHand(Workers) + pipe[Flusher]
    BY <1>1, <1>4, <1>5
  <2> QED
    BY <1>1, <2>1, <2>2 DEF CountInv, NothingVanishes
<1> QED
  BY <1>6, <1>7, <1>8, <1>9
-----------------------------------------------------------------------------
(* One step of main, of the clients or of a thread. *)
LEMMA CountStep == CountInv /\ [Next]_vars => CountInv'
<1> SUFFICES ASSUME CountInv, [Next]_vars
             PROVE  CountInv'
  OBVIOUS
<1>1. Joined'
  BY JoinedStep DEF CountInv
<1> SUFFICES Typed' /\ Putting' /\ Counted' /\ NothingVanishes'
  BY <1>1 DEF CountInv
<1> USE DEF input, counts, threads, pipes
<1>2. CASE Run
  <2>1. next \in Components /\ pc[next] = "none" /\ pc' = [pc EXCEPT ![next] = "spawned"]
    BY <1>2, SomeComponents DEF CountInv, Joined, Run
  <2>2. Typed'
    BY <1>2 DEF CountInv, Typed, Run
  <2>3. "none" \notin InPut /\ "spawned" \notin InPut
    BY DEF InPut
  <2>4. UNCHANGED <<target, pipes, batch, lines, counts>>
    BY <1>2 DEF Run
  <2> QED
    BY <2>1, <2>2, <2>3, <2>4, CountKept
<1>3. CASE Quit \/ Stop \/ Join \/ Clean
  <2>1. UNCHANGED <<pc, target, pipes, batch, lines, eof, counts>>
    BY <1>3 DEF Quit, Stop, Join, Clean
  <2>2. running' \in [Components -> BOOLEAN]
    BY <1>3 DEF CountInv, Typed, Quit, Stop, Join, Clean
  <2> QED
    BY <2>1, <2>2, CountStill DEF CountInv, Typed
<1>4. CASE ClientsClose \/ UNCHANGED vars
  <2>1. UNCHANGED <<running, pc, target, pipes, batch, lines, counts>> /\ eof' \in BOOLEAN
    BY <1>4 DEF ClientsClose, vars, CountInv, Typed
  <2> QED
    BY <2>1, CountStill DEF CountInv, Typed
<1>5. ASSUME NEW c \in Components, Start(c) \/ Leave(c) \/ Test(c) \/ GetNothing(c)
      PROVE  Typed' /\ Putting' /\ Counted' /\ NothingVanishes'
  <2>1. /\ UNCHANGED <<target, pipes, batch, lines, eof, counts>>
        /\ pc[c] \in {"spawned", "loop", "get"}
        /\ \E x \in {"loop", "get", "done"} : pc' = [pc EXCEPT ![c] = x]
    BY <1>5 DEF Start, Leave, Test, GetNothing
  <2>2. running' \in [Components -> BOOLEAN]
    BY <1>5 DEF CountInv, Typed, Start, Leave, Test, GetNothing
  <2>3. \A x \in {"spawned", "loop", "get", "done"} : x \notin InPut
    BY DEF InPut
  <2>4. Putting' /\ Counted' /\ NothingVanishes'
    BY <2>1, <2>3, CountKept
  <2> QED
    BY <2>1, <2>2, <2>4 DEF CountInv, Typed
<1>6. CASE ServerEnds
  <2>1. /\ UNCHANGED <<running, target, pipes, batch, lines, eof, counts>>
        /\ pc[Server] = "loop" /\ pc' = [pc EXCEPT ![Server] = "done"]
    BY <1>6 DEF ServerEnds
  <2>2. "loop" \notin InPut /\ "done" \notin InPut
    BY DEF InPut
  <2>3. Putting' /\ Counted' /\ NothingVanishes'
    BY <2>1, <2>2, CountKept, Who
  <2> QED
    BY <2>1, <2>3 DEF CountInv, Typed
<1>7. ASSUME NEW c \in Components, Put(c)
      PROVE  Typed' /\ Putting' /\ Counted' /\ NothingVanishes'
  <2>1. c \in {Server, Engine}
    BY <1>7 DEF Put
  <2> QED
    BY <1>7, <2>1, ServerPutCounts, EnginePutCounts
<1>8. CASE ServerReads \/ EngineTakes \/ FlusherFlushes \/ FlusherMisses
  BY <1>8, ReadCounts, EngineCounts, FlushCounts
<1>9. ASSUME NEW w \in Workers,
             WorkerHandles(w) \/ WorkerFlushes(w) \/ WaitForRoom(w) \/ Store(w)
      PROVE  Typed' /\ Putting' /\ Counted' /\ NothingVanishes'
  BY <1>9, HandleCounts, FreezeCounts, WaitCounts, StoreCounts
<1> QED
  BY <1>2, <1>3, <1>4, <1>5, <1>6, <1>7, <1>8, <1>9 DEF Next, Main, Thread, Step

(* The invariant of the counts holds in every state. *)
THEOREM CountsAlways == Spec => []CountInv
BY CountInit, CountStep, PTL DEF Spec

(* Whenever "q" is entered, with however many workers, whatever lengths of *)
(* pipes and however the threads leave their loops: every request parsed   *)
(* is done with, in the batch, in a pipe or in the hands of a thread, and  *)
(* as long as no puts of two workers have overlapped every memtable frozen *)
(* is flushed or on its way to the flusher (the loops of the components    *)
(* and the order of flag, get and put in them).                            *)
THEOREM NothingVanishesEver == Spec => []NothingVanishes
<1>1. CountInv => NothingVanishes
  BY DEF CountInv
<1> QED
  BY <1>1, CountsAlways, PTL

(* Every variable keeps its type: no pipe with one writer holds more than  *)
(* it can, nor does the flusher's before puts overlap in it, no signal is  *)
(* for the server, and nothing is counted that was not read.               *)
THEOREM LifecycleTypes == Spec => []TypeOK
<1>1. CountInv => TypeOK
  <2> SUFFICES ASSUME CountInv
               PROVE  TypeOK
    OBVIOUS
  <2> DEFINE k == lines * MaxBatch
             m == Lines * MaxBatch
  <2>1. k \in Nat /\ m \in Nat /\ parsed + k <= m
    BY CountShape DEF CountInv, Counted
  <2> HIDE DEF k, m
  <2>2. /\ parsed \in Nat /\ handled \in Nat /\ frozen \in Nat /\ flushed \in Nat
        /\ batch \in Nat /\ InHand(Handlers) \in Nat /\ InPipes(Handlers) \in Nat
        /\ InHand(Workers) \in Nat /\ pipe[Flusher] \in Nat
    BY CountShape, Who
  <2>3. /\ parsed = handled + batch + InHand(Handlers) + InPipes(Handlers)
        /\ flushed + InHand(Workers) + pipe[Flusher] <= frozen
        /\ frozen <= handled + InHand(Workers) /\ InHand(Workers) <= InHand(Handlers)
    BY HandShape DEF CountInv, NothingVanishes, Counted
  <2>4. parsed <= m /\ handled <= m /\ frozen <= m /\ flushed <= m /\ pipe[Flusher] <= m
    BY <2>1, <2>2, <2>3
  <2>5. {parsed, handled, frozen, flushed} \subseteq 0 .. m
    BY <2>1, <2>2, <2>4
  <2> QED
    BY <2>4, <2>5 DEF CountInv, Joined, Typed, TypeOK, m
<1> QED
  BY <1>1, CountsAlways, PTL
=============================================================================
