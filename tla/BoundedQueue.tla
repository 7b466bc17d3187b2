---------------------------- MODULE BoundedQueue ----------------------------
(***************************************************************************)
(* What the threads of a data node expect of the pipe between two of them: *)
(* a bounded first-in first-out queue that loses, invents and reorders     *)
(* nothing.  `buffer' holds what was put and not yet taken, oldest first;  *)
(* `received' is the history of what the reading thread was handed.        *)
(* Item(p, n) is the n-th pointer producer p puts; `sent[p]' counts the    *)
(* completed puts of p.                                                    *)
(***************************************************************************)
EXTENDS Naturals, Sequences

CONSTANTS Producers, \* the threads that call put
          Bound      \* how many items the queue can hold

VARIABLES buffer, received, sent

qvars == <<buffer, received, sent>>

Item(p, n) == <<p, n>>

Init == /\ buffer = << >>
        /\ received = << >>
        /\ sent = [p \in Producers |-> 0]

Put(p) == /\ Len(buffer) < Bound
          /\ buffer' = Append(buffer, Item(p, sent[p] + 1))
          /\ sent' = [sent EXCEPT ![p] = @ + 1]
          /\ UNCHANGED received

Get == /\ buffer # << >>
       /\ received' = Append(received, Head(buffer))
       /\ buffer' = Tail(buffer)
       /\ UNCHANGED sent

Next == Get \/ \E p \in Producers : Put(p)

Spec == Init /\ [][Next]_qvars
=============================================================================
