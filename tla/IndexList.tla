------------------------------ MODULE IndexList ------------------------------
(***************************************************************************)
(* What an ordered list of index entries promises its readers, whatever    *)
(* holds the entries: insertions take effect one after the other, and an   *)
(* answer lists for each key wanted what was there for it at some moment   *)
(* of the search, keys ascending, the newest entry of a key first.  The    *)
(* moments follow the keys: what is listed for a key is never older than   *)
(* what is listed for a smaller one.  An answer for several keys need not  *)
(* be what was there at one moment.                                        *)
(***************************************************************************)
EXTENDS Integers, Sequences

CONSTANTS Keys, \* keys, numbers
          None  \* no search

VARIABLES entries, \* keys in the order of their insertion
          search,  \* the keys wanted and how many entries there were, or None
          answer   \* entries listed by the last search, by their number

vars == <<entries, search, answer>>

Init == /\ entries = <<>>
        /\ search = None
        /\ answer = <<>>

Insert(k) == /\ entries' = Append(entries, k)
             /\ UNCHANGED <<search, answer>>

Begin(wanted) == /\ search = None
                 /\ search' = [keys |-> wanted, known |-> Len(entries)]
                 /\ answer' = <<>>
                 /\ UNCHANGED entries

Precedes(i, j) == entries[i] < entries[j] \/ (entries[i] = entries[j] /\ i > j)

(* Of each key wanted the entries up to the moment chosen for it, in order. *)
Lists(res, upTo) ==
  /\ {res[a] : a \in DOMAIN res} =
       {i \in DOMAIN entries : entries[i] \in DOMAIN upTo /\ i <= upTo[entries[i]]}
  /\ \A a, b \in DOMAIN res : a < b => Precedes(res[a], res[b])

End == /\ search # None
       /\ \E upTo \in [search.keys -> search.known .. Len(entries)] :
            /\ \A k, l \in search.keys : k < l => upTo[k] <= upTo[l]
            /\ answer' \in Seq(DOMAIN entries) /\ Lists(answer', upTo)
       /\ search' = None
       /\ UNCHANGED entries

Next == \/ \E k \in Keys : Insert(k)
        \/ \E wanted \in SUBSET Keys : Begin(wanted)
        \/ End

Spec == Init /\ [][Next]_vars
=============================================================================
