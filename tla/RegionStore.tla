---------------------------- MODULE RegionStore -----------------------------
(***************************************************************************)
(* What a data node promises of its regions while it runs: a life cycle    *)
(* (created closed, opened, closed, dropped) and, per region, a log to     *)
(* which an open region adds the rows written to it and from which nothing *)
(* is ever taken away.                                                     *)
(***************************************************************************)
EXTENDS Naturals, Sequences

CONSTANTS Regions, \* region ids
          Rows     \* rows that may be written

VARIABLES status, log

svars == <<status, log>>

Init == /\ status = [r \in Regions |-> "absent"]
        /\ log = [r \in Regions |-> << >>]

Move(r, from, to) == /\ status[r] \in from
                     /\ status' = [status EXCEPT ![r] = to]
                     /\ UNCHANGED log

Create(r) == Move(r, {"absent", "dropped"}, "closed")
Open(r)   == Move(r, {"closed"}, "open")
Close(r)  == Move(r, {"open"}, "closed")
Drop(r)   == Move(r, {"closed"}, "dropped")

Write(r, row) == /\ status[r] = "open"
                 /\ log' = [log EXCEPT ![r] = Append(@, row)]
                 /\ UNCHANGED status

Next == \E r \in Regions : \/ Create(r) \/ Open(r) \/ Close(r) \/ Drop(r)
                           \/ \E row \in Rows : Write(r, row)

Spec == Init /\ [][Next]_svars
=============================================================================
