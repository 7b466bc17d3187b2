------------------------------ MODULE IndexNode ------------------------------
(***************************************************************************)
(* The index node of the first version (src/src-old/IndexNode and lib):    *)
(* a receiver takes datagrams of index entries from the network and puts   *)
(* them into a ring, a generator moves them into the memory index, and a   *)
(* querier searches it meanwhile.  The threads are put together and        *)
(* stopped as the text of main.cpp does that is commented out now.         *)
(*                                                                         *)
(* The network is external: any datagram may come, so one may be lost,     *)
(* come twice or late.  The receiver trusts the length each entry gives of *)
(* itself: whatever it is, entries of some content are read, and with a    *)
(* length of 0 the same one for ever.                                      *)
(*                                                                         *)
(* The ring is the queue PipeRing shows it to be.  A list of the index     *)
(* takes an entry and answers a search in one step, as SkipList shows of a *)
(* search for one key; an entry is spread over four lists, each with its   *)
(* filter before it, one step after the other.                             *)
(***************************************************************************)
EXTENDS PrefixFilter, FiniteSets, SequencesExt

CONSTANTS Datagrams,    \* what may come: [entries, endless], see DatagramAssumption
          Queries,      \* what may be asked: a field and a value
          Capacity,     \* of the ring
          Narrow,       \* 2^32: positions listed have that many values
          MaxDatagrams, \* bound: datagrams that come
          MaxReceived,  \* bound: entries put into the ring
          None          \* nothing

ASSUME NodeAssumption == /\ Capacity \in Nat /\ Capacity > 1
                         /\ Narrow \in Nat \ {0}
                         /\ MaxDatagrams \in Nat /\ MaxReceived \in Nat

(* FlowIndex, whose key is of the one length or of the other.              *)
EntriesOf(n) == [src : Addresses(n), dst : Addresses(n), sport : Nat, dport : Nat,
                 position : Nat]
Entries == EntriesOf(V4Bytes) \cup EntriesOf(V6Bytes)

(* The entries read from a datagram; an endless one repeats its last entry,*)
(* whose length is 0.                                                      *)
ASSUME DatagramAssumption ==
  /\ Datagrams \subseteq [entries : Seq(Entries), endless : BOOLEAN]
  /\ None \notin Entries

(* parseQuery knows four fields. *)
ASSUME QueryAssumption == \A q \in Queries : q.field \in V4Types \cup PortTypes

VARIABLES
  ring,      \* entries between receiver and generator
  receiver,  \* [pc, buffer, endless, stop]
  generator, \* [pc, index, at, draining, stop]
  bits,      \* rows of the filter that are set
  lists,     \* per type: its entries, in the order of their insertion
  querier,   \* [pc, query, known]
  answer,    \* the answer to the last query
  main,      \* what main waits for: the querier, the receiver, the generator
  count,     \* datagrams come
  received, dropped \* history: entries put, and which of them were thrown away

history == <<received, dropped>>
index == <<bits, lists>>
vars == <<ring, receiver, generator, index, querier, answer, main, count, history>>

Init == /\ ring = <<>>
        /\ receiver = [pc |-> "start", buffer |-> <<>>, endless |-> FALSE, stop |-> TRUE]
        /\ generator = [pc |-> "start", index |-> None, at |-> 1,
                         draining |-> FALSE, stop |-> TRUE]
        /\ bits = {}
        /\ lists = [t \in Types |-> <<>>]
        /\ querier = [pc |-> "read", query |-> None, known |-> {}]
        /\ answer = None
        /\ main = "querier"
        /\ count = 0
        /\ received = <<>>
        /\ dropped = {}
-----------------------------------------------------------------------------
(* run() begins by clearing the flag: a stop that came before is lost.     *)
StartReceiver ==
  /\ receiver.pc = "start"
  /\ receiver' = [receiver EXCEPT !.pc = "test", !.stop = FALSE]
  /\ UNCHANGED <<ring, generator, index, querier, answer, main, count, history>>

(* The receiver tests its flag before it waits for a datagram, never while *)
(* it waits, and puts every entry of the one that comes.                   *)
TestStop ==
  /\ receiver.pc = "test"
  /\ receiver' = [receiver EXCEPT !.pc = IF receiver.stop THEN "done" ELSE "wait"]
  /\ UNCHANGED <<ring, generator, index, querier, answer, main, count, history>>

Receive(d) ==
  /\ receiver.pc = "wait"
  /\ count < MaxDatagrams
  /\ receiver' = [receiver EXCEPT !.pc = IF d.entries = <<>> THEN "test" ELSE "put",
                                  !.buffer = d.entries, !.endless = d.endless]
  /\ count' = count + 1
  /\ UNCHANGED <<ring, generator, index, querier, answer, main, history>>

(* recvfrom fails: the receiver ends. *)
ReceiveFails ==
  /\ receiver.pc = "wait"
  /\ receiver' = [receiver EXCEPT !.pc = "done"]
  /\ UNCHANGED <<ring, generator, index, querier, answer, main, count, history>>

(* What is left of the datagram after its first entry, which an endless    *)
(* one keeps when it is the last.                                          *)
Remaining == IF receiver.endless /\ Len(receiver.buffer) = 1
             THEN receiver.buffer ELSE Tail(receiver.buffer)

(* put waits while the ring holds all but one of its slots.                *)
PutIndex ==
  /\ receiver.pc = "put"
  /\ Len(ring) < Capacity - 1 /\ Len(received) < MaxReceived
  /\ ring' = Append(ring, Head(receiver.buffer))
  /\ received' = Append(received, Head(receiver.buffer))
  /\ receiver' = [receiver EXCEPT !.buffer = Remaining,
                                  !.pc = IF Remaining = <<>> THEN "test" ELSE "put"]
  /\ UNCHANGED <<generator, index, querier, answer, main, count, dropped>>
-----------------------------------------------------------------------------
(* readIndexFromBuffer: the entry taken, None if there is none. *)
Taken == IF ring = <<>> THEN None ELSE Head(ring)
Rest == IF ring = <<>> THEN <<>> ELSE Tail(ring)

(* How many of the entries received have been taken. *)
TakenNum == Len(received) - Len(ring)

StartGenerator ==
  /\ generator.pc = "start"
  /\ generator' = [generator EXCEPT !.pc = "get", !.stop = FALSE]
  /\ UNCHANGED <<ring, receiver, index, querier, answer, main, count, history>>

GetIndex ==
  /\ generator.pc = "get" /\ ~ generator.draining
  /\ generator' = [generator EXCEPT !.pc = "check", !.index = Taken]
  /\ ring' = Rest
  /\ UNCHANGED <<receiver, index, querier, answer, main, count, history>>

(* Faulty variant: the flag is not tested when there was no entry.         *)
CheckStopTaken ==
  /\ generator.pc = "check"
  /\ IF generator.stop /\ generator.index # None
     THEN generator' = [generator EXCEPT !.pc = "get", !.draining = TRUE, !.index = None]
     ELSE generator' = [generator EXCEPT !.at = 1,
                          !.pc = IF generator.index = None THEN "get" ELSE "filter"]
  /\ dropped' = IF generator.stop /\ generator.index # None
                THEN dropped \cup {TakenNum} ELSE dropped
  /\ UNCHANGED <<ring, receiver, index, querier, answer, main, count, received>>

(* The flag is tested when an entry may have been taken already: that one  *)
(* is not put anywhere.                                                    *)
CheckStop ==
  /\ generator.pc = "check"
  /\ IF generator.stop
     THEN generator' = [generator EXCEPT !.pc = "get", !.draining = TRUE, !.index = None]
     ELSE generator' = [generator EXCEPT !.at = 1,
                          !.pc = IF generator.index = None THEN "get" ELSE "filter"]
  /\ dropped' = IF generator.stop /\ generator.index # None
                THEN dropped \cup {TakenNum} ELSE dropped
  /\ UNCHANGED <<ring, receiver, index, querier, answer, main, count, received>>

(* Faulty variant: the second loop ends with the entry it has taken.       *)
DrainIndexOnce ==
  /\ generator.pc = "get" /\ generator.draining
  /\ generator' = [generator EXCEPT !.pc = "done", !.index = None]
  /\ ring' = Rest
  /\ UNCHANGED <<receiver, index, querier, answer, main, count, history>>

(* After the stop what is left in the ring is inserted.                    *)
DrainIndex ==
  /\ generator.pc = "get" /\ generator.draining
  /\ generator' = [generator EXCEPT !.pc = IF Taken = None THEN "done" ELSE "filter",
                     !.index = Taken, !.at = 1]
  /\ ring' = Rest
  /\ UNCHANGED <<receiver, index, querier, answer, main, count, history>>

(* The keys of an entry in the order they are inserted.                    *)
Fields(e) ==
  LET v6 == Len(e.src) = V6Bytes IN
  << [type |-> IF v6 THEN "SRCIPv6" ELSE "SRCIP", key |-> e.src],
     [type |-> IF v6 THEN "DSTIPv6" ELSE "DSTIP", key |-> e.dst],
     [type |-> "SRCPORT", key |-> e.sport],
     [type |-> "DSTPORT", key |-> e.dport] >>

Field == Fields(generator.index)[generator.at]

(* insertIndex: for each key the rows of the filter, then the list.        *)
InsertFilter ==
  /\ generator.pc = "filter"
  /\ bits' = bits \cup SetRows(Field.type, Field.key)
  /\ generator' = [generator EXCEPT !.pc = "list"]
  /\ UNCHANGED <<ring, receiver, lists, querier, answer, main, count, history>>

InsertList ==
  /\ generator.pc = "list"
  /\ lists' = [lists EXCEPT ![Field.type] =
                 Append(@, [key |-> Field.key, position |-> generator.index.position])]
  /\ generator' =
       IF generator.at < 4 THEN [generator EXCEPT !.pc = "filter", !.at = @ + 1]
       ELSE [generator EXCEPT !.pc = "get", !.index = None]
  /\ UNCHANGED <<ring, receiver, bits, querier, answer, main, count, history>>
-----------------------------------------------------------------------------
(* parseQuery: the type and the key a query is searched with.  A port is   *)
(* taken as the number it is; an address as its bytes come from the        *)
(* network, which as a number is the last first.                           *)
ParseQuery(q) ==
  IF q.field \in PortTypes THEN [type |-> q.field, key |-> q.value]
  ELSE [type |-> IF Len(q.value) = V4Bytes THEN q.field
                 ELSE IF q.field = "SRCIP" THEN "SRCIPv6" ELSE "DSTIPv6",
        key |-> Reverse(q.value)]

(* The positions a list has for a key, the newest first.                   *)
Positions(l, key) ==
  LET found[i \in 0 .. Len(l)] ==
        IF i = 0 THEN <<>>
        ELSE IF l[i].key = key THEN <<l[i].position>> \o found[i - 1] ELSE found[i - 1]
  IN  found[Len(l)]

(* Positions are listed as 32-bit numbers. *)
Narrowed(s) == [i \in DOMAIN s |-> s[i] % Narrow]

ReadQuery(q) ==
  /\ querier.pc = "read"
  /\ LET p == ParseQuery(q) IN
       querier' = [pc |-> "check", query |-> p,
                   known |-> Positions(lists[p.type], p.key)]
  /\ answer' = None
  /\ UNCHANGED <<ring, receiver, generator, index, main, count, history>>

(* searchIndex: the filter, and the list if it may have the key.           *)
CheckFilter ==
  /\ querier.pc = "check"
  /\ IF Has(bits, querier.query.type, querier.query.key)
     THEN querier' = [querier EXCEPT !.pc = "find"] /\ UNCHANGED answer
     ELSE querier' = [querier EXCEPT !.pc = "read"] /\ answer' = <<>>
  /\ UNCHANGED <<ring, receiver, generator, index, main, count, history>>

(* Faulty variant: the newest position alone is listed. *)
FindNewest ==
  /\ querier.pc = "find"
  /\ answer' = LET s == Narrowed(Positions(lists[querier.query.type], querier.query.key))
               IN  SubSeq(s, 1, IF s = <<>> THEN 0 ELSE 1)
  /\ querier' = [querier EXCEPT !.pc = "read"]
  /\ UNCHANGED <<ring, receiver, generator, index, main, count, history>>

Find ==
  /\ querier.pc = "find"
  /\ answer' = Narrowed(Positions(lists[querier.query.type], querier.query.key))
  /\ querier' = [querier EXCEPT !.pc = "read"]
  /\ UNCHANGED <<ring, receiver, generator, index, main, count, history>>

(* A line that begins with q. *)
Quit ==
  /\ querier.pc = "read"
  /\ querier' = [querier EXCEPT !.pc = "done"]
  /\ UNCHANGED <<ring, receiver, generator, index, answer, main, count, history>>
-----------------------------------------------------------------------------
(* main: when the querier has ended the receiver is told to stop, and when *)
(* that has ended the generator.                                           *)
StopReceiver ==
  /\ main = "querier" /\ querier.pc = "done"
  /\ main' = "receiver"
  /\ receiver' = [receiver EXCEPT !.stop = TRUE]
  /\ UNCHANGED <<ring, generator, index, querier, answer, count, history>>

StopGenerator ==
  /\ main = "receiver" /\ receiver.pc = "done"
  /\ main' = "generator"
  /\ generator' = [generator EXCEPT !.stop = TRUE]
  /\ UNCHANGED <<ring, receiver, index, querier, answer, count, history>>

Receiver == StartReceiver \/ TestStop \/ PutIndex
Generator == \/ StartGenerator \/ GetIndex \/ CheckStop \/ DrainIndex
             \/ InsertFilter \/ InsertList
Querier == CheckFilter \/ Find
Main == StopReceiver \/ StopGenerator

Next == \/ Receiver \/ Generator \/ Querier \/ Main
        \/ \E d \in Datagrams : Receive(d)
        \/ ReceiveFails
        \/ \E q \in Queries : ReadQuery(q)
        \/ Quit

(* Threads that can run do; nothing need come from the network or a user.  *)
Spec == /\ Init /\ [][Next]_vars
        /\ WF_vars(Receiver) /\ WF_vars(Generator)
        /\ WF_vars(Querier) /\ WF_vars(Main)
-----------------------------------------------------------------------------
(* An entry a list holds passes the filter before it, asked for as a whole *)
(* or by any number of leading bytes.                                      *)
FilterCoversLists ==
  \A t \in Types : \A i \in DOMAIN lists[t] :
    /\ Has(bits, t, lists[t][i].key)
    /\ t \notin PortTypes =>
         \A len \in 0 .. Len(lists[t][i].key) : HasPrefix(bits, t, lists[t][i].key, len)

(* An answer lists every position that was there for the key when the      *)
(* search began, behind those inserted meanwhile, and nothing that is not  *)
(* there.                                                                  *)
AnswersHold ==
  answer # None =>
    /\ IsSuffix(Narrowed(querier.known), answer)
    /\ IsSuffix(answer, Narrowed(Positions(lists[querier.query.type], querier.query.key)))

(* Whether entry n of those received has got into the list of type t.      *)
Entered(n, t) ==
  /\ n \notin dropped
  /\ \E i \in 1 .. 4 :
       /\ Fields(received[n])[i].type = t
       /\ n = TakenNum /\ generator.index # None =>
            generator.pc \in {"filter", "list"} /\ i < generator.at

(* The positions of the entries with the numbers S, in the order of coming.*)
PositionsOf(S, entries) ==
  LET from[n \in 0 .. Len(entries)] ==
        IF n = 0 THEN <<>>
        ELSE IF n \in S THEN Append(from[n - 1], entries[n].position) ELSE from[n - 1]
  IN  from[Len(entries)]

(* Every entry received is in the ring, or in the lists of its four keys,  *)
(* each list in the order of coming, or on its way there; but for one the  *)
(* generator had just taken when it was told to stop.                      *)
Accounted ==
  /\ Cardinality(dropped) <= 1
  /\ dropped # {} => generator.draining
  /\ \A t \in Types :
       [i \in DOMAIN lists[t] |-> lists[t][i].position]
         = PositionsOf({n \in 1 .. TakenNum : Entered(n, t)}, received)

(* A generator that is told to stop while it runs ends, with the ring      *)
(* empty.  (One told before it runs never ends: run() clears the flag.)    *)
StoppedDrains ==
  generator.stop /\ generator.pc # "start" ~> generator.pc = "done" /\ ring = <<>>
=============================================================================
