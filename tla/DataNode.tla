------------------------------ MODULE DataNode ------------------------------
(***************************************************************************)
(* The pipeline of a data node in front of its region workers:             *)
(* RegionServer::run reads batches of requests and parses them             *)
(* (src/src/dataNode/regionServer.cpp), MitoEngine::run hands each signal  *)
(* to the worker of its region (mitoEngine.cpp).  Workers and flusher are  *)
(* those of RegionWorker.                                                  *)
(*                                                                         *)
(* The pipe from the server to the engine has one writer and one reader    *)
(* and is a queue (the theorem Refinement of PipeRingProofs).  A line of   *)
(* input is parsed entry by entry; what an entry says is chosen when its   *)
(* turn comes.                                                             *)
(***************************************************************************)
EXTENDS RegionWorker

CONSTANTS Kinds,    \* kinds of request the clients send
          MaxBatch  \* bound: requests on one input line

ASSUME NodeAssumption == /\ Kinds \subseteq {"WRITE", "CREATE", "OPEN", "CLOSE", "DROP"}
                         /\ MaxBatch \in Nat \ {0}

ASSUME NoneAssumption == \A id \in 1 .. MaxRequests : None \notin RequestsWith(id)

VARIABLES regionEngineMap, \* the regions the server has an engine for
          unread,          \* entries of the line that are still to be parsed
          batch,           \* signals parsed and not yet sent
          serverPipe,      \* the pipe to the engine
          engineSignal,    \* the signal the engine is handling, or None
          sent, handled    \* history, per region: ids parsed into signals, ids
                           \* taken up by a worker, each in order

server   == <<regionEngineMap, unread, batch>>
engine   == <<serverPipe, engineSignal>>
traces   == <<sent, handled>>
nodeVars == <<server, engine, traces>>

NodeInit == /\ Init
            /\ regionEngineMap = {}
            /\ unread = 0
            /\ batch = << >>
            /\ serverPipe = << >>
            /\ engineSignal = None
            /\ sent = [r \in Regions |-> << >>]
            /\ handled = [r \in Regions |-> << >>]

workers == <<enginePipe, contexts, put, flusherPipe, flushing, disk, history>>
-----------------------------------------------------------------------------
(* RegionServer *)

(* getRequest, once the last batch has been sent: a line of n entries.     *)
ReceiveBatch == \E n \in 1 .. MaxBatch :
  /\ unread = 0 /\ batch = << >>
  /\ requests + n <= MaxRequests
  /\ unread' = n
  /\ UNCHANGED <<vars, regionEngineMap, batch, engine, traces>>

(* Faulty variant: requests for unknown regions are let through. *)
AllowsAny(q) == TRUE

(* A request for a region without an engine fails unless it creates it.    *)
Allows(q) == q.region \in regionEngineMap \/ q.kind = "CREATE"

(* One turn of the loop of parseRequests: the next id, a signal, and of a  *)
(* CREATE the region is entered into the map here and now.                 *)
ParseRequest(q) ==
  /\ unread > 0
  /\ q.kind \in Kinds /\ Allows(q)
  /\ unread' = unread - 1
  /\ regionEngineMap' = IF q.kind = "CREATE" THEN regionEngineMap \cup {q.region}
                        ELSE regionEngineMap
  /\ requests' = q.id
  /\ batch' = Append(batch, q)
  /\ sent' = [sent EXCEPT ![q.region] = Append(@, q.id)]
  /\ UNCHANGED <<workers, engine, handled>>

(* One turn for an entry that is not allowed or lacks a parameter.         *)
RejectRequest ==
  /\ unread > 0
  /\ unread' = unread - 1
  /\ UNCHANGED <<vars, regionEngineMap, batch, engine, traces>>

parseRequests == RejectRequest \/ \E q \in NextRequests : ParseRequest(q)

(* Faulty variant: the newest signal of the batch goes first. *)
SendNewest ==
  /\ unread = 0 /\ batch # << >>
  /\ Len(serverPipe) < PipeBound
  /\ serverPipe' = Append(serverPipe, batch[Len(batch)])
  /\ batch' = SubSeq(batch, 1, Len(batch) - 1)
  /\ UNCHANGED <<vars, regionEngineMap, unread, engineSignal, traces>>

(* Faulty variant: no room in the pipe, and the signal is given up. *)
SendOrDrop ==
  /\ unread = 0 /\ batch # << >>
  /\ serverPipe' = IF Len(serverPipe) < PipeBound THEN Append(serverPipe, Head(batch))
                   ELSE serverPipe
  /\ batch' = Tail(batch)
  /\ UNCHANGED <<vars, regionEngineMap, unread, engineSignal, traces>>

(* sendRegionRequest, for the next signal of the batch; its put waits for  *)
(* room in the pipe.  The region of a signal is in the map by now.         *)
SendRegionRequest ==
  /\ unread = 0 /\ batch # << >>
  /\ Len(serverPipe) < PipeBound
  /\ serverPipe' = IF Head(batch).region \in regionEngineMap
                   THEN Append(serverPipe, Head(batch)) ELSE serverPipe
  /\ batch' = Tail(batch)
  /\ UNCHANGED <<vars, regionEngineMap, unread, engineSignal, traces>>
-----------------------------------------------------------------------------
(* MitoEngine *)

(* getSignal *)
TakeSignal ==
  /\ engineSignal = None
  /\ serverPipe # << >>
  /\ engineSignal' = Head(serverPipe)
  /\ serverPipe' = Tail(serverPipe)
  /\ UNCHANGED <<vars, server, traces>>

(* handleSignal; its put waits for room in the pipe of the worker. *)
HandleSignal ==
  /\ engineSignal # None
  /\ Dispatch(engineSignal)
  /\ engineSignal' = None
  /\ UNCHANGED <<requests, contexts, put, flusherPipe, flushing, disk, history,
                 server, serverPipe, traces>>
-----------------------------------------------------------------------------
(* A worker takes up a signal, or goes on with one. *)
NodeWorker(w) ==
  \/ /\ Handle(w)
     /\ LET q == Head(enginePipe[w])
        IN  handled' = [handled EXCEPT ![q.region] = Append(@, q.id)]
     /\ UNCHANGED <<server, engine, sent>>
  \/ (PutStore(w) \/ PutReturn(w)) /\ UNCHANGED nodeVars

NodeFlusher == Flusher /\ UNCHANGED nodeVars

NodeNext == \/ ReceiveBatch \/ parseRequests \/ SendRegionRequest \/ TakeSignal \/ HandleSignal
            \/ NodeFlusher \/ \E w \in Workers : NodeWorker(w)

NodeSpec == NodeInit /\ [][NodeNext]_<<vars, nodeVars>>

(* Every thread polls or spins, and the scheduler runs each of them; the   *)
(* clients need not send anything.                                         *)
NodeFairness == /\ WF_<<vars, nodeVars>>(parseRequests \/ SendRegionRequest)
                /\ WF_<<vars, nodeVars>>(TakeSignal \/ HandleSignal)
                /\ WF_<<vars, nodeVars>>(NodeFlusher)
                /\ \A w \in Workers : WF_<<vars, nodeVars>>(NodeWorker(w))

FairNodeSpec == NodeSpec /\ NodeFairness
-----------------------------------------------------------------------------
(* Properties. *)

NodeTypeOK ==
  /\ TypeOK
  /\ regionEngineMap \subseteq Regions
  /\ unread + Len(batch) <= MaxBatch /\ Len(serverPipe) <= PipeBound
  /\ sent \in [Regions -> Seq(Ids)] /\ handled \in [Regions -> Seq(Ids)]

(* The requests of a region are taken up in the order in which the server  *)
(* parsed them, none skipped, none twice, whichever threads and pipes they *)
(* went through (sendRegionRequest, MitoEngine::handleSignal).             *)
HandledInOrder == \A r \in Regions :
  /\ Len(handled[r]) <= Len(sent[r])
  /\ \A i \in 1 .. Len(handled[r]) : handled[r][i] = sent[r][i]

(* A region is managed by one worker alone, which is why workers keep      *)
(* their contexts without locks (regionIDToWorkerID).                      *)
OneOwner == \A r \in Regions : \A v, w \in Workers :
  (Open(v, r) \/ Closed(v, r)) /\ (Open(w, r) \/ Closed(w, r)) => v = w

(* Of a region the server does not know there is nothing in the node, not  *)
(* even a request on its way (the check of parseRequests).                 *)
KnownRegions == \A r \in Regions \ regionEngineMap :
  /\ ~Exists(r) /\ sent[r] = << >> /\ handled[r] = << >>
  /\ accepted[r] = << >>

(* The node is server and engine in front of the workers and the flusher   *)
(* that RegionWorker describes: what reaches a worker, through batch,      *)
(* pipes and engine, are requests numbered as RegionWorker numbers them,   *)
(* none missing, twice or out of turn, and nothing else in the node        *)
(* touches contexts, memtables, pipe and disk.  What is shown of           *)
(* RegionWorker, whose clients may do anything here, holds in the node.    *)
handedOver == requests - Len(batch) - Len(serverPipe) - Len(Optional(engineSignal))

Behind == INSTANCE RegionWorker WITH requests <- handedOver, Recreate <- TRUE

FeedsWorkers == Behind!Spec

(* Every request that became a signal is taken up by a worker: no put      *)
(* waits for ever (the polling loops of engine, worker and flusher).       *)
EveryRequestHandled == \A id \in Ids :
  (\E r \in Regions : id \in {sent[r][i] : i \in DOMAIN sent[r]})
    ~> (\E r \in Regions : id \in {handled[r][i] : i \in DOMAIN handled[r]})

=============================================================================
