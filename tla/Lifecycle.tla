----------------------------- MODULE Lifecycle ------------------------------
(***************************************************************************)
(* Starting, stopping and cleaning up a data node                          *)
(* (src/src/dataNode/dataNode.cpp, main.cpp, dataNodeLib/                  *)
(* dataNodeComponent.hpp and the run functions of the components).         *)
(*                                                                         *)
(* Component 1 is the region server, 2 the engine, then come the workers,  *)
(* and N is the flusher: the order of DataNode's vector.  Every component  *)
(* but the server polls one pipe; a pipe is the number of signals in it,   *)
(* its writePos less its readPos: what they say does not matter here.      *)
(*                                                                         *)
(* The pipes of the engine and of the workers have one writer each, and a  *)
(* put into them takes effect in one step (PipeRing).  The flusher's has   *)
(* all workers as writers, and a put is the steps its code has: once two   *)
(* of them overlap, nothing says what the slots hold (RegionWorker has     *)
(* them), and what the flusher gets may be a signal, nullptr, or a pointer *)
(* to a signal that was deleted.                                           *)
(***************************************************************************)
EXTENDS Naturals

CONSTANTS WorkerCount,   \* region workers
          Capacity,      \* capacity of every pipe: it holds one signal less
          Lines,         \* bound: lines the clients write
          MaxBatch,      \* bound: requests on one line
          QuitEarly      \* whether "q" may be entered before all threads started

ASSUME LifecycleAssumption ==
  /\ WorkerCount \in Nat \ {0} /\ Capacity \in Nat /\ Capacity > 1
  /\ Lines \in Nat /\ MaxBatch \in Nat \ {0}
  /\ QuitEarly \in BOOLEAN

N          == WorkerCount + 3
Components == 1 .. N
Server     == 1
Engine     == 2
Workers    == 3 .. WorkerCount + 2
Flusher    == N
Handlers   == {Engine} \cup Workers   \* those that a request goes through

VARIABLES
  main, next,       \* where the main thread is, and at which component
                    \* (crashed: the process has died)
  running,          \* per component: the flag of DataNodeComponent
  pc,               \* per thread: none, spawned, loop, get, put, store, done
  target,           \* per thread: the component it puts a signal for
  pipe,             \* per component but the server: signals in its pipe
  batch,            \* signals the server has still to send
  overlapped,       \* whether two puts of workers have overlapped
  lines, eof,       \* the input: lines left, closed by the clients
  parsed, handled,  \* history: requests parsed, requests done with
  frozen, flushed   \* history: memtables frozen, memtables flushed

threads == <<pc, target>>
input   == <<lines, eof>>
counts  == <<parsed, handled, frozen, flushed>>
pipes   == <<pipe, overlapped>>
vars    == <<main, next, running, threads, pipes, batch, input, counts>>

Init == /\ main = "run" /\ next = N
        /\ running = [c \in Components |-> FALSE]
        /\ pc = [c \in Components |-> "none"]
        /\ target = [c \in Components |-> Engine]
        /\ pipe = [c \in Components |-> 0]
        /\ overlapped = FALSE
        /\ batch = 0
        /\ lines = Lines /\ eof = FALSE
        /\ parsed = 0 /\ handled = 0 /\ frozen = 0 /\ flushed = 0
-----------------------------------------------------------------------------
(* The main thread. *)

(* DataNode::run: threads are created from the last component to the first.*)
Run ==
  /\ main = "run"
  /\ pc' = [pc EXCEPT ![next] = "spawned"]
  /\ IF next = 1 THEN main' = "wait" /\ next' = next
                 ELSE main' = main /\ next' = next - 1
  /\ UNCHANGED <<running, target, pipes, batch, input, counts>>

(* main reads a word that begins with q. *)
Quit ==
  /\ main = "wait"
  /\ QuitEarly \/ \A c \in Components : pc[c] # "spawned"
  /\ main' = "stop" /\ next' = 1
  /\ UNCHANGED <<running, threads, pipes, batch, input, counts>>

(* Faulty variant: the last component is not told. *)
StopButLast ==
  /\ main = "stop"
  /\ running' = [running EXCEPT ![next] = (next = N) /\ @]
  /\ IF next = N THEN main' = "join" /\ next' = next
                 ELSE main' = main /\ next' = next + 1
  /\ UNCHANGED <<threads, pipes, batch, input, counts>>

(* DataNode::stop, the first loop: flags from the first component to the   *)
(* last.                                                                   *)
Stop ==
  /\ main = "stop"
  /\ running' = [running EXCEPT ![next] = FALSE]
  /\ IF next = N THEN main' = "join" /\ next' = next
                 ELSE main' = main /\ next' = next + 1
  /\ UNCHANGED <<threads, pipes, batch, input, counts>>

(* Faulty variant: the thread of the server is not waited for. *)
JoinButServer ==
  /\ main = "join"
  /\ pc[next] = "done" \/ next = Server
  /\ IF next = 1 THEN main' = "clean" /\ next' = next
                 ELSE main' = main /\ next' = next - 1
  /\ UNCHANGED <<running, threads, pipes, batch, input, counts>>

(* DataNode::stop, the second loop: join in the order of creation.         *)
Join ==
  /\ main = "join"
  /\ pc[next] = "done"
  /\ IF next = 1 THEN main' = "clean" /\ next' = next
                 ELSE main' = main /\ next' = next - 1
  /\ UNCHANGED <<running, threads, pipes, batch, input, counts>>

(* DataNode::clean deletes components and pipes; main returns.             *)
Clean ==
  /\ main = "clean"
  /\ main' = "exited"
  /\ UNCHANGED <<next, running, threads, pipes, batch, input, counts>>
-----------------------------------------------------------------------------
(* The threads. *)

(* run() begins with start(), which sets the flag whatever it is.          *)
Start(c) ==
  /\ pc[c] = "spawned"
  /\ running' = [running EXCEPT ![c] = TRUE]
  /\ pc' = [pc EXCEPT ![c] = "loop"]
  /\ UNCHANGED <<main, next, target, pipes, batch, input, counts>>

(* Faulty variant: the flag is looked at when the signal has been taken.   *)
LeaveWithSignal(c) ==
  /\ c # Server
  /\ pc[c] = "loop" /\ ~running[c]
  /\ pc' = [pc EXCEPT ![c] = "done"]
  /\ pipe' = [pipe EXCEPT ![c] = IF @ > 0 THEN @ - 1 ELSE 0]
  /\ UNCHANGED <<main, next, running, target, overlapped, batch, input, counts>>

(* The loop of every thread but the server's ends when the flag is down... *)
Leave(c) ==
  /\ c # Server
  /\ pc[c] = "loop" /\ ~running[c]
  /\ pc' = [pc EXCEPT ![c] = "done"]
  /\ UNCHANGED <<main, next, running, target, pipes, batch, input, counts>>

(* ... and goes on to the pipe when it is not, whatever comes in between.  *)
Test(c) ==
  /\ c # Server
  /\ pc[c] = "loop" /\ running[c]
  /\ pc' = [pc EXCEPT ![c] = "get"]
  /\ UNCHANGED <<main, next, running, target, pipes, batch, input, counts>>

(* The pipe is empty. *)
GetNothing(c) ==
  /\ pc[c] = "get" /\ pipe[c] = 0
  /\ pc' = [pc EXCEPT ![c] = "loop"]
  /\ UNCHANGED <<main, next, running, target, pipes, batch, input, counts>>

Take(c) ==
  /\ pc[c] = "get" /\ pipe[c] > 0
  /\ pipe' = [pipe EXCEPT ![c] = @ - 1]

PutFor(c, d) == /\ pc' = [pc EXCEPT ![c] = "put"]
                /\ target' = [target EXCEPT ![c] = d]

(* MitoEngine: any request may be for a region of any worker.              *)
EngineTakes == \E w \in Workers :
  /\ Take(Engine)
  /\ PutFor(Engine, w)
  /\ UNCHANGED <<main, next, running, overlapped, batch, input, counts>>

(* RegionWorker: a request may fill or close a memtable.                   *)
WorkerHandles(w) ==
  /\ Take(w)
  /\ pc' = [pc EXCEPT ![w] = "loop"]
  /\ handled' = handled + 1
  /\ UNCHANGED <<main, next, running, target, overlapped, batch, input, parsed, frozen,
                 flushed>>

(* The threads that are in a put. *)
Putters == {c \in Components : pc[c] \in {"put", "store"}}

(* It then begins a put by reading the position to write to. *)
WorkerFlushes(w) ==
  /\ Take(w)
  /\ PutFor(w, Flusher)
  /\ overlapped' = (overlapped \/ Workers \cap Putters # {})
  /\ frozen' = frozen + 1
  /\ UNCHANGED <<main, next, running, batch, input, parsed, handled, flushed>>

FlusherFlushes ==
  /\ Take(Flusher)
  /\ pc' = [pc EXCEPT ![Flusher] = "loop"]
  /\ flushed' = flushed + 1
  /\ UNCHANGED <<main, next, running, target, overlapped, batch, input, parsed, handled,
                 frozen>>

(* After an overlap: nullptr, or a signal the flusher has deleted.         *)
FlusherMisses ==
  /\ overlapped
  /\ Take(Flusher)
  /\ pc' = [pc EXCEPT ![Flusher] = "loop"]
  /\ main' \in {main, "crashed"}
  /\ UNCHANGED <<next, running, target, overlapped, batch, input, counts>>

(* RegionServer::run: the next line with what parses of it.  The loop does *)
(* not look at the flag.                                                   *)
ServerReads == \E n \in 0 .. MaxBatch :
  /\ pc[Server] = "loop"
  /\ lines > 0
  /\ lines' = lines - 1
  /\ batch' = n
  /\ parsed' = parsed + n
  /\ IF n > 0 THEN PutFor(Server, Engine) ELSE UNCHANGED threads
  /\ UNCHANGED <<main, next, running, pipes, eof, handled, frozen, flushed>>

(* getline fails: no line is left and no client has the fifo open.         *)
ServerEnds ==
  /\ pc[Server] = "loop"
  /\ lines = 0 /\ eof
  /\ pc' = [pc EXCEPT ![Server] = "done"]
  /\ UNCHANGED <<main, next, running, target, pipes, batch, input, counts>>

(* Faulty variant: a pipe takes as many signals as it has slots. *)
RoomForAll(d) == pipe[d] # Capacity

(* The test of PipeRing::put, an equality. *)
Room(d) == pipe[d] # Capacity - 1

(* A put of the server or the engine finds room and returns; the server    *)
(* goes on to the next signal.                                             *)
Put(c) ==
  /\ c \in {Server, Engine}
  /\ pc[c] = "put"
  /\ Room(target[c])
  /\ pipe' = [pipe EXCEPT ![target[c]] = @ + 1]
  /\ batch' = IF c = Server THEN batch - 1 ELSE batch
  /\ pc' = [pc EXCEPT ![c] = IF c = Server /\ batch > 1 THEN "put" ELSE "loop"]
  /\ UNCHANGED <<main, next, running, target, overlapped, input, counts>>

(* A put of a worker has found room, ... *)
WaitForRoom(w) ==
  /\ pc[w] = "put"
  /\ Room(Flusher)
  /\ pc' = [pc EXCEPT ![w] = "store"]
  /\ UNCHANGED <<main, next, running, target, pipes, batch, input, counts>>

(* ... stores, increments writePos and is done with the request.           *)
Store(w) ==
  /\ pc[w] = "store"
  /\ pipe' = [pipe EXCEPT ![Flusher] = @ + 1]
  /\ pc' = [pc EXCEPT ![w] = "loop"]
  /\ handled' = handled + 1
  /\ UNCHANGED <<main, next, running, target, overlapped, batch, input, parsed, frozen,
                 flushed>>

(* The clients close the fifo. *)
ClientsClose ==
  /\ lines = 0 /\ ~eof
  /\ eof' = TRUE
  /\ UNCHANGED <<main, next, running, threads, pipes, batch, lines, counts>>
-----------------------------------------------------------------------------
Main == Run \/ Stop \/ Join \/ Clean

Step(c) ==
  \/ Start(c) \/ Leave(c) \/ Test(c) \/ GetNothing(c) \/ Put(c)
  \/ c = Server /\ (ServerReads \/ ServerEnds)
  \/ c = Engine /\ EngineTakes
  \/ c \in Workers /\ \/ WorkerHandles(c) \/ WorkerFlushes(c)
                      \/ WaitForRoom(c) \/ Store(c)
  \/ c = Flusher /\ (FlusherFlushes \/ FlusherMisses)

Thread(c) == main # "crashed" /\ Step(c)

Next == Main \/ Quit \/ ClientsClose \/ \E c \in Components : Thread(c)

Spec == Init /\ [][Next]_vars

(* The scheduler runs every thread, and the clients close the input in the *)
(* end, as the test client does.  Nobody need enter "q".                   *)
Fairness == /\ WF_vars(Main) /\ WF_vars(ClientsClose)
            /\ \A c \in Components : WF_vars(Thread(c))

FairSpec == Spec /\ Fairness
-----------------------------------------------------------------------------
(* Properties. *)

TypeOK ==
  /\ main \in {"run", "wait", "stop", "join", "clean", "exited", "crashed"}
  /\ next \in Components
  /\ running \in [Components -> BOOLEAN]
  /\ pc \in [Components -> {"none", "spawned", "loop", "get", "put", "store", "done"}]
  /\ target \in [Components -> Components \ {Server}]
  /\ pipe \in [Components -> Nat]
  /\ \A c \in Components : pipe[c] < Capacity \/ (c = Flusher /\ overlapped)
  /\ pipe[Flusher] <= Lines * MaxBatch
  /\ overlapped \in BOOLEAN
  /\ batch \in 0 .. MaxBatch
  /\ lines \in 0 .. Lines /\ eof \in BOOLEAN
  /\ {parsed, handled, frozen, flushed} \subseteq 0 .. Lines * MaxBatch

(* Pipes and components are deleted only when no thread can touch them any *)
(* more (stop joins every thread before clean).                            *)
CleanedWhenQuiet == main \in {"clean", "exited"} => \A c \in Components : pc[c] = "done"

(* Sums over the components: of threads with a signal in hand, of signals. *)
Total(f) == LET sum[i \in 0 .. N] == IF i = 0 THEN 0 ELSE sum[i - 1] + f[i]
            IN  sum[N]

InHand(C)  == Total([c \in Components |-> IF c \in C \cap Putters THEN 1 ELSE 0])
InPipes(C) == Total([c \in Components |-> IF c \in C THEN pipe[c] ELSE 0])

(* No stop at any moment makes a request or a frozen memtable vanish: what *)
(* was parsed is done with or still lies in a pipe or in the hands of a    *)
(* thread (the order of flag, get and put in the loops of the components); *)
(* and a frozen memtable is missing only when puts of two workers have     *)
(* overlapped in the pipe to the flusher.                                  *)
NothingVanishes ==
  /\ parsed = handled + batch + InHand(Handlers) + InPipes(Handlers)
  /\ flushed + InHand(Workers) + pipe[Flusher] <= frozen
  /\ frozen = flushed + InHand(Workers) + pipe[Flusher] \/ overlapped

(* The node exits after "q": every thread leaves its loop, main joins them *)
(* all (src/Readme.md).  This does not hold when a pipe is full.           *)
QuitExits == (main = "stop") ~> (main = "exited")

(* It does so when by then every thread has started, the clients have      *)
(* written all they will, and what is still under way fits any pipe: no    *)
(* thread then waits in a put for one that has left (start, stop, join and *)
(* the loops).  Puts that overlap may still make the flusher crash.        *)
UnderWay == batch + InHand(Handlers) + InPipes(Components)

Calm == /\ main = "stop" /\ next = 1 /\ lines = 0
        /\ \A c \in Components : pc[c] # "spawned"
        /\ UnderWay < Capacity

CalmQuitExits == Calm ~> main \in {"exited", "crashed"}
=============================================================================
