------------------------------ MODULE Heartbeat ------------------------------
(***************************************************************************)
(* Who is alive, as the controller of the first version shows it           *)
(* (src/src-old/Controller/heartbeatServer.cpp and                         *)
(* IndexNode/heartbeatClient.cpp).  Each node posts its name every few     *)
(* seconds; the server writes down when it came, and a thread of it goes   *)
(* through the table every few seconds and marks those as dead that have   *)
(* been silent for longer than a threshold.                                *)
(*                                                                         *)
(* Time is counted in seconds and goes on when nothing is overdue: a sleep *)
(* ends in the second it should, a post within its timeouts, and the clock *)
(* of the server neither jumps nor is set back.  HTTP is external.         *)
(***************************************************************************)
EXTENDS Integers

CONSTANTS Nodes,       \* node_id
          Threshold,   \* heartbeatThreshold
          CheckPeriod, \* the sleep of health_check_thread
          Interval,    \* interval_sec
          SendTime,    \* connection and write timeout of a post
          ReadTime,    \* read timeout of a post
          MaxTime      \* bound: seconds

ASSUME TimeAssumption ==
  /\ Threshold \in Nat /\ CheckPeriod \in Nat \ {0} /\ Interval \in Nat \ {0}
  /\ SendTime \in Nat /\ ReadTime \in Nat /\ MaxTime \in Nat

(* A heartbeat that is not lost comes before the threshold.  In the code   *)
(* ReadTime is 2, Interval 5 unless it is given, SendTime 2 + 2 seconds    *)
(* (heartbeatClient), and main.cpp of the controller has a threshold of 15.*)
ASSUME IntervalAssumption == ReadTime + Interval + SendTime <= Threshold

VARIABLES
  now,
  known,         \* the nodes in node_table
  lastHeartbeat, \* per node
  alive,         \* per node
  stop,
  checking,      \* health_check_thread runs
  checkedAt,     \* when it went through the table last
  client,        \* per node: what its heartbeat thread is doing
  since,         \* per node: since when
  late,          \* per node: a post given up may still arrive
  missed         \* history, per node: silent at times since its last heartbeat

table == <<known, lastHeartbeat, alive>>
server == <<stop, checking, checkedAt>>
heartbeatVars == <<now, table, server, client, since, late, missed>>

HeartbeatInit ==
  /\ now = 0
  /\ known = {}
  /\ lastHeartbeat = [n \in Nodes |-> 0]
  /\ alive = [n \in Nodes |-> FALSE]
  /\ stop = FALSE /\ checking = TRUE /\ checkedAt = 0
  /\ client = [n \in Nodes |-> "down"]
  /\ since = [n \in Nodes |-> 0]
  /\ late = [n \in Nodes |-> FALSE]
  /\ missed = [n \in Nodes |-> TRUE]

Does(n, what) == /\ client' = [client EXCEPT ![n] = what]
                 /\ since' = [since EXCEPT ![n] = now]
-----------------------------------------------------------------------------
(* The thread of a node starts, and posts at once. *)
StartClient(n) ==
  /\ client[n] = "down"
  /\ Does(n, "send")
  /\ UNCHANGED <<now, table, server, late, missed>>

(* Faulty variant: the time is written down for a new node only.           *)
RegisterOnce(n) ==
  /\ known' = known \cup {n}
  /\ lastHeartbeat' = [lastHeartbeat EXCEPT ![n] = IF n \in known THEN @ ELSE now]
  /\ alive' = [alive EXCEPT ![n] = TRUE]

(* handle_heartbeat: under the lock of the table.                          *)
Register(n) ==
  /\ known' = known \cup {n}
  /\ lastHeartbeat' = [lastHeartbeat EXCEPT ![n] = now]
  /\ alive' = [alive EXCEPT ![n] = TRUE]

Handle(n) ==
  /\ client[n] = "send"
  /\ Register(n)
  /\ Does(n, "read")
  /\ missed' = [missed EXCEPT ![n] = FALSE]
  /\ UNCHANGED <<now, server, late>>

(* A post that was given up, or whose sender is down, arrives after all.   *)
HandleLate(n) ==
  /\ late[n]
  /\ Register(n)
  /\ late' = [late EXCEPT ![n] = FALSE]
  /\ UNCHANGED <<now, server, client, since, missed>>

(* The post fails, at once or by a timeout; it may be on its way still.    *)
SendFails(n) ==
  /\ client[n] = "send"
  /\ Does(n, "sleep")
  /\ missed' = [missed EXCEPT ![n] = TRUE]
  /\ \E onItsWay \in BOOLEAN : late' = [late EXCEPT ![n] = onItsWay]
  /\ UNCHANGED <<now, table, server>>

(* The answer comes, or is given up; what it says is printed only.         *)
PostAnswered(n) ==
  /\ client[n] = "read"
  /\ Does(n, "sleep")
  /\ UNCHANGED <<now, table, server, late, missed>>

Wake(n) ==
  /\ client[n] = "sleep"
  /\ now - since[n] >= Interval
  /\ Does(n, "send")
  /\ UNCHANGED <<now, table, server, late, missed>>

(* A node is stopped or breaks down; its post may be on its way still.     *)
EndClient(n) ==
  /\ client[n] # "down"
  /\ Does(n, "down")
  /\ missed' = [missed EXCEPT ![n] = TRUE]
  /\ \E onItsWay \in BOOLEAN :
       late' = [late EXCEPT ![n] = @ \/ (onItsWay /\ client[n] = "send")]
  /\ UNCHANGED <<now, table, server>>
-----------------------------------------------------------------------------
(* Faulty variant: the difference is taken the wrong way round.            *)
SilentReversed(n) == lastHeartbeat[n] - now > Threshold

Silent(n) == now - lastHeartbeat[n] > Threshold

(* health_check_thread, after its sleep: under the lock of the table.      *)
HealthCheck ==
  /\ checking /\ ~ stop
  /\ now - checkedAt >= CheckPeriod
  /\ alive' = [n \in Nodes |-> IF n \in known /\ Silent(n) THEN FALSE ELSE alive[n]]
  /\ checkedAt' = now
  /\ UNCHANGED <<now, known, lastHeartbeat, stop, checking, client, since, late, missed>>

HealthEnds ==
  /\ checking /\ stop
  /\ now - checkedAt >= CheckPeriod
  /\ checking' = FALSE
  /\ UNCHANGED <<now, table, stop, checkedAt, client, since, late, missed>>

(* asynchronousStop: the health thread ends; the server goes on to listen. *)
StopServer ==
  /\ ~ stop
  /\ stop' = TRUE
  /\ UNCHANGED <<now, table, checking, checkedAt, client, since, late, missed>>

(* The controller is started anew: its table was in memory.                *)
RestartServer ==
  /\ known' = {}
  /\ alive' = [n \in Nodes |-> FALSE]
  /\ stop' = FALSE /\ checking' = TRUE /\ checkedAt' = now
  /\ UNCHANGED <<now, lastHeartbeat, client, since, late, missed>>

(* How long each thing may take. *)
Overdue(n) == \/ client[n] = "send" /\ now - since[n] >= SendTime
              \/ client[n] = "read" /\ now - since[n] >= ReadTime
              \/ client[n] = "sleep" /\ now - since[n] >= Interval

Tick ==
  /\ now < MaxTime
  /\ \A n \in Nodes : ~ Overdue(n)
  /\ checking => now - checkedAt < CheckPeriod
  /\ now' = now + 1
  /\ UNCHANGED <<table, server, client, since, late, missed>>

HeartbeatNext ==
  \/ \E n \in Nodes : \/ StartClient(n) \/ Handle(n) \/ HandleLate(n)
                      \/ SendFails(n) \/ PostAnswered(n) \/ Wake(n) \/ EndClient(n)
  \/ HealthCheck \/ HealthEnds \/ StopServer \/ RestartServer
  \/ Tick

HeartbeatSpec == HeartbeatInit /\ [][HeartbeatNext]_heartbeatVars
-----------------------------------------------------------------------------
(* The values the variables may have. *)
TypeOK ==
  /\ now \in Nat /\ checkedAt \in Nat
  /\ known \subseteq Nodes
  /\ lastHeartbeat \in [Nodes -> Nat]
  /\ alive \in [Nodes -> BOOLEAN]
  /\ stop \in BOOLEAN /\ checking \in BOOLEAN
  /\ client \in [Nodes -> {"down", "send", "read", "sleep"}]
  /\ since \in [Nodes -> Nat]
  /\ late \in [Nodes -> BOOLEAN]
  /\ missed \in [Nodes -> BOOLEAN]

(* What /nodes shows is late by one round of the health thread at most:    *)
(* a node shown as dead has been silent for longer than the threshold, and *)
(* while that thread runs one that has been silent for longer than that    *)
(* and a round is not shown as alive.                                      *)
ShownInTime ==
  \A n \in known :
    /\ ~ alive[n] => now - lastHeartbeat[n] > Threshold
    /\ alive[n] /\ checking /\ ~ stop => now - lastHeartbeat[n] <= Threshold + CheckPeriod

(* A node is never shown as dead that has been up since its last heartbeat *)
(* and of whose posts none has failed since, however slow they were.       *)
HealthyIsAlive == \A n \in known : ~ missed[n] => alive[n]
=============================================================================
