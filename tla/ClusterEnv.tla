------------------------------ MODULE ClusterEnv ------------------------------
(***************************************************************************)
(* The environments that run a real cluster of processes behind an         *)
(* intercepting network (env.go and cluster.go of redisraft, cbft and      *)
(* ratis): the processes, the files they leave and the state the agent is  *)
(* shown.  One episode calls the operations one after another, while the   *)
(* processes, the server's handlers and the goroutines of SendMessage run  *)
(* concurrently.                                                           *)
(*                                                                         *)
(* The processes are external: they register, send, crash and answer Info  *)
(* as they please.  A context that expires makes an operation of redisraft *)
(* fail at its last look: what was done stays done, curState stays old.    *)
(***************************************************************************)
EXTENDS InterceptNetwork

CONSTANTS
  MaxTrials,      \* failed starts of a cluster after which it is used as it is
  NumRequests,    \* client requests of an episode
  MaxEvents       \* messages, stops and crashes (a bound)

ASSUME ClusterAssumption ==
  MaxTrials \in Nat /\ NumRequests \in Nat /\ MaxEvents \in Nat

VARIABLES
  pc,             \* what the episode is doing
  \* RedisNode: process and ctx are set
  started,
  \* the operating system
  live,           \* per replica: the cluster of its process, or 0
  faults,         \* how many stops and crashes there were
  disk,           \* per replica: the cluster that wrote its working directory, or 0
  \* the environment
  cluster,        \* r.cluster: the clusters made so far are numbered, 0 is nil
  made,           \* how many were made
  trials,         \* failed starts in the running Reset
  next,           \* the replica to start next in Cluster.Start
  queue,          \* messages DeliverMessages has still to send
  shown,          \* curState.Messages
  requests        \* len(curState.Requests)

processVars == <<started, live, disk, faults>>
clusterVars == <<cluster, made, trials, next>>
stateVars == <<shown, requests>>
envVars == <<pc, processVars, clusterVars, queue, stateVars>>
vars == <<networkVars, envVars>>

Init ==
  /\ NetworkInit
  /\ pc = "none"
  /\ started = {} /\ live = [n \in Node |-> 0] /\ disk = [n \in Node |-> 0]
  /\ faults = 0
  /\ cluster = 0 /\ made = 0 /\ trials = 0 /\ next = 1
  /\ queue = {} /\ shown = {} /\ requests = 0

-----------------------------------------------------------------------------
(* Processes *)

\* Stop kills the process and waits for its end.  (Mutant: it forgets to kill.)
Forgotten(S) == live

Killed(S) == [n \in Node |-> IF n \in S THEN 0 ELSE live[n]]

\* Destroy terminates every node.  Redisraft removes a working directory only
\* when Stop returned no error, which a killed process never lets it; ratis
\* removes none.
Destroy ==
  /\ live' = Killed(started)
  /\ started' = {}
  /\ disk' = IF system = "cbft" THEN [n \in Node |-> 0] ELSE disk

\* A process that starts finds what is in its working directory; those of
\* ratis have none of their own.
FindsDirectory(n) ==
  disk' = [disk EXCEPT ![n] = IF @ = 0 /\ system # "ratis" THEN cluster ELSE @]

Launch(n) ==
  /\ live' = [live EXCEPT ![n] = cluster]
  /\ FindsDirectory(n)
  /\ PostReplica(n, cluster)

\* The executable does not start.
LaunchFails == UNCHANGED <<live, disk, networkVars>>

\* Start of a node that has no process.
StartNode(n) ==
  /\ n \notin started
  /\ started' = started \union {n}
  /\ Launch(n) \/ LaunchFails

Bounded == Cardinality(sent) + faults < MaxEvents

Fault == Bounded /\ faults' = faults + 1

\* The program has not crashed and is not done.
Running == pc \notin {"crashed", "done"}

Crash(n) ==
  /\ Running /\ live[n] # 0 /\ Fault
  /\ live' = [live EXCEPT ![n] = 0]
  /\ UNCHANGED <<networkVars, pc, started, disk, clusterVars, queue, stateVars>>

-----------------------------------------------------------------------------
(* Reset *)

\* Another cluster can be made.  (A bound.)
CanMake == made < MaxClusters

Reset ==
  /\ pc \in {"none", "idle"} /\ CanMake
  /\ IF cluster # 0 THEN Destroy ELSE UNCHANGED <<started, live, disk>>
  /\ pc' = "resetting"
  /\ UNCHANGED <<networkVars, faults, clusterVars, queue, stateVars>>

\* NewCluster of redisraft empties the working directories first.
\* (Mutant: they are left.)
LeftDisk == disk

CleanDisk == IF system = "redisraft" THEN [n \in Node |-> 0] ELSE disk

NewCluster ==
  /\ pc = "resetting"
  /\ NetworkReset
  /\ cluster' = made + 1 /\ made' = made + 1
  /\ disk' = CleanDisk
  /\ next' = 1
  /\ pc' = "starting"
  /\ UNCHANGED <<started, live, faults, trials, queue, stateVars>>

\* cbft ignores that its testnet could not be made and uses a nil cluster.
NilCluster ==
  /\ pc = "resetting" /\ system = "cbft"
  /\ pc' = "crashed"
  /\ UNCHANGED <<networkVars, processVars, clusterVars, queue, stateVars>>

\* (Mutant: the loop runs once too often.)
OneTooMany == next <= NumNodes + 1

NodesLeft == next <= NumNodes

\* Cluster.Start starts the nodes in turn; in redisraft the first then
\* initialises the cluster and the others join it.
ClusterStart ==
  /\ pc = "starting" /\ NodesLeft
  /\ started' = started \union {next}
  /\ Launch(next)
  /\ next' = next + 1
  /\ UNCHANGED <<pc, faults, cluster, made, trials, queue, stateVars>>

\* The start of a node or the command it is given then fails.  Redisraft destroys
\* the cluster, with the node's process if there is one, and tries again with a
\* new cluster until it gives up and goes on with the one it has; cbft and ratis
\* ignore the error.
ClusterStartFails ==
  /\ pc = "starting" /\ NodesLeft
  /\ IF system = "redisraft" /\ trials <= MaxTrials
     THEN /\ CanMake
          /\ live' = Killed(started \union {next})
          /\ started' = {}
          /\ \/ UNCHANGED <<disk, networkVars>>
             \/ FindsDirectory(next) /\ PostReplica(next, cluster)
          /\ trials' = trials + 1
          /\ pc' = "resetting"
     ELSE /\ started' = started \union {next}
          /\ Launch(next) \/ LaunchFails
          /\ pc' = "waiting"
          /\ UNCHANGED trials
  /\ UNCHANGED <<faults, cluster, made, next, queue, stateVars>>

ClusterStarted ==
  /\ pc = "starting" /\ ~NodesLeft
  /\ pc' = "waiting"
  /\ UNCHANGED <<networkVars, processVars, clusterVars, queue, stateVars>>

\* WaitForNodes ends when all replicas are registered or after two seconds;
\* what it returns is not looked at.  (Mutant: there is no time limit.)
AllRegistered == \A n \in Node : nodes[n] # 0

WaitEnds == AllRegistered \/ TRUE

WaitForNodes ==
  /\ pc = "waiting" /\ WaitEnds
  /\ shown' = messages
  /\ requests' = IF system = "ratis" THEN 0 ELSE NumRequests
  /\ pc' = "idle"
  /\ trials' = 0 /\ next' = 1
  /\ UNCHANGED <<networkVars, processVars, cluster, made, queue>>

\* After the last episode.
Cleanup ==
  /\ pc = "idle"
  /\ Destroy
  /\ cluster' = 0
  /\ pc' = "done"
  /\ UNCHANGED <<networkVars, faults, made, trials, next, queue, stateVars>>

-----------------------------------------------------------------------------
(* The operations of an episode *)

\* Only redisraft looks at the context.
Expires == system = "redisraft" /\ UNCHANGED stateVars

\* A started node is left alone: redisraft returns an error, cbft looks first.
\* Ratis panics in Start and Stop, and its benchmarks ask for no crashes.
Start(n) ==
  /\ pc = "idle" /\ system # "ratis"
  /\ StartNode(n)
  /\ UNCHANGED <<pc, faults, clusterVars, queue, stateVars>>

Stop(n) ==
  /\ pc = "idle" /\ system # "ratis"
  /\ n \in started /\ Fault
  /\ live' = Killed({n})
  /\ started' = started \ {n}
  /\ UNCHANGED <<networkVars, pc, disk, clusterVars, queue, stateVars>>

Tick ==
  /\ pc = "idle"
  /\ (shown' = messages /\ UNCHANGED requests) \/ Expires
  /\ UNCHANGED <<networkVars, pc, processVars, clusterVars, queue>>

\* What the processes answered to Info is not kept: any of them may have said
\* it leads, or none.  A leader may have died since, and the error of
\* ExecuteAsync is not looked at.
ReceiveRequestRedis ==
  /\ system = "redisraft"
  /\ (shown' = messages /\ requests' \in {requests, requests - 1}) \/ Expires

ReceiveRequestComet ==
  /\ system = "cbft"
  /\ requests' = requests - 1
  /\ UNCHANGED shown

ReceiveRequest ==
  /\ pc = "idle" /\ requests > 0
  /\ ReceiveRequestRedis \/ ReceiveRequestComet
  /\ UNCHANGED <<networkVars, pc, processVars, clusterVars, queue>>

\* DeliverMessages is given messages of the state that was shown.
DeliverMessages(D) ==
  /\ pc = "idle" /\ D \subseteq shown
  /\ queue' = D
  /\ pc' = "sending"
  /\ UNCHANGED <<networkVars, processVars, clusterVars, stateVars>>

\* Redisraft sends each in a goroutine, cbft and ratis one after another.
Turn == system = "redisraft" \/ Calls("episode") = {}

\* SendMessage returns at once when the message is gone.
SendMessage(m) ==
  /\ pc = "sending" /\ m \in queue /\ Turn
  /\ IF m \in messages THEN Lookup("episode", m) ELSE UNCHANGED networkVars
  /\ ~NilReceiver(m)
  /\ queue' = queue \ {m}
  /\ UNCHANGED <<pc, processVars, clusterVars, stateVars>>

SendToNobody(m) ==
  /\ pc = "sending" /\ m \in queue /\ Turn
  /\ NilReceiver(m)
  /\ pc' = "crashed"
  /\ UNCHANGED <<networkVars, processVars, clusterVars, queue, stateVars>>

Delivered ==
  /\ pc = "sending" /\ queue = {} /\ Calls("episode") = {}
  /\ (shown' = messages /\ UNCHANGED requests) \/ Expires
  /\ pc' = "idle"
  /\ UNCHANGED <<networkVars, processVars, clusterVars, queue>>

DropMessages(D) ==
  /\ pc = "idle" /\ D \subseteq shown
  /\ DeleteMessages(D)
  /\ (shown' = messages' /\ UNCHANGED requests) \/ Expires
  /\ UNCHANGED <<pc, processVars, clusterVars, queue>>

\* cbft reads the address of the replica before it looks whether it is there.
BecomeByzantine(n) ==
  /\ pc = "idle" /\ system = "cbft" /\ nodes[n] = 0
  /\ pc' = "crashed"
  /\ UNCHANGED <<networkVars, processVars, clusterVars, queue, stateVars>>

-----------------------------------------------------------------------------
Process ==
  /\ Running /\ Bounded
  /\ \E m \in Message : PostMessage(m, live)
  /\ UNCHANGED envVars

Server ==
  /\ Running
  /\ \/ \E r \in registering : handleReplica(r)
     \/ \E m \in arriving : handleMessage(m)
     \/ deliverLoop
  /\ UNCHANGED envVars

Sender ==
  /\ Running
  /\ \/ \E p \in posting : Post(p, live)
     \/ \E p \in deleting : Delete(p)
  /\ UNCHANGED envVars

Finish ==
  \/ NewCluster \/ NilCluster \/ ClusterStart \/ ClusterStartFails
  \/ ClusterStarted \/ WaitForNodes \/ Delivered
  \/ \E m \in queue : SendMessage(m) \/ SendToNobody(m)

Begin ==
  \/ Reset \/ Cleanup \/ Tick \/ ReceiveRequest
  \/ \E n \in Node : Start(n) \/ Stop(n) \/ BecomeByzantine(n)
  \/ \E D \in SUBSET shown : DeliverMessages(D) \/ DropMessages(D)

Next == Process \/ Server \/ Sender \/ Finish \/ Begin \/ \E n \in Node : Crash(n)

Spec == Init /\ [][Next]_vars

\* What Reset may wait for without a limit in cbft: the command that makes the
\* testnet, and the body of a process' answer to Info.
ResetMayHang ==
  /\ system = "cbft"
  /\ pc = "resetting" \/ (pc = "waiting" /\ \E n \in Node : live[n] # 0)

SenderInTime ==
  /\ Running
  /\ \/ \E p \in posting : ~MayHang(p, live) /\ Post(p, live)
     \/ \E p \in deleting : ~MayHang(p, live) /\ Delete(p)
  /\ UNCHANGED envVars

\* The episode's goroutine and the goroutines it starts go on, except where they
\* wait for a process without a limit: of that nothing is assumed.
FairSpec == Spec /\ WF_vars(~ResetMayHang /\ Finish) /\ WF_vars(SenderInTime)

-----------------------------------------------------------------------------
TypeOK ==
  /\ system \in Systems
  /\ nodes \in [Node -> 0..MaxClusters]
  /\ messages \subseteq Message /\ unaddressed \subseteq Message
  /\ registering \subseteq [node : Node, of : ClusterId]
  /\ arriving \subseteq Message /\ sent \subseteq Message
  /\ posting \subseteq [by : Caller, msg : Message, addr : BOOLEAN]
  /\ deleting \subseteq [by : Caller, msg : Message]
  /\ received \subseteq Message /\ answered \subseteq Message
  /\ again \subseteq Message /\ dropped \subseteq Message
  /\ pc \in {"none", "idle", "resetting", "starting", "waiting", "sending", "crashed", "done"}
  /\ started \subseteq Node
  /\ faults \in 0..MaxEvents
  /\ live \in [Node -> 0..MaxClusters] /\ disk \in [Node -> 0..MaxClusters]
  /\ cluster \in 0..MaxClusters /\ made \in 0..MaxClusters
  /\ trials \in 0..(MaxTrials + 1)
  /\ next \in 1..(NumNodes + 1)
  /\ queue \subseteq Message /\ shown \subseteq Message
  /\ requests \in 0..NumRequests

\* No process outlives its cluster, on whatever path the cluster ended: every
\* live process belongs to a started node of the cluster in use, so nothing
\* holds the ports of the next one.
ProcessesOfThisCluster ==
  \A n \in Node : live[n] # 0 => n \in started /\ live[n] = cluster

\* No process of redisraft or cbft starts from the files of an earlier
\* cluster, although redisraft never removes a directory when it terminates a
\* node; a node that was stopped and started again finds its own files.
StorageOfThisCluster ==
  system # "ratis" => \A n \in Node : live[n] # 0 => disk[n] = live[n]

\* What the network holds of an earlier cluster, a message or a registration
\* that counts for WaitForNodes, was in flight when the network was reset.
LeftoversWereInFlight ==
  /\ \A m \in messages : m.of = made \/ m \in flight
  /\ \A n \in Node :
       nodes[n] \in {0, made} \/ [node |-> n, of |-> nodes[n]] \in flight

\* Redisraft and cbft do not hand over again a message whose receiver has
\* answered, however the deliveries and the deletions of a step interleave.
AnsweredOnce == system # "ratis" => again = {}

\* Redisraft loses no message and cbft and ratis only those they fail to send;
\* in redisraft and cbft no message is received that the agent dropped.
Pool == INSTANCE MessagePool WITH
          pending <- messages \ received,
          lossy <- system # "redisraft", steered <- system # "ratis"

ImplementsPool == Pool!Spec

Operating == pc \in {"resetting", "starting", "waiting", "sending"}

\* The operation waits, without a limit, for cbft's testnet command or for a
\* process that runs.
Stuck == ResetMayHang \/ (pc = "sending" /\ \E p \in Calls("episode") : MayHang(p, live))

\* Whatever fails or crashes, Reset and DeliverMessages return, or a nil pointer
\* ends the program, unless they wait from some point on for one of the things
\* that have no time limit; registrations and answers that never come, dead
\* receivers and clusters that do not start do not keep them.
OperationsReturn == []<>~Operating \/ <>[]Stuck
=============================================================================
