-------------------------- MODULE ClusterEnv_proofs --------------------------
(***************************************************************************)
(* Theorems about ClusterEnv, for every number of replicas, clusters,      *)
(* links and trials.  IInv says what holds of the processes and the files  *)
(* in each phase of the episode, where a message can be, and what the      *)
(* calls of SendMessage that are under way may rely on.                    *)
(***************************************************************************)
EXTENDS ClusterEnv, FiniteSetTheorems, TLAPS

Types == TypeOK /\ IsFiniteSet(sent)

InUse == {"idle", "starting", "waiting", "sending"}

\* The cluster in use is the one made last, and a new one is made when nothing
\* runs.
Phases ==
  /\ cluster \in {0, made}
  /\ pc \in InUse => cluster # 0
  /\ pc = "none" => cluster = 0
  /\ pc = "resetting" => made < MaxClusters /\ \A n \in Node : live[n] = 0

\* What a replica's directory holds was written by the cluster in use, also
\* while the replica is down.
Files ==
  system # "ratis" =>
    \A n \in Node :
      /\ pc # "done" => disk[n] \in {0, cluster}
      /\ system = "cbft" /\ pc = "resetting" => disk[n] = 0

\* A request that is under way comes from the cluster made last, or was under
\* way at the last Reset already.
OnTheWay ==
  /\ \A r \in registering : r.of = made \/ r \in flight
  /\ \A m \in arriving : m.of = made \/ m \in flight

\* A message that has not arrived is nowhere else.
Places ==
  /\ arriving \subseteq sent /\ messages \subseteq sent
  /\ answered \subseteq received /\ received \subseteq sent /\ dropped \subseteq sent
  /\ \A p \in posting \union deleting : p.msg \in sent
  /\ \A m \in arriving : /\ m \notin messages /\ m \notin received /\ m \notin dropped
                         /\ \A p \in posting \union deleting : p.msg # m

\* Calls of SendMessage where only the episode makes them: each is of a message
\* of its own, which is there and not answered until it is to be deleted.
OwnCalls ==
  /\ \A p \in posting \union deleting : p.by = "episode"
  /\ pc \notin {"sending", "crashed"} => posting = {} /\ deleting = {}
  /\ \A p \in posting \union deleting : p.msg \notin queue
  /\ \A p, q \in posting : p.msg = q.msg => p = q
  /\ \A p \in posting, d \in deleting : p.msg # d.msg
  /\ \A p \in posting : p.msg \in messages /\ p.msg \notin answered
  /\ \A m \in answered : m \in messages => \E d \in deleting : d.msg = m
  /\ system = "redisraft" => \A d \in deleting : d.msg \in received

DroppedIsGone == dropped \intersect (messages \union received) = {}

Fates == system # "ratis" => OwnCalls /\ DroppedIsGone

IInv == /\ Types /\ Phases /\ ProcessesOfThisCluster /\ Files
        /\ StorageOfThisCluster /\ OnTheWay /\ LeftoversWereInFlight
        /\ Places /\ Fates /\ AnsweredOnce

-----------------------------------------------------------------------------
USE DEF Node, ClusterId, Message, Caller, historyVars, requestVars, networkVars,
        processVars, clusterVars, stateVars, envVars, vars, InUse

LEMMA MessageEnds ==
  ASSUME NEW m \in Message PROVE From(m) \in Node /\ To(m) \in Node
  BY NetworkAssumption DEF From, To

LEMMA InitIInv == Init => IInv
<1> SUFFICES ASSUME Init PROVE IInv
  OBVIOUS
<1> USE NetworkAssumption, ClusterAssumption DEF Init, NetworkInit
<1>1. Types
  BY FS_EmptySet DEF Types, TypeOK
<1>2. Phases /\ ProcessesOfThisCluster /\ Files /\ StorageOfThisCluster
  BY DEF Phases, ProcessesOfThisCluster, Files, StorageOfThisCluster
<1>3. OnTheWay /\ LeftoversWereInFlight
  BY DEF OnTheWay, LeftoversWereInFlight
<1>4. Places /\ Fates /\ AnsweredOnce
  BY DEF Places, Fates, OwnCalls, DroppedIsGone, AnsweredOnce
<1> QED
  BY <1>1, <1>2, <1>3, <1>4 DEF IInv

-----------------------------------------------------------------------------
(* Types.  Sums of a finite set's cardinality and of faults stay in range. *)

LEMMA FaultType ==
  ASSUME Types, Fault PROVE faults' \in 0..MaxEvents
<1>1. Cardinality(sent) \in Nat
  BY FS_CardinalityType DEF Types
<1> QED
  BY <1>1, ClusterAssumption DEF Fault, Bounded, Types, TypeOK

LEMMA KilledType ==
  ASSUME TypeOK, NEW S PROVE Killed(S) \in [Node -> 0..MaxClusters]
  BY NetworkAssumption DEF Killed, TypeOK

\* A started process takes the number of the cluster in use.
LEMMA LaunchType ==
  ASSUME Types, NEW n \in Node, cluster # 0, Launch(n) \/ LaunchFails
  PROVE  /\ live' \in [Node -> 0..MaxClusters] /\ disk' \in [Node -> 0..MaxClusters]
         /\ registering' \subseteq [node : Node, of : ClusterId]
         /\ UNCHANGED <<system, nodes, messages, unaddressed, arriving, sent,
                        posting, deleting, historyVars, flight>>
<1>1. cluster \in 1..MaxClusters /\ 0 \in 0..MaxClusters
  BY NetworkAssumption DEF Types, TypeOK
<1>2. CASE Launch(n)
  <2>1. live' \in [Node -> 0..MaxClusters] /\ disk' \in [Node -> 0..MaxClusters]
    BY <1>1, <1>2 DEF Types, TypeOK, Launch, FindsDirectory
  <2>2. registering' \subseteq [node : Node, of : ClusterId]
    BY <1>1, <1>2 DEF Types, TypeOK, Launch, PostReplica
  <2> QED
    BY <1>2, <2>1, <2>2 DEF Launch, PostReplica
<1>3. CASE LaunchFails
  BY <1>3 DEF LaunchFails, Types, TypeOK
<1> QED
  BY <1>2, <1>3

LEMMA DestroyType ==
  ASSUME TypeOK, Destroy
  PROVE  /\ live' \in [Node -> 0..MaxClusters] /\ disk' \in [Node -> 0..MaxClusters]
         /\ started' \subseteq Node
<1>1. disk' \in [Node -> 0..MaxClusters]
  BY NetworkAssumption DEF TypeOK, Destroy
<1>2. started' \subseteq Node
  BY DEF Destroy
<1>3. live' \in [Node -> 0..MaxClusters]
  BY KilledType DEF Destroy
<1> QED
  BY <1>1, <1>2, <1>3

LEMMA LookupType ==
  ASSUME TypeOK, NEW by \in Caller, NEW m, Lookup(by, m)
  PROVE  posting' \subseteq [by : Caller, msg : Message, addr : BOOLEAN]
<1>1. m \in Message /\ (nodes[To(m)] # 0) \in BOOLEAN
  BY DEF Lookup, TypeOK
<1>2. [by |-> by, msg |-> m, addr |-> nodes[To(m)] # 0]
        \in [by : Caller, msg : Message, addr : BOOLEAN]
  BY <1>1
<1> QED
  BY <1>2 DEF Lookup, TypeOK

LEMMA TypesStep ==
  ASSUME Types, Phases, [Next]_vars PROVE Types'
<1> USE NetworkAssumption, ClusterAssumption
<1>0. TypeOK /\ IsFiniteSet(sent)
  BY DEF Types
<1>1. CASE Process
  <2>1. PICK m \in Message : sent' = sent \union {m} /\ arriving' = arriving \union {m}
    BY <1>1 DEF Process, PostMessage
  <2>2. IsFiniteSet(sent')
    BY <1>0, <2>1, FS_AddElement
  <2>3. TypeOK'
    BY <1>0, <1>1, <2>1 DEF Process, PostMessage, TypeOK
  <2> QED
    BY <2>2, <2>3 DEF Types
<1>2. CASE Server
  <2>1. CASE \E r \in registering : handleReplica(r)
    <3>1. PICK r \in registering : handleReplica(r)
      BY <2>1
    <3>2. r.node \in Node /\ r.of \in 0..MaxClusters
      <4>1. r \in [node : Node, of : ClusterId]
        BY <1>0 DEF TypeOK
      <4> QED
        BY <4>1
    <3>3. nodes' \in [Node -> 0..MaxClusters]
      BY <1>0, <3>1, <3>2 DEF handleReplica, TypeOK
    <3>4. registering' \subseteq registering
      BY <3>1 DEF handleReplica
    <3> QED
      BY <1>0, <1>2, <3>1, <3>3, <3>4 DEF Server, handleReplica, Types, TypeOK
  <2>2. CASE \E m \in arriving : handleMessage(m)
    BY <1>0, <1>2, <2>2 DEF Server, handleMessage, ResolveAlias, Types, TypeOK
  <2>3. CASE deliverLoop
    <3>1. PICK m \in messages : Lookup("loop", m)
      BY <2>3 DEF deliverLoop
    <3> QED
      BY <1>0, <1>2, <3>1, LookupType DEF Server, Lookup, Types, TypeOK
  <2> QED
    BY <1>2, <2>1, <2>2, <2>3 DEF Server
<1>3. CASE Sender
  <2>1. CASE \E p \in posting : Post(p, live)
    <3>1. PICK p \in posting : Post(p, live)
      BY <2>1
    <3>2. p.by \in Caller /\ p.msg \in Message
      BY <1>0 DEF TypeOK
    <3>3. /\ deleting' \subseteq [by : Caller, msg : Message]
          /\ answered' \subseteq Message
      <4>1. [by |-> p.by, msg |-> p.msg] \in [by : Caller, msg : Message]
        BY <3>2
      <4>2. \/ deleting' = deleting
            \/ deleting' = deleting \union {[by |-> p.by, msg |-> p.msg]}
        BY <3>1 DEF Post, Answered, Unanswered
      <4>3. answered' = answered \/ answered' = answered \union {p.msg}
        BY <3>1 DEF Post, Answered, Unanswered
      <4> QED
        BY <1>0, <3>2, <4>1, <4>2, <4>3 DEF TypeOK
    <3>4. received' \subseteq Message /\ again' \subseteq Message
      BY <1>0, <3>1, <3>2 DEF Post, Reaches, TypeOK
    <3> QED
      BY <1>0, <1>3, <3>1, <3>3, <3>4 DEF Post, Sender, Types, TypeOK
  <2>2. CASE \E p \in deleting : Delete(p)
    BY <1>0, <1>3, <2>2 DEF Sender, Delete, Types, TypeOK
  <2> QED
    BY <1>3, <2>1, <2>2 DEF Sender
<1>4. ASSUME NEW n \in Node, Crash(n) PROVE Types'
  <2>1. live' \in [Node -> 0..MaxClusters]
    BY <1>0, <1>4 DEF Crash, TypeOK
  <2>2. faults' \in 0..MaxEvents
    BY <1>4, FaultType DEF Crash
  <2> QED
    BY <1>0, <1>4, <2>1, <2>2 DEF Crash, Types, TypeOK
<1>5. CASE Reset
  BY <1>0, <1>5, DestroyType DEF Reset, Types, TypeOK
<1>6. CASE NewCluster
  <2>1. made' \in 0..MaxClusters /\ cluster' \in 0..MaxClusters
    BY <1>0, <1>6 DEF NewCluster, Phases, TypeOK
  <2>2. /\ disk' \in [Node -> 0..MaxClusters]
        /\ nodes' \in [Node -> 0..MaxClusters]
    BY <1>0, <1>6 DEF NewCluster, NetworkReset, CleanDisk, TypeOK
  <2>3. next' \in 1..(NumNodes + 1)
    BY <1>6 DEF NewCluster
  <2>4. /\ messages' \subseteq Message /\ unaddressed' \subseteq Message
        /\ received' \subseteq Message /\ answered' \subseteq Message
        /\ again' \subseteq Message /\ dropped' \subseteq Message
        /\ pc' = "starting"
        /\ UNCHANGED <<system, requestVars, posting, deleting, started, live, faults,
                       trials, queue, stateVars>>
    BY <1>6 DEF NewCluster, NetworkReset
  <2> QED
    BY <1>0, <2>1, <2>2, <2>3, <2>4 DEF Types, TypeOK
<1>7. CASE NilCluster \/ ClusterStarted
  BY <1>0, <1>7 DEF NilCluster, ClusterStarted, Types, TypeOK
<1>8. CASE ClusterStart
  <2>1. next \in Node /\ cluster # 0
    BY <1>0, <1>8 DEF ClusterStart, NodesLeft, Phases, TypeOK
  <2>2. Launch(next)
    BY <1>8 DEF ClusterStart
  <2> QED
    <3>1. next' \in 1..(NumNodes + 1) /\ started' \subseteq Node
      BY <1>0, <1>8, <2>1 DEF ClusterStart, TypeOK
    <3>2. UNCHANGED <<pc, faults, cluster, made, trials, queue, stateVars>>
      BY <1>8 DEF ClusterStart
    <3> QED
      BY <1>0, <2>1, <2>2, <3>1, <3>2, LaunchType DEF Types, TypeOK
<1>9. CASE ClusterStartFails
  <2>1. next \in Node /\ cluster # 0
    BY <1>0, <1>9 DEF ClusterStartFails, NodesLeft, Phases, TypeOK
  <2>2. CASE system = "redisraft" /\ trials <= MaxTrials
    <3>1. /\ trials' \in 0..(MaxTrials + 1)
          /\ pc' = "resetting" /\ started' = {}
          /\ live' = Killed(started \union {next})
          /\ UNCHANGED <<faults, cluster, made, next, queue, stateVars>>
      BY <1>0, <1>9, <2>2 DEF ClusterStartFails, TypeOK
    <3>2. live' \in [Node -> 0..MaxClusters]
      BY <1>0, <3>1, KilledType
    <3>3. CASE UNCHANGED <<disk, networkVars>>
      BY <1>0, <3>1, <3>2, <3>3 DEF Types, TypeOK
    <3>4. CASE FindsDirectory(next) /\ PostReplica(next, cluster)
      <4>1. cluster \in ClusterId /\ disk' \in [Node -> 0..MaxClusters]
        BY <1>0, <2>1, <3>4 DEF FindsDirectory, TypeOK
      <4>2. registering' \subseteq [node : Node, of : ClusterId]
        <5>1. [node |-> next, of |-> cluster] \in [node : Node, of : ClusterId]
          BY <2>1, <4>1
        <5> QED
          BY <1>0, <3>4, <5>1 DEF PostReplica, TypeOK
      <4> QED
        BY <1>0, <3>1, <3>2, <3>4, <4>1, <4>2 DEF PostReplica, Types, TypeOK
    <3> QED
      BY <1>9, <2>2, <3>3, <3>4 DEF ClusterStartFails
  <2>3. CASE ~(system = "redisraft" /\ trials <= MaxTrials)
    <3>1. Launch(next) \/ LaunchFails
      BY <1>9, <2>3 DEF ClusterStartFails
    <3> QED
      BY <1>0, <1>9, <2>1, <2>3, <3>1, LaunchType DEF ClusterStartFails, Types, TypeOK
  <2> QED
    BY <2>2, <2>3
<1>10. CASE WaitForNodes
  <2>1. requests' \in 0..NumRequests /\ shown' \subseteq Message
    BY <1>0, <1>10 DEF WaitForNodes, TypeOK
  <2>2. next' \in 1..(NumNodes + 1) /\ trials' \in 0..(MaxTrials + 1)
    BY <1>10 DEF WaitForNodes
  <2> QED
    BY <1>0, <1>10, <2>1, <2>2 DEF WaitForNodes, Types, TypeOK
<1>11. CASE Cleanup
  <2>1. Destroy /\ cluster' \in 0..MaxClusters /\ pc' = "done"
    BY <1>11 DEF Cleanup
  <2>2. UNCHANGED <<networkVars, faults, made, trials, next, queue, stateVars>>
    BY <1>11 DEF Cleanup
  <2> QED
    BY <1>0, <2>1, <2>2, DestroyType DEF Types, TypeOK
<1>12. ASSUME NEW n \in Node, Start(n) PROVE Types'
  <2>1. cluster # 0 /\ (Launch(n) \/ LaunchFails)
    BY <1>12 DEF Start, StartNode, Phases
  <2> QED
    BY <1>0, <1>12, <2>1, LaunchType DEF Start, StartNode, Types, TypeOK
<1>13. ASSUME NEW n \in Node, Stop(n) PROVE Types'
  BY <1>0, <1>13, FaultType, KilledType DEF Stop, Fault, Types, TypeOK
<1>14. CASE Tick \/ Delivered
  BY <1>0, <1>14 DEF Tick, Delivered, Expires, Types, TypeOK
<1>15. CASE ReceiveRequest
  <2>1. requests - 1 \in 0..NumRequests
    BY <1>0, <1>15 DEF ReceiveRequest, TypeOK
  <2>2. requests' \in {requests, requests - 1} /\ shown' \in {shown, messages}
    BY <1>15 DEF ReceiveRequest, ReceiveRequestRedis, ReceiveRequestComet, Expires
  <2>3. UNCHANGED <<networkVars, pc, processVars, clusterVars, queue>>
    BY <1>15 DEF ReceiveRequest
  <2> QED
    BY <1>0, <2>1, <2>2, <2>3 DEF Types, TypeOK
<1>16. ASSUME NEW D \in SUBSET shown, DeliverMessages(D) \/ DropMessages(D) PROVE Types'
  BY <1>0, <1>16
  DEF DeliverMessages, DropMessages, DeleteMessages, Expires, Types, TypeOK
<1>17. ASSUME NEW m \in queue, SendMessage(m) \/ SendToNobody(m) PROVE Types'
  <2>1. CASE SendToNobody(m)
    BY <1>0, <2>1 DEF SendToNobody, Types, TypeOK
  <2>2. CASE SendMessage(m) /\ Lookup("episode", m)
    BY <1>0, <2>2, LookupType DEF SendMessage, Lookup, Types, TypeOK
  <2>3. CASE SendMessage(m) /\ UNCHANGED networkVars
    BY <1>0, <2>3 DEF SendMessage, Types, TypeOK
  <2> QED
    BY <1>17, <2>1, <2>2, <2>3 DEF SendMessage
<1>18. ASSUME NEW n \in Node, BecomeByzantine(n) PROVE Types'
  BY <1>0, <1>18 DEF BecomeByzantine, Types, TypeOK
<1>19. CASE UNCHANGED vars
  BY <1>0, <1>19 DEF Types, TypeOK
<1> QED
  BY <1>1, <1>2, <1>3, <1>4, <1>5, <1>6, <1>7, <1>8, <1>9, <1>10, <1>11, <1>12,
     <1>13, <1>14, <1>15, <1>16, <1>17, <1>18, <1>19 DEF Next, Finish, Begin

-----------------------------------------------------------------------------
(* Processes and files *)

Processes == Phases /\ ProcessesOfThisCluster /\ Files /\ StorageOfThisCluster

\* Nothing is left running when all started nodes are terminated.
LEMMA DestroyEmpties ==
  ASSUME ProcessesOfThisCluster, Destroy
  PROVE  \A n \in Node : live'[n] = 0
  BY DEF ProcessesOfThisCluster, Destroy, Killed

\* A process that starts in the cluster in use finds no files of another one.
LEMMA LaunchProcesses ==
  ASSUME Types, Processes, NEW n \in Node, pc \in InUse, pc' \in InUse,
         Launch(n) \/ LaunchFails, started' = started \union {n},
         UNCHANGED <<cluster, made>>
  PROVE  Processes'
<1> USE DEF Processes
<1>1. cluster = made /\ cluster # 0 /\ pc # "done" /\ pc' # "resetting" /\ pc' # "none"
  BY DEF Phases
<1>2. Phases'
  BY <1>1 DEF Phases
<1>3. CASE Launch(n)
  <2>1. live' = [live EXCEPT ![n] = cluster] /\ system' = system
    BY <1>3 DEF Launch, PostReplica
  <2>2. disk' = [disk EXCEPT ![n] = IF @ = 0 /\ system # "ratis" THEN cluster ELSE @]
    BY <1>3 DEF Launch, FindsDirectory
  <2>3. live \in [Node -> 0..MaxClusters] /\ disk \in [Node -> 0..MaxClusters]
    BY DEF Types, TypeOK
  <2>4. ProcessesOfThisCluster'
    BY <2>1, <2>3 DEF ProcessesOfThisCluster
  <2>5. Files'
    BY <1>1, <2>1, <2>2, <2>3 DEF Files
  <2>6. StorageOfThisCluster'
    BY <1>1, <2>1, <2>2, <2>3 DEF StorageOfThisCluster, Files
  <2> QED
    BY <1>2, <2>4, <2>5, <2>6
<1>4. CASE LaunchFails
  BY <1>1, <1>2, <1>4
  DEF LaunchFails, ProcessesOfThisCluster, Files, StorageOfThisCluster
<1> QED
  BY <1>3, <1>4

LEMMA ProcessesStep ==
  ASSUME Types, Processes, [Next]_vars PROVE Processes'
<1> USE DEF Processes
<1>0. /\ live \in [Node -> 0..MaxClusters] /\ disk \in [Node -> 0..MaxClusters]
      /\ cluster \in Nat /\ made \in Nat
  BY NetworkAssumption DEF Types, TypeOK
<1>1. CASE UNCHANGED <<system, started, live, disk, cluster, made>>
           /\ (pc' = pc \/ (pc \in InUse /\ pc' \in InUse) \/ pc' = "crashed")
           /\ (pc = "done" => pc' = "done")
  BY <1>1 DEF Phases, ProcessesOfThisCluster, Files, StorageOfThisCluster
<1>2. CASE Process \/ Server \/ Sender \/ UNCHANGED vars
  <2>1. UNCHANGED <<system, envVars>>
    BY <1>2 DEF Process, Server, Sender, PostMessage, handleReplica, handleMessage,
                deliverLoop, Lookup, Post, Delete
  <2> QED
    BY <1>1, <2>1
<1>3. ASSUME NEW n \in Node, Crash(n) PROVE Processes'
  <2>1. /\ live' = [live EXCEPT ![n] = 0]
        /\ UNCHANGED <<system, pc, started, disk, cluster, made>>
    BY <1>3 DEF Crash
  <2> QED
    BY <1>0, <2>1 DEF Phases, ProcessesOfThisCluster, Files, StorageOfThisCluster
<1>4. CASE Reset
  <2>1. /\ pc \in {"none", "idle"} /\ made < MaxClusters /\ pc' = "resetting"
        /\ UNCHANGED <<system, cluster, made>>
    BY <1>4 DEF Reset, CanMake
  <2>2. CASE cluster # 0
    <3>1. Destroy
      BY <1>4, <2>2 DEF Reset
    <3>2. \A n \in Node : live'[n] = 0
      BY <3>1, DestroyEmpties
    <3>3. disk' = IF system = "cbft" THEN [n \in Node |-> 0] ELSE disk
      BY <3>1 DEF Destroy
    <3>4. Files'
      BY <2>1, <3>3 DEF Files
    <3> QED
      BY <2>1, <3>2, <3>4 DEF Phases, ProcessesOfThisCluster, StorageOfThisCluster
  <2>3. CASE cluster = 0
    <3>1. UNCHANGED <<started, live, disk>>
      BY <1>4, <2>3 DEF Reset
    <3>2. \A n \in Node : live[n] = 0
      BY <2>3 DEF ProcessesOfThisCluster
    <3> QED
      BY <2>1, <2>3, <3>1, <3>2
      DEF Phases, ProcessesOfThisCluster, Files, StorageOfThisCluster
  <2> QED
    BY <2>2, <2>3
<1>5. CASE NewCluster
  <2>1. /\ pc = "resetting" /\ pc' = "starting" /\ cluster' = made + 1 /\ made' = made + 1
        /\ UNCHANGED <<system, live, started>>
        /\ disk' = IF system = "redisraft" THEN [n \in Node |-> 0] ELSE disk
    BY <1>5 DEF NewCluster, NetworkReset, CleanDisk
  <2>2. \A n \in Node : live[n] = 0
    BY <2>1 DEF Phases
  <2>3. system # "ratis" => \A n \in Node : disk'[n] = 0
    <3>1. system \in {"redisraft", "cbft", "ratis"}
      BY NetworkAssumption DEF Types, TypeOK
    <3> QED
      BY <2>1, <3>1 DEF Files
  <2>4. cluster' # 0
    BY <1>0, <2>1
  <2> QED
    BY <2>1, <2>2, <2>3, <2>4
    DEF Phases, ProcessesOfThisCluster, Files, StorageOfThisCluster
<1>6. CASE NilCluster \/ ClusterStarted \/ WaitForNodes
  <2>1. /\ UNCHANGED <<system, started, live, disk, cluster, made>>
        /\ pc' = "crashed" \/ (pc \in InUse /\ pc' \in InUse)
        /\ pc # "done"
    BY <1>6 DEF NilCluster, ClusterStarted, WaitForNodes
  <2> QED
    BY <1>1, <2>1
<1>7. CASE ClusterStart
  <2>1. /\ next \in Node /\ Launch(next) /\ started' = started \union {next}
        /\ pc \in InUse /\ pc' \in InUse /\ UNCHANGED <<cluster, made>>
    BY <1>7 DEF ClusterStart, NodesLeft, Types, TypeOK
  <2> QED
    BY <2>1, LaunchProcesses
<1>8. CASE ClusterStartFails
  <2>1. pc = "starting" /\ next \in Node /\ UNCHANGED <<cluster, made>>
    BY <1>8 DEF ClusterStartFails, NodesLeft, Types, TypeOK
  <2>2. CASE system = "redisraft" /\ trials <= MaxTrials
    <3>1. /\ made < MaxClusters /\ pc' = "resetting" /\ system' = system
          /\ live' = Killed(started \union {next})
          /\ disk' = disk \/ FindsDirectory(next)
      BY <1>8, <2>2 DEF ClusterStartFails, CanMake, PostReplica
    <3>2. \A n \in Node : live'[n] = 0
      BY <3>1 DEF ProcessesOfThisCluster, Killed
    <3>3. \A n \in Node : disk'[n] \in {disk[n], cluster}
      BY <1>0, <3>1 DEF FindsDirectory
    <3>4. Files'
      BY <2>1, <2>2, <3>1, <3>3 DEF Files
    <3>5. Phases' /\ ProcessesOfThisCluster' /\ StorageOfThisCluster'
      BY <2>1, <2>2, <3>1, <3>2
      DEF Phases, ProcessesOfThisCluster, StorageOfThisCluster
    <3> QED
      BY <3>4, <3>5
  <2>3. CASE ~(system = "redisraft" /\ trials <= MaxTrials)
    <3>1. /\ Launch(next) \/ LaunchFails
          /\ started' = started \union {next} /\ pc' = "waiting"
      BY <1>8, <2>3 DEF ClusterStartFails
    <3> QED
      BY <2>1, <3>1, LaunchProcesses
  <2> QED
    BY <2>2, <2>3
<1>9. CASE Cleanup
  <2>1. /\ Destroy /\ cluster' = 0 /\ pc' = "done" /\ UNCHANGED <<system, made>>
    BY <1>9 DEF Cleanup
  <2>2. \A n \in Node : live'[n] = 0
    BY <2>1, DestroyEmpties
  <2> QED
    BY <2>1, <2>2 DEF Phases, ProcessesOfThisCluster, Files, StorageOfThisCluster
<1>10. ASSUME NEW n \in Node, Start(n) PROVE Processes'
  <2>1. /\ Launch(n) \/ LaunchFails
        /\ started' = started \union {n} /\ pc \in InUse /\ pc' \in InUse
        /\ UNCHANGED <<cluster, made>>
    BY <1>10 DEF Start, StartNode
  <2> QED
    BY <2>1, LaunchProcesses
<1>11. ASSUME NEW n \in Node, Stop(n) PROVE Processes'
  <2>1. /\ \A k \in Node : live'[k] = IF k = n THEN 0 ELSE live[k]
        /\ started' = started \ {n} /\ UNCHANGED <<system, pc, disk, cluster, made>>
    BY <1>11 DEF Stop, Killed
  <2> QED
    BY <2>1 DEF Phases, ProcessesOfThisCluster, Files, StorageOfThisCluster
<1>12. CASE Tick \/ ReceiveRequest \/ Delivered
  <2>1. UNCHANGED <<system, processVars, clusterVars>> /\ pc \in InUse /\ pc' \in InUse
    BY <1>12 DEF Tick, ReceiveRequest, Delivered
  <2> QED
    BY <1>1, <2>1
<1>13. ASSUME NEW D, DeliverMessages(D) \/ DropMessages(D) PROVE Processes'
  <2>1. UNCHANGED <<system, processVars, clusterVars>> /\ pc \in InUse /\ pc' \in InUse
    BY <1>13 DEF DeliverMessages, DropMessages, DeleteMessages
  <2> QED
    BY <1>1, <2>1
<1>14. ASSUME NEW m, SendMessage(m) \/ SendToNobody(m) PROVE Processes'
  <2>1. /\ UNCHANGED <<system, processVars, clusterVars>> /\ pc \in InUse
        /\ pc' \in InUse \/ pc' = "crashed"
    BY <1>14 DEF SendMessage, SendToNobody, Lookup
  <2> QED
    BY <1>1, <2>1
<1>15. ASSUME NEW n, BecomeByzantine(n) PROVE Processes'
  <2>1. UNCHANGED <<system, processVars, clusterVars>> /\ pc \in InUse /\ pc' = "crashed"
    BY <1>15 DEF BecomeByzantine
  <2> QED
    BY <1>1, <2>1
<1> QED
  BY <1>2, <1>3, <1>4, <1>5, <1>6, <1>7, <1>8, <1>9, <1>10, <1>11, <1>12, <1>13,
     <1>14, <1>15 DEF Next, Finish, Begin

-----------------------------------------------------------------------------
(* What a step of the whole does to the network *)

Busy == {"sending", "crashed"}

\* While calls of the episode are under way it stays where it is, and its queue
\* does not grow.
CallsStay ==
  /\ pc \in Busy => queue' \subseteq queue
  /\ pc \in Busy /\ pc' \notin Busy => Calls("episode") = {}

NetworkStep ==
  \/ UNCHANGED <<networkVars, made>>
  \/ UNCHANGED made /\ \E n \in Node : PostReplica(n, made)
  \/ UNCHANGED <<pc, made>> /\ \E m \in Message : PostMessage(m, live)
  \/ UNCHANGED <<pc, made>> /\ \E r \in registering : handleReplica(r)
  \/ UNCHANGED <<pc, made>> /\ \E m \in arriving : handleMessage(m)
  \/ UNCHANGED <<pc, made>> /\ system = "ratis" /\ \E m \in messages : Lookup("loop", m)
  \/ /\ UNCHANGED <<pc, made>> /\ pc = "sending"
     /\ \E m \in queue : m \in messages /\ Lookup("episode", m) /\ queue' = queue \ {m}
  \/ UNCHANGED <<pc, made>> /\ \E p \in posting : Post(p, live)
  \/ UNCHANGED <<pc, made>> /\ \E p \in deleting : Delete(p)
  \/ UNCHANGED <<pc, made>> /\ pc = "idle" /\ \E D \in SUBSET shown : DeleteMessages(D)
  \/ pc = "resetting" /\ made' = made + 1 /\ NetworkReset

LEMMA StepOfNetwork ==
  ASSUME Types, Phases, [Next]_vars PROVE NetworkStep /\ CallsStay
<1> USE DEF Busy
<1>1. CASE UNCHANGED <<networkVars, made>> /\ CallsStay
  BY <1>1 DEF NetworkStep
<1>2. CASE Process \/ Server \/ Sender \/ UNCHANGED vars
  BY <1>2 DEF Process, Server, Sender, deliverLoop, NetworkStep, CallsStay
<1>3. ASSUME NEW n \in Node, Crash(n) \/ Stop(n) \/ BecomeByzantine(n)
      PROVE  NetworkStep /\ CallsStay
  <2>1. /\ UNCHANGED <<networkVars, made, queue>>
        /\ pc' = pc \/ pc' = "crashed"
    BY <1>3 DEF Crash, Stop, BecomeByzantine
  <2> QED
    BY <1>1, <2>1 DEF CallsStay
<1>4. CASE Reset \/ NilCluster \/ ClusterStarted \/ WaitForNodes \/ Cleanup
           \/ Tick \/ ReceiveRequest
  <2>1. UNCHANGED <<networkVars, made, queue>> /\ pc \notin Busy
    BY <1>4 DEF Reset, NilCluster, ClusterStarted, WaitForNodes, Cleanup, Tick,
                ReceiveRequest
  <2> QED
    BY <1>1, <2>1 DEF CallsStay
<1>5. CASE NewCluster
  BY <1>5 DEF NewCluster, NetworkStep, CallsStay
<1>6. ASSUME NEW n \in Node, Launch(n) \/ LaunchFails, pc \in {"idle", "starting"},
             UNCHANGED <<cluster, made, queue>>
      PROVE  NetworkStep /\ CallsStay
  <2>1. cluster = made
    BY <1>6 DEF Phases
  <2> QED
    BY <1>6, <2>1 DEF Launch, LaunchFails, NetworkStep, CallsStay
<1>7. CASE ClusterStart
  <2>1. next \in Node
    BY <1>7 DEF ClusterStart, NodesLeft, Types, TypeOK
  <2> QED
    BY <1>6, <1>7, <2>1 DEF ClusterStart
<1>8. CASE ClusterStartFails
  <2>1. next \in Node
    BY <1>8 DEF ClusterStartFails, NodesLeft, Types, TypeOK
  <2>2. CASE system = "redisraft" /\ trials <= MaxTrials
    <3>1. /\ pc = "starting" /\ cluster = made /\ UNCHANGED <<made, queue>>
          /\ UNCHANGED networkVars \/ PostReplica(next, cluster)
      BY <1>8, <2>2 DEF ClusterStartFails, Phases
    <3> QED
      BY <2>1, <3>1 DEF NetworkStep, CallsStay
  <2>3. CASE ~(system = "redisraft" /\ trials <= MaxTrials)
    BY <1>6, <1>8, <2>1, <2>3 DEF ClusterStartFails
  <2> QED
    BY <2>2, <2>3
<1>9. ASSUME NEW n \in Node, Start(n) PROVE NetworkStep /\ CallsStay
  BY <1>6, <1>9 DEF Start, StartNode
<1>10. ASSUME NEW D \in SUBSET shown, DeliverMessages(D) \/ DropMessages(D)
       PROVE  NetworkStep /\ CallsStay
  BY <1>10 DEF DeliverMessages, DropMessages, NetworkStep, CallsStay
<1>11. ASSUME NEW m \in queue, SendMessage(m) \/ SendToNobody(m)
       PROVE  NetworkStep /\ CallsStay
  BY <1>11 DEF SendMessage, SendToNobody, NetworkStep, CallsStay
<1>12. CASE Delivered
  BY <1>12 DEF Delivered, NetworkStep, CallsStay
<1> QED
  BY <1>2, <1>3, <1>4, <1>5, <1>7, <1>8, <1>9, <1>10, <1>11, <1>12
  DEF Next, Finish, Begin

-----------------------------------------------------------------------------
(* What is left of earlier clusters *)

Leftovers == OnTheWay /\ LeftoversWereInFlight

LEMMA LeftoversStep ==
  ASSUME Types, Phases, ProcessesOfThisCluster, Leftovers, NetworkStep
  PROVE  Leftovers'
<1> USE DEF Leftovers, OnTheWay, LeftoversWereInFlight
<1>1. CASE UNCHANGED <<networkVars, made>>
  BY <1>1
<1>2. ASSUME UNCHANGED made, NEW n \in Node, PostReplica(n, made) PROVE Leftovers'
  BY <1>2 DEF PostReplica
<1>3. ASSUME UNCHANGED made, NEW m \in Message, PostMessage(m, live) PROVE Leftovers'
  <2>1. m.of # 0 /\ From(m) \in Node
    BY MessageEnds, NetworkAssumption
  <2>2. m.of = made
    BY <1>3, <2>1 DEF PostMessage, ProcessesOfThisCluster, Phases
  <2> QED
    BY <1>3, <2>2 DEF PostMessage
<1>4. ASSUME UNCHANGED made, NEW r \in registering, handleReplica(r) PROVE Leftovers'
  <2>1. r = [node |-> r.node, of |-> r.of] /\ r.node \in Node
    <3>1. r \in [node : Node, of : ClusterId]
      BY DEF Types, TypeOK
    <3> QED
      BY <3>1
  <2>2. nodes' = [nodes EXCEPT ![r.node] = r.of] /\ nodes \in [Node -> 0..MaxClusters]
    BY <1>4 DEF handleReplica, Types, TypeOK
  <2>3. nodes'[r.node] = made \/ [node |-> r.node, of |-> nodes'[r.node]] \in flight
    BY <2>1, <2>2
  <2> QED
    BY <1>4, <2>1, <2>2, <2>3 DEF handleReplica
<1>5. ASSUME UNCHANGED made, NEW m \in arriving, handleMessage(m) PROVE Leftovers'
  BY <1>5 DEF handleMessage
<1>6. ASSUME UNCHANGED made, NEW by, NEW m, Lookup(by, m) PROVE Leftovers'
  BY <1>6 DEF Lookup
<1>7. ASSUME UNCHANGED made, NEW p \in posting, Post(p, live) PROVE Leftovers'
  BY <1>7 DEF Post
<1>8. ASSUME UNCHANGED made, NEW p \in deleting, Delete(p) PROVE Leftovers'
  BY <1>8 DEF Delete
<1>9. ASSUME UNCHANGED made, NEW D, DeleteMessages(D) PROVE Leftovers'
  BY <1>9 DEF DeleteMessages
<1>10. CASE NetworkReset
  BY <1>10 DEF NetworkReset
<1> QED
  BY <1>1, <1>2, <1>3, <1>4, <1>5, <1>6, <1>7, <1>8, <1>9, <1>10 DEF NetworkStep

-----------------------------------------------------------------------------
(* Where a message can be *)

LEMMA PlacesStep ==
  ASSUME Types, Places, NetworkStep PROVE Places'
<1> USE DEF Places
<1>1. CASE UNCHANGED <<networkVars, made>>
  BY <1>1
<1>2. ASSUME NEW n \in Node, PostReplica(n, made) PROVE Places'
  BY <1>2 DEF PostReplica
<1>3. ASSUME NEW m \in Message, PostMessage(m, live) PROVE Places'
  BY <1>3 DEF PostMessage
<1>4. ASSUME NEW r \in registering, handleReplica(r) PROVE Places'
  BY <1>4 DEF handleReplica
<1>5. ASSUME NEW m \in arriving, handleMessage(m) PROVE Places'
  BY <1>5 DEF handleMessage
<1>6. ASSUME NEW by, NEW m \in messages, Lookup(by, m) PROVE Places'
  BY <1>6 DEF Lookup
<1>7. ASSUME NEW p \in posting, Post(p, live) PROVE Places'
  <2>1. \A q \in deleting' : q \in deleting \/ q.msg = p.msg
    BY <1>7 DEF Post, Answered, Unanswered
  <2>2. \A m \in received' : m \in received \/ m = p.msg
    BY <1>7 DEF Post, Reaches
  <2>3. answered' \subseteq received' /\ posting' \subseteq posting
    BY <1>7 DEF Post, Reaches, Answered, Unanswered
  <2>4. UNCHANGED <<arriving, sent, messages, dropped>>
    BY <1>7 DEF Post
  <2> QED
    BY <2>1, <2>2, <2>3, <2>4
<1>8. ASSUME NEW p \in deleting, Delete(p) PROVE Places'
  BY <1>8 DEF Delete
<1>9. ASSUME NEW D, DeleteMessages(D) PROVE Places'
  BY <1>9 DEF DeleteMessages
<1>10. CASE NetworkReset
  BY <1>10 DEF NetworkReset
<1> QED
  BY <1>1, <1>2, <1>3, <1>4, <1>5, <1>6, <1>7, <1>8, <1>9, <1>10 DEF NetworkStep

-----------------------------------------------------------------------------
(* The calls of SendMessage and the fates of messages *)

\* The post of the episode's own call: its message is there, is not received
\* without being there, and not answered already.
LEMMA PostFates ==
  ASSUME Places, OwnCalls, DroppedIsGone, AnsweredOnce, system # "ratis",
         system \in {"redisraft", "cbft"}, UNCHANGED pc, CallsStay,
         NEW p \in posting, Post(p, live)
  PROVE  OwnCalls' /\ DroppedIsGone' /\ AnsweredOnce'
<1> DEFINE d == [by |-> p.by, msg |-> p.msg]
<1>1. /\ p.by = "episode" /\ p.msg \in messages /\ p.msg \notin answered
      /\ p.msg \notin queue /\ p.msg \notin dropped /\ pc \in {"sending", "crashed"}
  BY DEF OwnCalls, DroppedIsGone
<1>2. /\ posting' = posting \ {p}
      /\ UNCHANGED <<system, messages, dropped>> /\ queue' \subseteq queue
  BY <1>1 DEF Post, CallsStay, Busy
<1>3. /\ deleting' = deleting \/ deleting' = deleting \union {d}
      /\ answered' = answered
         \/ (answered' = answered \union {p.msg} /\ deleting' = deleting \union {d}
             /\ received' = received \union {p.msg})
      /\ received' = received \/ received' = received \union {p.msg}
      /\ again' = again
  BY <1>1 DEF Post, Answered, Unanswered, Reaches
<1>4. system = "redisraft" =>
        \/ deleting' = deleting
        \/ deleting' = deleting \union {d} /\ received' = received \union {p.msg}
  BY DEF Post, Answered, Unanswered, KeepsUnanswered, Reaches
<1>5. \A q \in deleting' : q \in deleting \/ (q = d /\ q.by = "episode" /\ q.msg = p.msg)
  BY <1>1, <1>3
<1>6. \A m \in answered' : m \in messages => \E q \in deleting' : q.msg = m
  <2>1. CASE answered' = answered
    BY <1>3, <2>1 DEF OwnCalls
  <2>2. CASE answered' = answered \union {p.msg} /\ deleting' = deleting \union {d}
    <3>1. d \in deleting' /\ d.msg = p.msg
      BY <2>2
    <3> QED
      BY <2>2, <3>1 DEF OwnCalls
  <2> QED
    BY <1>3, <2>1, <2>2
<1>7. \A q \in posting' : q \in posting /\ q.msg # p.msg
  BY <1>2 DEF OwnCalls
<1> HIDE DEF d
<1>8. /\ \A q \in posting' \union deleting' : q.by = "episode" /\ q.msg \notin queue'
      /\ \A q, r \in posting' : q.msg = r.msg => q = r
      /\ \A q \in posting', r \in deleting' : q.msg # r.msg
  BY <1>1, <1>2, <1>5, <1>7 DEF OwnCalls
<1>9. /\ \A q \in posting' : q.msg \in messages' /\ q.msg \notin answered'
      /\ system' = "redisraft" => \A q \in deleting' : q.msg \in received'
  BY <1>2, <1>3, <1>4, <1>5, <1>7 DEF OwnCalls
<1>10. OwnCalls'
  BY <1>1, <1>2, <1>6, <1>8, <1>9 DEF OwnCalls
<1>11. DroppedIsGone' /\ AnsweredOnce'
  BY <1>1, <1>2, <1>3 DEF DroppedIsGone, AnsweredOnce
<1> QED
  BY <1>10, <1>11

LEMMA FatesStep ==
  ASSUME Types, Places, Fates, AnsweredOnce, NetworkStep, CallsStay
  PROVE  Fates' /\ AnsweredOnce'
<1>1. system' = system
  BY DEF NetworkStep, PostReplica, PostMessage, handleReplica, handleMessage,
         Lookup, Post, Delete, DeleteMessages, NetworkReset
<1>2. CASE system = "ratis"
  BY <1>1, <1>2 DEF Fates, AnsweredOnce
<1>3. CASE system # "ratis"
  <2> SUFFICES OwnCalls' /\ DroppedIsGone' /\ AnsweredOnce'
    BY DEF Fates
  <2>0. /\ OwnCalls /\ DroppedIsGone /\ again = {}
        /\ system \in {"redisraft", "cbft"}
    BY <1>3, NetworkAssumption DEF Fates, AnsweredOnce, Types, TypeOK
  <2>1. pc \in Busy /\ pc' \notin Busy => posting = {} /\ deleting = {}
    BY <2>0 DEF CallsStay, Calls, OwnCalls
  <2>2. pc \notin Busy => posting = {} /\ deleting = {}
    BY <2>0 DEF OwnCalls, Busy
  <2>3. \A p \in posting \union deleting : p.msg \notin queue'
    BY <2>0, <2>2 DEF OwnCalls, CallsStay
  <2>4. ASSUME UNCHANGED <<messages, posting, deleting, received, answered, again, dropped>>
        PROVE  OwnCalls' /\ DroppedIsGone' /\ AnsweredOnce'
    BY <1>1, <2>0, <2>1, <2>2, <2>3, <2>4 DEF OwnCalls, DroppedIsGone, AnsweredOnce, Busy
  <2>5. ASSUME NEW m \in arriving, handleMessage(m)
        PROVE  OwnCalls' /\ DroppedIsGone' /\ AnsweredOnce'
    <3>1. /\ messages' = messages \union {m}
          /\ UNCHANGED <<posting, deleting, received, answered, again, dropped>>
      BY <2>5 DEF handleMessage
    <3>2. m \notin answered /\ m \notin dropped
      BY DEF Places
    <3> QED
      BY <1>1, <2>0, <2>1, <2>2, <2>3, <3>1, <3>2
      DEF OwnCalls, DroppedIsGone, AnsweredOnce, Busy
  <2>6. ASSUME UNCHANGED pc, pc = "sending", NEW m \in queue, m \in messages,
               Lookup("episode", m), queue' = queue \ {m}
        PROVE  OwnCalls' /\ DroppedIsGone' /\ AnsweredOnce'
    <3> DEFINE p == [by |-> "episode", msg |-> m, addr |-> nodes[To(m)] # 0]
    <3>1. /\ posting' = posting \union {p}
          /\ UNCHANGED <<messages, deleting, received, answered, again, dropped>>
      BY <2>6 DEF Lookup
    <3>2. m \notin answered /\ \A q \in posting \union deleting : q.msg # m
      BY <2>0, <2>6 DEF OwnCalls
    <3>3. \A q \in posting' : q \in posting \/ (q = p /\ q.by = "episode" /\ q.msg = m)
      BY <3>1
    <3> HIDE DEF p
    <3>4. OwnCalls'
      BY <1>1, <2>0, <2>6, <3>1, <3>2, <3>3 DEF OwnCalls
    <3> QED
      BY <2>0, <3>1, <3>4 DEF DroppedIsGone, AnsweredOnce
  <2>7. ASSUME UNCHANGED pc, NEW p \in posting, Post(p, live)
        PROVE  OwnCalls' /\ DroppedIsGone' /\ AnsweredOnce'
    BY <1>3, <2>0, <2>7, PostFates
  <2>8. ASSUME UNCHANGED pc, NEW p \in deleting, Delete(p)
        PROVE  OwnCalls' /\ DroppedIsGone' /\ AnsweredOnce'
    <3>1. /\ deleting' = deleting \ {p} /\ messages' = messages \ {p.msg}
          /\ UNCHANGED <<posting, received, answered, again, dropped>>
      BY <2>8 DEF Delete
    <3> QED
      BY <1>1, <2>0, <2>2, <2>3, <2>8, <3>1 DEF OwnCalls, DroppedIsGone, AnsweredOnce, Busy
  <2>9. ASSUME UNCHANGED pc, pc = "idle", NEW D, DeleteMessages(D)
        PROVE  OwnCalls' /\ DroppedIsGone' /\ AnsweredOnce'
    <3>1. /\ messages' = messages \ D
          /\ dropped' = dropped \union ((D \intersect messages) \ received)
          /\ UNCHANGED <<posting, deleting, received, answered, again>>
      BY <2>9 DEF DeleteMessages
    <3>2. posting = {} /\ deleting = {}
      BY <2>2, <2>9 DEF Busy
    <3> QED
      BY <1>1, <2>0, <3>1, <3>2 DEF OwnCalls, DroppedIsGone, AnsweredOnce
  <2>10. ASSUME pc = "resetting", NetworkReset
         PROVE  OwnCalls' /\ DroppedIsGone' /\ AnsweredOnce'
    <3>1. posting = {} /\ deleting = {}
      BY <2>2, <2>10 DEF Busy
    <3> QED
      BY <1>1, <2>10, <3>1 DEF NetworkReset, OwnCalls, DroppedIsGone, AnsweredOnce
  <2>11. CASE \/ UNCHANGED <<networkVars, made>>
              \/ \E n \in Node : PostReplica(n, made)
              \/ \E m \in Message : PostMessage(m, live)
              \/ \E r \in registering : handleReplica(r)
    BY <2>4, <2>11 DEF PostReplica, PostMessage, handleReplica
  <2> QED
    BY <1>3, <2>5, <2>6, <2>7, <2>8, <2>9, <2>10, <2>11 DEF NetworkStep
<1> QED
  BY <1>2, <1>3

LEMMA NextIInv ==
  ASSUME IInv, [Next]_vars PROVE IInv' /\ NetworkStep
<1> USE DEF IInv
<1>1. Types' /\ NetworkStep /\ CallsStay
  BY TypesStep, StepOfNetwork
<1>2. Processes'
  BY ProcessesStep DEF Processes
<1>3. Leftovers'
  BY <1>1, LeftoversStep DEF Leftovers
<1>4. Places' /\ Fates' /\ AnsweredOnce'
  BY <1>1, PlacesStep, FatesStep
<1> QED
  BY <1>1, <1>2, <1>3, <1>4 DEF Processes, Leftovers

LEMMA InvariantIInv == Spec => []IInv
<1>1. IInv /\ [Next]_vars => IInv'
  BY NextIInv
<1> QED
  BY <1>1, InitIInv, PTL DEF Spec

-----------------------------------------------------------------------------
(* The promise of MessagePool *)

\* A step of the network is a step of the pool or leaves it alone.
LEMMA PoolStep ==
  ASSUME Types, Places, Fates, NetworkStep
  PROVE  Pool!Next \/ UNCHANGED Pool!vars
<1> USE DEF Pool!vars, Pool!promise
<1>1. CASE UNCHANGED <<system, messages, received, dropped>>
  BY <1>1
<1>2. CASE \/ UNCHANGED <<networkVars, made>>
           \/ \E n \in Node : PostReplica(n, made)
           \/ \E m \in Message : PostMessage(m, live)
           \/ \E r \in registering : handleReplica(r)
           \/ \E m \in messages, by \in Caller : Lookup(by, m)
  BY <1>1, <1>2 DEF PostReplica, PostMessage, handleReplica, Lookup
\* A message that arrives is new.
<1>3. ASSUME NEW m \in arriving, handleMessage(m) PROVE Pool!Next
  <2>1. m \in Message /\ m \notin messages /\ m \notin received /\ m \notin dropped
    BY DEF Places, Types, TypeOK
  <2>2. messages' = messages \union {m} /\ UNCHANGED <<system, received, dropped>>
    BY <1>3 DEF handleMessage
  <2>3. messages' \ received' = (messages \ received) \union {m}
    BY <2>1, <2>2
  <2>4. Pool!Send(m)
    BY <2>1, <2>2, <2>3 DEF Pool!Send
  <2> QED
    BY <2>1, <2>4 DEF Pool!Next
\* A post that reaches the receiver delivers a message that waits, or one that
\* was received already; only the loop of ratis posts what is gone.
<1>4. ASSUME NEW p \in posting, Post(p, live)
      PROVE  Pool!Next \/ UNCHANGED Pool!vars
  <2>1. p.msg \in Message
    BY DEF Types, TypeOK
  <2>2. UNCHANGED <<system, messages, dropped>>
    BY <1>4 DEF Post
  <2>3. CASE received' = received
    BY <1>1, <2>2, <2>3
  <2>4. CASE received' = received \union {p.msg} /\ p.msg \notin received
    <3>1. p.msg \in messages \ received \/ system = "ratis"
      BY <2>4 DEF Fates, OwnCalls
    <3>2. messages' \ received' = (messages \ received) \ {p.msg}
      BY <2>2, <2>4
    <3>3. Pool!Deliver(p.msg)
      BY <2>2, <2>4, <3>1, <3>2 DEF Pool!Deliver
    <3> QED
      BY <2>1, <3>3 DEF Pool!Next
  <2> QED
    BY <1>4, <2>3, <2>4 DEF Post, Reaches
\* Redisraft deletes what was received, the others may lose a message.
<1>5. ASSUME NEW p \in deleting, Delete(p)
      PROVE  Pool!Next \/ UNCHANGED Pool!vars
  <2>1. p.msg \in Message
    BY DEF Types, TypeOK
  <2>2. messages' = messages \ {p.msg} /\ UNCHANGED <<system, received, dropped>>
    BY <1>5 DEF Delete
  <2>3. CASE p.msg \notin messages \ received
    <3>1. messages' \ received' = messages \ received
      BY <2>2, <2>3
    <3> QED
      BY <2>2, <3>1
  <2>4. CASE p.msg \in messages \ received
    <3>1. system # "redisraft"
      BY <2>4 DEF Fates, OwnCalls
    <3>2. messages' \ received' = (messages \ received) \ {p.msg}
      BY <2>2
    <3>3. Pool!Lose(p.msg)
      BY <2>2, <2>4, <3>1, <3>2 DEF Pool!Lose
    <3> QED
      BY <2>1, <3>3 DEF Pool!Next
  <2> QED
    BY <2>3, <2>4
<1>6. ASSUME NEW D, DeleteMessages(D) PROVE Pool!Next
  <2> DEFINE E == (D \intersect messages) \ received
  <2>1. E \subseteq messages \ received /\ E \in SUBSET Message
    BY DEF Types, TypeOK
  <2>2. /\ dropped' = dropped \union E
        /\ messages' \ received' = (messages \ received) \ E
        /\ UNCHANGED <<system, received>>
    BY <1>6 DEF DeleteMessages
  <2>3. Pool!Drop(E)
    BY <2>1, <2>2 DEF Pool!Drop
  <2> QED
    BY <2>1, <2>3 DEF Pool!Next
<1>7. CASE NetworkReset
  <2>1. Pool!Clear
    BY <1>7 DEF NetworkReset, Pool!Clear
  <2> QED
    BY <2>1 DEF Pool!Next
<1> QED
  BY <1>2, <1>3, <1>4, <1>5, <1>6, <1>7 DEF NetworkStep

-----------------------------------------------------------------------------
(* The properties of the run pool, for every value of the constants *)

\* Every variable keeps its type.
THEOREM TypeCorrect == Spec => []TypeOK
<1>1. IInv => TypeOK
  BY DEF IInv, Types
<1> QED
  BY <1>1, InvariantIInv, PTL

\* Whatever fails while a cluster starts, stops or is replaced, every process
\* that runs belongs to a started node of the cluster in use.
THEOREM ProcessesBelong == Spec => []ProcessesOfThisCluster
<1>1. IInv => ProcessesOfThisCluster
  BY DEF IInv
<1> QED
  BY <1>1, InvariantIInv, PTL

\* No process of redisraft or cbft runs on the files of an earlier cluster.
THEOREM StorageBelongs == Spec => []StorageOfThisCluster
<1>1. IInv => StorageOfThisCluster
  BY DEF IInv
<1> QED
  BY <1>1, InvariantIInv, PTL

\* Messages and registrations of an earlier cluster that the network holds were
\* in flight when the network was reset.
THEOREM LeftoversExplained == Spec => []LeftoversWereInFlight
<1>1. IInv => LeftoversWereInFlight
  BY DEF IInv
<1> QED
  BY <1>1, InvariantIInv, PTL

\* In redisraft and cbft a message whose receiver has answered is not handed
\* over again, however many goroutines of SendMessage run.
THEOREM NotAnsweredTwice == Spec => []AnsweredOnce
<1>1. IInv => AnsweredOnce
  BY DEF IInv
<1> QED
  BY <1>1, InvariantIInv, PTL

\* The environments with their networks implement the pool of messages.
THEOREM PoolImplemented == Spec => ImplementsPool
<1>1. Init => Pool!Init
  BY DEF Init, NetworkInit, Pool!Init
<1>2. IInv /\ [Next]_vars => Pool!Next \/ UNCHANGED Pool!vars
  BY NextIInv, PoolStep DEF IInv
<1>3. IInv /\ [Next]_vars => [Pool!Next]_(Pool!vars)
  BY <1>2
<1> QED
  BY <1>1, <1>3, InvariantIInv, PTL DEF Spec, ImplementsPool, Pool!Spec

\* In the environments whose network is steered by the agent, what it dropped is
\* received by nobody, and nothing that waits was received.
THEOREM FatesAreFinal == Spec => []Pool!FateIsFinal
<1>1. IInv => Pool!FateIsFinal
  BY DEF IInv, Fates, DroppedIsGone, Pool!FateIsFinal
<1> QED
  BY <1>1, InvariantIInv, PTL
=============================================================================
