# TLA+ verification of raft-rl-test

This directory holds TLA+ models of the program in `../src`, TLC configurations
that check them, and proofs that TLAPS checks. Paths below are relative to `src/`.

The program runs reinforcement-learning agents that look for bugs in distributed
protocols. An agent observes a *partition environment*, which hides the node ids
behind colours and the network behind partitions of the nodes; below it sits a
*system*: protocols implemented here (LPaxos, RSL), etcd's raft, or real processes
(RedisRaft, CometBFT, Ratis) behind an intercepting network. An *experiment* runs
many episodes, each bounded by a horizon and a deadline.

## 1. Inventory

### Components, their state and their operations

| component | source | state | operations |
|---|---|---|---|
| Partition environment | `types/partition_env.go` | `CurPartition` (active nodes, colours, partition map, sorted partition, budgets, pending requests, repeat count), saved `messages` | `Reset`, `Step`/`StepCtx` with the actions create partition, keep partition, stop, start, send request, byzantine |
| Agent and experiment runner | `types/agent.go`, `types/experiment.go` | the episode counter and counts of timeouts and errors, the traces, a channel and a context per episode; the goroutines share environment and policy | `Run`, `RunWithCtx`, `RunWithTimeout`, `runEpisodeWithTimeout` |
| LPaxos | `lpaxos/` | per node: phase, step, last, log, decided, pending commands, tracker; per environment: message map, requests, ticks | handlers of 7 message kinds, `Tick`, `Propose`; deliver, drop, request |
| RSL | `rsl/` | per node: role, accepted proposal, prepared ballot, log, decided commands, cached proposals, answers, timers; message map, requests | handlers of 8 message kinds, `Tick`; `Reset`, `Start`, `Stop`, deliver, drop, request |
| Raft environments | `raft/` | etcd `RawNode`s, memory storages, message map, FIFO links, tick and snapshot counters | `Start`, `Stop`, `Reset`, `Tick`, deliver, drop, request; `Step` of the links |
| RedisRaft | `redisraft/` | processes and their working directories; the intercepting network: registered nodes, messages, context; the state shown | HTTP handlers `replica`, `message`; `Reset`, `WaitForNodes`, `SendMessage`, `DeleteMessage`; process start, stop, terminate, destroy |
| CometBFT, Ratis | `cbft/`, `ratis/` | the same design; Ratis has a loop that delivers by itself | the same operations |
| Monitors | `types/monitor.go`, `types/trace.go` | automata of labelled transitions | `On`, `MarkSuccess`, `Check(trace)` |
| Reward machine policy | `policies/reward_machine*.go` | position in the machine, whether `Final` was reached, a segment of the trace per state of the machine | `NextAction`, `Update`, `UpdateIteration`, `Reset`; the analyzer replays a trace |
| Property-guided policy | `policies/property_guided.go` | the property that is followed, whether it was fulfilled, the current trace, a table per property | the same |
| Q-learning policies | `policies/`, `types/policies.go` | Q tables, visit counts | the same |
| Multisets | `util/multiset.go` | the stack of one call | `EnumeratePartitions` |
| Bug predicates, colours, analyses, explorer, grid, commands | `*/bugs*.go`, `*/color.go`, `*/analysis.go`, `explorer/`, `grid/`, `benchmarks/` | none, or output only | |

### How they interact

The commands in `benchmarks/` build a policy, an environment and an experiment.
The experiment calls the agent's episode; the agent alternates `NextAction` of
the policy, `Step` of the environment and `Update` of the policy, and calls
`UpdateIteration` at the end. The partition environment turns one action into
several calls on the system: some `DeliverMessages` and `DropMessages`, then a
`Tick`, repeated; or one `Stop`, `Start` or `ReceiveRequest`. For the protocols
implemented here the calls step the nodes directly. For the real clusters they
post intercepted messages back to the processes over HTTP, while the processes
register and send new messages through the network's handlers at any time.
`RunWithTimeout` puts every episode in a goroutine and goes on without it when
its deadline passes.

### What is hard

* Concurrency: goroutines of timed-out episodes share the environment and the
  policy with later episodes; HTTP handlers, goroutines of `SendMessage` and
  the loop of Ratis share the network with an episode.
* Order and loss of messages: the environments deliver in any order, drop, and keep
  messages of earlier phases, of stopped nodes and of destroyed clusters.
* Partial failure: a step calls the system many times; a call may fail or the
  context may expire between two of them; a cluster may start in part.
* Caches: `p.messages`, the sorted partition, the acks of a phase, the registrations
  of a destroyed cluster, the segments of an episode that was broken off.
* Crash and restart: stop and start keep a storage (raft), a fresh node (RSL),
  a data directory (RedisRaft, CometBFT) or do nothing (LPaxos).

The hazards of the code are listed one by one, each with its line and the properties
aimed at it, under `hazards` in `PROJECT.json`.

### What makes each component correct

* Partition environment: inactive replicas are isolated; the two representations
  of the partition agree; the crash budget is respected; saved messages are in
  transit; a step delivers only between running replicas.
* Experiment runner: it ends; it keeps only completed, learned traces; an episode
  does not see another's states; a late goroutine stops at its next look at the deadline.
* LPaxos and RSL: what is decided stays decided; a later leader keeps what a quorum
  accepted; at most one primary of a ballot; logs without gaps.
* Raft environment: what the agent sees is what is in transit; a request is proposed
  once; a stop loses nothing that was acknowledged; the bug definitions
  report bugs and nothing else.
* Clusters: the agent decides the fate of every message; processes, files and
  messages of one cluster do not run into the next; operations return.
* Guided policies and monitors: what the policy believes of an episode is what its trace shows.
* Multisets: each partition is enumerated once.

## 2. Modules

    MultisetPartitions     EnumeratePartitions, a function
    PartitionOrder         the order of the parts: Less, sort.Sort, SortedColors
      PartitionEnv         the partition environment
        MCPartitionEnv     constants for TLC, and MultisetPartitions
        PartitionEnv_proofs
    EpisodeRunner          RunWithTimeout and its goroutines
      EpisodeRunner_proofs
    LPaxos                 the nodes and their environment
      LPaxos_proofs
    RSL                    the nodes and their environment
      MCRSL                the symmetry of the nodes
      RSL_proofs           types, ballots and timers
        RSLSafety_proofs   the logs, primaries of a ballot, executed decrees
    RaftNode               etcd's node, external
      RaftEnv              the partition environment and the links of raft
        RaftEnv_proofs
    MessagePool            abstract: what an intercepted network promises
    InterceptNetwork       the HTTP server and SendMessage
      ClusterEnv           processes, files, operations; implements MessagePool
        MCClusterEnv       constants for TLC
        ClusterEnv_proofs
    RewardMachine          the policy and the analyzer
    PropertyGuided         monitors and the policy
      GuidedAgent          an agent with either policy
        MCGuidedAgent      a machine and two monitors
        GuidedAgent_proofs

### PartitionEnv (`types/partition_env.go`)

`activeNodes`, `replicaColors`, `partitionMap`, `partition`, `repeatCount`,
`remainingCrashes` and so on are the fields of `CurPartition`; `parts` is
`len(Partition)`. `messages` is the copy `p.messages`. `running`, `transit`, `taken` and
`delivered` belong to the system below, which is external: it answers with any
colours and any new messages. One system takes messages out of transit that no step asked
for, also between the moment a copy was saved and the step that schedules it: the network
of Ratis, in `deliverLoop` (`ratis/network.go:196`). The constant `SelfDelivered` says which
messages it may do that to (none, for the other systems) and `taken` which it did since the
system was last asked.

| code | action |
|---|---|
| `Reset`/`ResetCtx`, `reset` | `Reset` |
| `handleStartStop(Ctx)`, stop | `Stop`, `StopFails` |
| `handleStartStop(Ctx)`, start | `Start`, `StartFails` |
| `handleRequest(Ctx)` | `SendRequest`, `SendRequestFails` |
| the byzantine case of `Step(Ctx)` | `Byzantine`, `ByzantineFails` |
| `handlePartition(Ctx)` before its loop | `KeepSamePartition`, `CreatePartition` |
| one round of the loop | `TickRound`, `TickRoundFails` |
| after the loop | `EndPartition` |
| `deliverLoop` of Ratis' network | `deliverLoop` |
| a check of the context | `Expire` makes it done, `PartitionTimesOut` and the `...Fails` actions notice it |

Handlers that call the system once are one action, with a `...Fails` alternative for
every way they return an error; the partition handler is split at its ticks, because
the system changes between them. What `ValidActions` offers is the guard of an action;
the colours it names may be those of several replicas, so the action chooses among
all that match (`StopCandidates`). Colours are hashes, natural numbers in the
order of the strings; `InactiveHash` gives the hash of an inactive replica's colour.
`Groupings` is what `EnumeratePartitions` yields for the active colours; how it does is
`MultisetPartitions`.

### MultisetPartitions (`util/multiset.go`)

The function is Knuth's Algorithm M, a loop over a stack of frames, one for each part of the
partition it builds. The code keeps the frames in one array and their beginnings in another; here a stack
is a sequence of frames. `FirstFrame` is step M1, `Leftovers` M2, `Filled` the pushing of M3, `Parts`
M4 with the visitor, `Exhausted` and `Decreased` M5, `Backtracked` M6, and `VisitedFrom` the loop
around them. They recurse where the code loops. A key of the multiset is its
number among the keys, and the elements with one key are told apart by a second number. The reference
definition is `SetPartitions`, all functions of the elements into parts. `MCPartitionEnv` extends this module
beside `PartitionEnv`, and `EveryPartitionOnce` there compares, in every state, what `Groupings` yields with what
`EnumeratePartitions` lists for the colours of the active replicas, besides checking the enumeration for all `Multisets`.

### EpisodeRunner (`types/agent.go`, `types/experiment.go`)

`main` is the program counter of `runEpisodeWithTimeout` and its loop, `at[i]` that of
the goroutine of episode `i`. The goroutines share the environment and the policy: `env` is
`CurPartition`, `sys` the system under test, `saved` the copy `p.messages`, and `learned` the
calls of `UpdateIteration`. A partition, the system and the saved messages are abstracted to the set of
the episodes they derive from, which is what it takes to tell whether an episode saw another's state.

`Reset` looks at no deadline and writes all three (`ResetSystem`, `StoreReset`, `SaveReset`). A `StepCtx`
copies `CurPartition` (`EnterStep`, with the policy's choice before it), looks at the
deadline at every tick of a partition action (`FirstTick`, which takes the saved messages, and `NextTick`), calls
the system (`SystemCall`: deliver, drop and tick, or stop or start and tick, or one
request), overwrites `p.messages` (`SaveMessages`), looks once more (`StepComputed`) and stores what
it has computed (`StoreState`). At any look, and after any call, it may fail (`StepFails`); what it has
written stays. Most of the systems' `Ctx` methods do not look at their context, so
`SystemCall` has no such guard. `late` counts, by kind, what each episode writes after its deadline. Goroutines
interleave between any two of these. Accesses to `CurPartition` and the policy are data races
in the code; the model takes each single read and write as atomic and interleaves them.

Main's own `recover` is not modelled: what is called there does not panic, `Check` of a
monitor on a nil trace included. A panic of a goroutine, which happens when the
channel was closed between the goroutine's check and its send, ends the process:
`crashed`. The printing of episode times is left out.

### LPaxos (`lpaxos/`)

`node` holds the fields of `LPaxosNode` and its `Tracker`; `outbox` the nodes'
`pendingMessages` until the environment collects them; `messages` the map of the
environment, which is a set because it is keyed by the content. One action per
message kind: `Prepare`, `Ack`, `Accept` (propose messages), `Promise`, `PhaseChange`,
`Heartbeat`, `DeliverCommand`, with `Ignore` for messages of an earlier phase; then
`Drop`, `ReceiveRequest`, `Tick`, `Reset`. Every handler is one step, with the
messages it sends, the change of phase it may begin with, and the proposal it may
end with. `proposed` and `accepted` are histories that properties refer to and no
action reads.

The tick counters are abstracted: `Tick` lets any set of leaders send a heartbeat and
any set of other nodes time out. The code's counters allow fewer such steps, never
others. `Start` and `Stop` do nothing in this environment and are no actions. The
direct environment in `rl_env.go` delivers one message and ticks all nodes in one
step, which is a `Deliver` followed by a `Tick`.

### RSL (`rsl/`)

`node[n]` holds the fields of `Node` and its `LocalState`; its `out` are the
`pendingMessagesToSend`, and a stopped node, which the code deletes from its map, is
`Inactive`. `messages` is the message map and `requests` the commands of `curState`.
A handler is an operator from the state of a node and a message to the state after it
(`AfterPrepareRequest` is `handlePrepareRequest`); the loops over fetched proposals
are recursive functions; `handleStatusResponse`, which picks
a node at random and looks at the clock, yields the set of the possible states. The
actions deliver a message to its handler, one per kind and, for answers, per outcome:
`StatusRequest`, `StatusResponse`, `PrepareRequest`, `PrepareResponse`, `NotPrepared`,
`AcceptRequest`, `AcceptResponse`, `NotAccepted`, `FetchRequest`, `FetchResponse`. The
environment has `Reset`, `Stop`, `Start`, `Drop`, `ReceiveRequest` and the branches of
a node's `Tick`: `TickIdle`, `TickElection`, `TickRetry`, `TickRepeat`, `TickPropose`.

Ticks are not counted: a timer that is set may be due or not. Of `nextElectionTime`
the model keeps whether it is at `math.MaxInt`, a time, or overflowed, which decides
whether a timer can be due at all. Configuration commands are never issued by the
environment; ballot entries of the log and timestamps in answers decide nothing. The
environment ticks its nodes one after the other and no message is delivered in
between, so a tick of the environment is a sequence of ticks of nodes here.
`executed` and `disturbed` are histories: what a node has executed with its decree, and
whether a node was restarted or old messages survived a reset.

### RaftNode and RaftEnv (`raft/`)

`RaftNode` is etcd's library, which is not in the repository: elections, log
replication and commitment, simplified (a `MsgApp` carries the whole log, heartbeats are
such messages, no probing and no flow control). Each operator yields the new node
and the messages that wait for the next `Ready`.

`RaftEnv` has both environments, told apart by `mode`. `nodes` is a function whose domain
is the live nodes, as the map `nodes` of the code; `stored` and `snapshot` are the
`MemoryStorage`s, `waiting` what was stepped but not yet taken by `Ready`,
`messages` the map of messages, `links` the queues of the link environment, `shown` and
`requests` fields of `curState`, `ticks` its counter modulo `SnapshotFrequency`.

| code | action |
|---|---|
| `Reset`, `makeNodes` | `Reset` |
| `Start`, `Stop` of `RaftPartitionEnv` | `Start`, `Stop` |
| `Tick` with the snapshots | `Tick` |
| `ReceiveRequest` | `ReceiveRequest` |
| `DeliverMessages`, `DropMessages`, message by message | `deliverMessage`, `dropMessage` |
| `LinkRaftEnvironment.Step`: deliver, propose, drop | `LinkDeliver`, `LinkPropose`, `LinkDrop` |

`bugs_definitions.go` is modelled by `committedLog`, `ReducedLog`, `ModifiedLog`,
`InconsistentLogs` and `MultipleLeaders`, the last with the code's way of counting
(`LeadersCounted`). A step with an empty list of messages returns nil in the code and is no
action. The `StepCtx` of the links does what `Step` does. `ReceiveRequest`, deliver and
drop build a state without `ticks`, which therefore starts at 0 again.

### MessagePool, InterceptNetwork and ClusterEnv (`redisraft/`, `cbft/`, `ratis/`)

The three copies of the design are one model; `system` names the copy where they differ.
`InterceptNetwork` has the fields of the network, the requests that processes have posted
and the server has not handled (`registering`, `arriving`), and the running calls of
`SendMessage` (`posting`, `deleting`), which gives up the lock between the look-up, the
post and the deletion. `ClusterEnv` adds processes, working directories, the cluster in
use and the state shown.

| code | action |
|---|---|
| `handleReplica`, `handleMessage` | the same, and the process's part `PostMessage`, `Launch` |
| `SendMessage` | `Lookup`, `Post`, `Delete` |
| `DeleteMessage` | `DeleteMessages` |
| `deliverLoop` of Ratis | `deliverLoop` |
| `Reset`: `Destroy`, `NewCluster`, network `Reset` | `Reset`, `NewCluster`, `NilCluster` |
| `Cluster.Start` and the loop that tries again | `ClusterStart`, `ClusterStartFails`, `ClusterStarted` |
| `WaitForNodes`, `Cleanup` | `WaitForNodes`, `Cleanup` |
| `Start`, `Stop` of a replica | `Start`, `Stop` |
| `Tick`, `ReceiveRequest` | `Tick`, `ReceiveRequest` |
| `DeliverMessages` with its goroutines | `DeliverMessages`, `SendMessage`, `SendToNobody`, `Delivered` |
| `DropMessages`, `BecomeByzantine` | `DropMessages`, `BecomeByzantine` |

A history numbers the clusters, so that a process, a file, a message or a
registration can be told to be of an earlier one. `received`, `answered`, `again`,
`dropped` and `flight` are histories of messages since the last reset.

`MessagePool` is the promise to the agent: a message waits until the agent has it
delivered or dropped; what was dropped is never received; a lossy environment may lose what it
fails to deliver, and one that is not steered delivers by itself. `ClusterEnv`
implements it with `pending <- messages \ received` (`ImplementsPool`): RedisRaft
is neither lossy nor unsteered, CometBFT is lossy, Ratis both. Between the answer to a post and
the deletion a message is in the map but no longer pending.

### RewardMachine, PropertyGuided and GuidedAgent (`policies/`, `types/monitor.go`)

`RewardMachine` has the machine's position, `reached` and the segments, and the operators
of the analyzer, which replays a trace on its own. `PropertyGuided` has monitors, built
with `On` and `MarkSuccess` as in the code, `Check`, and the policy that follows one
property after another; a second `On` between two states replaces the first, as the map does. `GuidedAgent` runs either with the agent's loop: `Begin`, `Step`
(`NextAction`, the step of the environment, `Update`), `TimeOut` (before the step or after
`NextAction`), `End` (`UpdateIteration`), `Crash` (a nil table) and `Reset` of
the experiment. A state of the environment is the set of predicates that hold in it.

Transitions of a Go map are tried in any order: `Check` yields the set of possible
results. Values in tables are left out; whether a table is nil is kept.

## 3. Runs

| run | instance | what it shows |
|---|---|---|
| `messages` | 2 replicas, 1 colour, 2 ticks of 1 message, 1 request, 1 byzantine, 2 crashes; the message between the replicas may be delivered by the system itself | `ActiveAreRunning`: the active set is the running set unless a step failed. `CacheInTransit`: what the first tick schedules is in transit, or was delivered by the system itself since it was last asked. `DeliveredAmongRunning`: a step's messages reach running replicas, from running replicas. |
| `grouping` | 3 replicas, 2 colours, at most 2 inactive, 3 crashes | `Isolation`, `CrashBudget`, and `ViewMatchesMap`: sorting, repainting, dropping empty parts and renumbering keep the map and the sorted view in agreement. `EveryPartitionOnce`: the agent is offered every grouping of the active replicas, and the enumeration, for every multiset of at most 5 elements, ends within its arrays and has listed every partition once. |
| `episodes` | 2 episodes, horizon 2, 3 calls of the system between two looks | `RecordedIsLearned`, `OneLateSegment`, `MixingNeedsTimeOut` and the liveness property `MainReturns` |
| `mixed` | 2 episodes, horizon 1, 3 calls | violation of `TracesOfOneEpisode`, see 5 |
| `lpaxos` | 3 nodes, 1 command, phases 0 and 1, 1 expiry, 4 messages in transit | `AcksHold`, `PromisesBacked`, `ProposalsHaveQuorum`, `ChosenSurvives`: the core of Paxos holds as long as a leader proposes once in a phase |
| `decided` | 2 nodes, 2 commands, 1 phase | violation of `DecidedStays` |
| `rsl` | 3 nodes, 1 command, ballots up to 2, 1 timeout, stop or unclean reset, 2 messages in transit | `OnePrimary`, `ExecutedIsChosen`, `PreparedCoversAccepted`, `ElectionTimerSet`, `LogHasNoGap` |
| `logs` | the same | violation of `DecidedLogsAgree` |
| `raft` | 3 nodes, terms up to 3, 2 that campaign, 1 request, snapshots every 2 ticks, 1 stop, 2 messages in transit, both environments | `ShownIsInTransit`, `ProposedOnce`; `StorageKeeps`: what a node acknowledged is in its storage (`AcknowledgedIsStored`), or was replaced by a later leader, or, once a node was started again, by another of the same term; and a snapshot is never beyond the log, at which `CreateSnapshot` panics (`SnapshotIsStored`); `NoFalseReport`: without restarts the bug definitions report nothing |
| `leaders` | 3 nodes, terms up to 2, snapshots every tick, 1 stop, 3 messages in transit | violation of `TwoLeadersAreReported` |
| `pool` | the three systems, 2 replicas, 1 link, 2 clusters, no second trial, 1 request, 2 messages or faults | `ProcessesOfThisCluster`, `StorageOfThisCluster`, `LeftoversWereInFlight`: clusters do not run into each other. `AnsweredOnce`. `ImplementsPool`: the refinement. `OperationsReturn`: operations return unless they wait for what has no time limit. |
| `guided` | a machine of 3 states, 2 monitors, horizon 2, 3 episodes and the experiment run again | `AnalysisAgrees`, `FinalIsEarned`, `FulfilledIsSatisfied` |

### Bounds and why they are enough

* `messages`: two ticks are needed for a first round that uses the saved copy and a
  later one that asks the system again; one message between replicas and one of a
  client distinguish every case of `Deliverable`. The one between replicas is also the one
  that `deliverLoop` may take, before the first round or between two. One colour suffices because no
  property of this run depends on colours.
* `grouping`: three replicas are the fewest with an inactive part, a part of two and
  one of one, and with two inactive ones; two colours, the hash of whose inactive
  forms lies between them, make the order of the parts matter. There are no messages.
  The multisets that occur in a state have three elements at most, so `EveryPartitionOnce` also covers all of 5. With 5
  elements a frame has up to five components and a stack up to five frames, and the elements may be all equal, all
  different or in between (31 multisets); the commands' clusters have three or four replicas unless a flag says more.
* `episodes`: two episodes are enough for a late goroutine and an episode it
  disturbs; three steps of an episode would add no place in its code. `MaxCalls` is the code's: a tick
  delivers, drops and ticks; a second tick begins the count again. (1,000,009 states.)
* LPaxos: `MaxPhase` bounds timeouts. Phase 0 and 1 have different leaders, and a
  quorum of phase 1 meets one of phase 0 in at least one node. With three nodes the phase
  after that, 2, is led by replica 0, which does not exist (`GetLeader`). `MaxInTransit`
  lets the reply of each node and one message of the old phase be in transit together.
* RSL: three nodes are the fewest of which two are a majority and one may miss what they
  do. One event is a timeout after which a second primary is elected, a proposal
  repeated, or a stop with the restart after it. Ballot 2 is the one of the second primary, and
  one command besides the empty one makes decree 1. Two messages are in transit at once:
  where a step sends more, it stands for the code's step and a drop of what does not fit, so
  a broadcast to two nodes fits if nothing else is in transit, and one message of an
  earlier ballot may wait while the answers of the newer one come and go. Nodes are only compared, so they are interchangeable (`Interchangeable`).
* Raft: three nodes, of which one is in neither of two majorities; `MaxTerm` 3 has room for the leader
  of the bootstrap term's successor and one after it (a bootstrapped node is in term 1, a restarted
  one in term 0). `Campaigners` leaves out the third node, whose campaigns are those of
  the others with the names changed. Two messages in transit are a broadcast, or an old message
  and an answer. One stop is enough for a node to come back from its storage.
  The run `leaders` needs a snapshot, because a node restarted without one never campaigns.
* `pool`: one message for each cluster over one link; the second cluster is the one that the first
  may run into. Two messages or faults let a message meet a crash of its receiver, a
  stop and start of it, or a second message. A second trial of a start repeats what the
  first does: it makes the next cluster, which here is that of the second episode.
* `guided`: a machine with a state between the first and the last can go forward and
  back; two steps let the second see what the first left. Of three episodes the
  second may be broken off and the third suffer from it, and a list of two properties comes round
  with the third. The first monitor needs two steps in turn. In the
  second both transitions of the first state may be possible at once, and the code takes the one that its
  map yields first: `FulfilledIsSatisfied` excepts such traces (`Unambiguous`), as two runs of `Check` on one
  of them may differ.

Deadlock is checked in every run of `PartitionEnv`, `LPaxos`, `RSL` and `RaftEnv`, where a `Reset` is
always possible between the actions of the agent, or a node can tick. `EpisodeRunner` ends,
`ClusterEnv` is done after `Cleanup` or has crashed, and `GuidedAgent` stops at a nil table, so there
it is not.

### Fairness

`EpisodeRunner` assumes that the Go scheduler runs
the main goroutine and that deadlines pass (`context.WithTimeout`). Nothing is
assumed of the goroutines of the episodes: they may hang in the system under test for
ever. The exception in `MainReturns` is the panic described in 5.

`ClusterEnv` (`FairSpec`) assumes weak fairness of `Finish`, that the goroutine of the episode goes on
inside an operation, and of the goroutines of `SendMessage`, where their waiting has a limit. The HTTP
clients limit the dial and the wait for the header of the answer (`redisraft/network.go:234`); `WaitForNodes` has
two seconds. They limit neither the writing of a request nor the reading of a body
(`io.ReadAll`, `redisraft/network.go:250`, `cbft/network.go:276`, `ratis/network.go:267`,
`cbft/cluster.go:233`), and CometBFT's testnet command runs as long as it likes
(`cbft/cluster.go:385`). So nothing is assumed of a post to a process that runs, nor of the deletion after
it (`MayHang`), nor of CometBFT's `Reset` while the command or a call of `Info` is under way (`ResetMayHang`); when
the process has died its connections are closed and the wait ends. `OperationsReturn` says that operations return,
infinitely often, or wait from some point on for one of these (`Stuck`). Without the exception the property
is false: one process that sends a header and no body holds an episode, and RedisRaft's goroutines are
waited for too. That a process which was killed is reaped, and that the commands with which RedisRaft initialises and joins, and
a `Tick` or `BecomeByzantine`, which are single steps of the model, end, is taken as given. Nothing is assumed of the
processes, of the server or of when operations begin.

## 4. What is proved

For every value of the constants that satisfies the stated assumptions:

* `PartitionEnv_proofs` (`ConfigAssumption`): `TypeCorrect`,
  `ActiveIsolated` (`Isolation`), `ActiveNodesRun` (`ActiveAreRunning`),
  `CrashesWithinBudget` (`CrashBudget`), `StoppedReplicasSilent`
  (`DeliveredAmongRunning`), `CachedMessagesInTransit` (`CacheInTransit`, and that between steps all
  of the copy is in transit if the system delivers nothing by itself), `ViewIsOfTheMap` (`ViewMatchesMap`).
* `EpisodeRunner_proofs` (`EpisodesAssumption`): `TypeCorrect`,
  `OneSegmentAfterDeadline` (`OneLateSegment`), `TracesAreLearned` (`RecordedIsLearned`),
  `EpisodesMixOnlyAfterTimeOut` (`MixingNeedsTimeOut`).
* `LPaxos_proofs`: `TypeCorrect`, `AcksAreKept` (`AcksHold`), `PromisesAreBacked`
  (`PromisesBacked`), `ProposalsAreBacked` (`ProposalsHaveQuorum`), `ChosenIsKept`
  (`ChosenSurvives`): every safety property of the run.
* `RSL_proofs`: `TypeCorrect`, `AssertionNeverFails` (`PreparedCoversAccepted`),
  `TimersAreSet` (`ElectionTimerSet`); `RSLSafety_proofs`: `LogsHaveNoGap` (`LogHasNoGap`),
  `BallotsHaveOnePrimary` (`OnePrimary`), `ExecutedAreChosen` (`ExecutedIsChosen`): every
  safety property of its run.
* `RaftEnv_proofs` (the assumptions of `RaftNode` and `RaftEnv` on their constants): `TypeCorrect`,
  `AgentSeesTheNetwork` (`ShownIsInTransit`), `RequestsAreProposedOnce` (`ProposedOnce`),
  `BugsAreNotMisreported` (`NoFalseReport`, an action property), `SnapshotsAreStored` and
  `AcknowledgedStays`, together `StoragesKeep` (`StorageKeeps`): every property of its run.
* `ClusterEnv_proofs` (`NetworkAssumption`, `ClusterAssumption`): `TypeCorrect`,
  `ProcessesBelong`, `StorageBelongs`, `LeftoversExplained`, `NotAnsweredTwice`, and
  `PoolImplemented`, that `Spec` implements `MessagePool`; `FatesAreFinal`, that
  the abstract pool keeps the fates of messages apart, so the clusters do.
* `GuidedAgent_proofs` (`MachineAssumption`, `MonitorAssumption`, `AgentAssumption`): `TypeCorrect`,
  `ReplayFindsThePolicy` (`AnalysisAgrees`), `FinalMustBeEarned` (`FinalIsEarned`),
  `FulfilledIsRight` (`FulfilledIsSatisfied`).

Why the inductive invariants are what they are:

* `PartitionEnv`: the proved invariants with
  `MapsBounded`, that the maps stay below the number of parts. `Isolation` needs it:
  a started replica gets index `parts` and the inactive ones `parts + 1`, which are free
  only if no replica is at or above `parts`; that renumbering keeps replicas apart is
  `RenumberedApart`, which counts the used indices below. `CrashBudget` rests on
  `OneMoreInactive` about cardinalities. `DeliveredAmongRunning` follows from
  `Isolation` of the running step's map together with `ActiveAreRunning`: a message of a stopped
  replica does not cross into a part of active ones. `ViewIsOfTheMap` adds that the view was
  made from the map and the colours that are kept (`ViewInv`). What it needs of the sort is less
  than an order, which `Less` is not: an insertion puts a part somewhere and changes none, so the sorted
  sequence lists the parts of the map once each (`PutAtLists`, `OrderLists`). The sort is a recursive
  function over how many parts were inserted, and the claim for every number of them
  has no least counterexample, as `<` on `Nat` is well founded.
* `EpisodeRunner`: where a goroutine can be. `LateInSegment` says what a goroutine with late
  writes has written and where it is: still in the piece of work the deadline found it in, with
  as many calls made as `calls` counts, or at a place whose next step looks at the deadline,
  from which `OneLateSegment` follows. `PastAreOver` says that the goroutine of an
  episode main has left is over unless the episode was timed out; with `CurrentIsAlone`,
  that the current episode then has the environment to itself, it gives
  `MixingNeedsTimeOut`.
* `LPaxos`: `Types`, `Nodes`, `Mail`, `Backed`, `AcceptedProposed`, `Kept`. What an ack, a
  promise or a proposal tells is true wherever it is: in an outbox, in transit, in a tracker.
  `Kept` says that a later proposal extends an earlier one unless a quorum has left the
  earlier phase without accepting it (`Blocked`), which can then never accept it;
  as two quorums meet, what a quorum accepted is extended by every later proposal.
* `RSL`: every node is `Sound` and every message well formed. A node's accepted ballot is at most
  its prepared one, and its timer is set outside `Initializing` and `Inactive`, so the handler that adds
  the grace period is only reached with a timer. What the recursive functions of the
  fetch handlers yield needs no induction in the invariant's own proof: each step of the function
  keeps `Sound`, and the claim for all lengths follows because `<` on `Nat` is well founded.
  `LogInv` then adds, for runs without restarts and old messages, `Tidy`: what the nodes have
  (`Orderly`), that ballots of accept requests are at least 1, and that a fetch request
  asks for no more than its sender has. The response's first entry is then never new, at which
  the handler returns: a fetch changes nothing, and the log grows only by the decree
  after the accepted one. `SafeInv` adds, for such runs, a history of the promises that were given, `\E V :
  PromisesKept(V)`, which is no variable of the model: a node promises a ballot number once, a
  preparing node has heard only of promises in it, and a primary has those of a majority. Two majorities
  share a node, which promised the number to one of them. `ChosenInv` adds a second history, of
  the acceptances: in `\E V, A : PromisesKept(V) /\ VotesKept(V, A)`, of one ballot number a decree has
  one proposal and the next decree is only proposed when that is chosen (`Settled`); each acceptance is in the
  log of its node, a primary has none above its own proposal, the votes it has heard are acceptances of
  that proposal, and what is executed is chosen (`Reports`). Only being elected, accepting and
  proposing add to it; every other step is `Steady`.
* `RaftEnv`: `shown = messages`, and `\E p, M : Placed(p, M)`: every request that was
  taken has a place, the index at which its leader appended it, and every log in a node, a storage or
  a message has it there or nowhere. Logs are copied place by place and a leader appends a
  request when it leaves the queue, so no log has it twice, even with two leaders of one term.
  `TypeOK` needs no raft: it is inductive as it stands, with what a role may have counted.

  `NoFalseReport` and `SnapshotIsStored` rest on raft's own safety, which holds while no node was started again.
  A state does not tell what happened in the terms before, so the invariant says that there
  is a history it fits: `SInv` is `restarted = {} => \E L, V, A, M : EnvSafe(L, V, A, M)`, where `L[t]` is the log of the leader of
  term `t`, `V[q][t]` the node that `q` voted for, `A[q][t]` how far `q` accepted the leader's
  log, and `M` is all that was sent, in transit or not. The parts of
  `Safe` that carry the argument: a term has one leader, with a majority of `V` (`Elected`, `Votes`); every entry of a log is preceded by what the
  leader of its term had (`Sound`); an entry that a leader made and a majority accepted is `Chosen`, and
  the log of every later leader has it, unless a majority left the term without it and it never will be chosen
  (`LaterLeaders`, `Kept`, `Lost`); a candidate's log has what each of its voters accepted (`Covers`), which is what
  the comparison of last entries at a vote is for; a commit index is at or below a chosen entry (`Committed`). From the last two it follows
  that two committed logs never differ (`OneCommitted`, `CommittedAgree`). `Move` says what no step
  undoes, and `Goes` that a history can be found for the nodes after a step; a step of
  the environment is one or more of those (`TickedGoes` orders the nodes that tick), a handing over
  of `Ready` to the storages, and messages lost (`Advances`). A stop needs nothing but that there are fewer nodes.

  `AcknowledgedIsStored` is about systems with restarts too, where two leaders of a term may have different logs and no
  history fits. While `restarted = {}` it follows from the history; with restarts `AInv` says of the storages,
  nodes and messages that an acknowledgement in transit is backed by its sender's log (`Answers`), and
  each step of a node lets it lose entries only to end in a later term or as a leader's log does (`Grew`, `Gains`): a `MsgApp`
  ends with an entry of its term (`Full`), because a leader begins with one (`Led`).
* `ClusterEnv`: `Types`, `Phases` (what holds at each `pc`), `ProcessesOfThisCluster`, `Files`,
  `StorageOfThisCluster`, `OnTheWay` and `LeftoversWereInFlight` (where a message or
  registration of an earlier cluster can be), `Places`, `Fates` and `AnsweredOnce`
  (a message that was answered is being deleted or gone). The refinement has one case per
  action: `handleMessage` is `Send`, `Post` is `Deliver` when the receiver gets it, `Delete` is
  `Lose` or a stutter, `NewCluster` is `Clear`.
* `GuidedAgent`: `Types`, `Episode`, `Reached`, `Place`, `Learning`, `Idle`. The
  position is the highest state that holds in the present state of the environment, unless
  `reached`; the replay grows by the position where a step was taken, as the segments do.
  `WatchInv` adds `Watch`: in an episode that began clean, `fulfilled` is what `Check` found of the trace so
  far. That a longer trace does not change it to the contrary takes what `Check` runs through
  (`Running`, a recursive function): a prefix of a trace runs as the trace does (`RunningPrefix`), a monitor that has
  ended stays so (`EmptyStays`), and if its transitions exclude one another it is in one state (`OneState`).

Only model-checked: `EveryPartitionOnce` and the liveness properties `MainReturns` and `OperationsReturn`. Liveness under
fairness and `ENABLED` are beyond the prover. So is `EveryPartitionOnce`, an induction over the multiset. What a recursive function computes for every input is proved
where a property needs it, each time by the least counterexample (`WFMin`), because
the induction theorems of the library take an operator as parameter, which no prover at hand instantiates.
What etcd's library does is simplified in `RaftNode`, and the theorems are about that.

## 5. Where the code and its documentation disagree

Each of these has a run that ends in a violation and an entry under `findings`.

* `decided`: an LPaxos leader that proposes twice in a phase replaces a decided command.
* `logs`: an RSL primary that loses its ballot executes a decree twice, and its decided
  log no longer agrees with the others.
* `mixed`: an episode that was timed out resets or replaces the state under the next one.
* `leaders`: a raft node that is stopped and started has forgotten its vote and may make a second leader of one
  term, and `MultipleLeaders` (`raft/bugs_definitions.go`) does not report it: the old
  count of a term is only read when there is none.

These were met too; they have no run.

* `PartitionSlice.Less` (`types/partition_env.go:204`) is not an order; partitions are not left in the
  order its comment describes.
* A partition step that ends in the configuration it started from may reset `RepeatCount`.
* Under the `ratis` command the first round of a partition step may schedule messages that Ratis' `deliverLoop` has
  delivered and deleted since they were saved: `CacheInTransit` excepts `taken`, and a message may so be handed to
  `DeliverMessages`, which then finds nothing to send. `deliverLoop` asks neither for partitions nor for stopped
  replicas, so `DeliveredAmongRunning` is about what a step delivers.
* A late `StepCtx` finishes the calls of its tick, or a stop or start with its tick, and overwrites `p.messages`
  under the episode that runs then, and only afterwards looks at its deadline
  (`types/partition_env.go:1133`, `1229`): `OneLateSegment` bounds what it does.
* Messages sent while a request was served are not among those the next partition step
  schedules first.
* Forwarded LPaxos commands carry phase 0 and are ignored by the new leader
  (`lpaxos/algo.go:272`). Phases that are `n - 1` modulo `n` have leader 0, which does not exist.
* `Monitor.Check` returns `GetPrefix(i)`, which lacks the step that fulfils the property
  (`types/monitor.go:99`), while `policies/property_guided.go:240` says that the last step should be that one.
* `PropertyGuidedPolicy.Reset` leaves a list of nil tables, at which the next run of the experiment ends
  (`GuidedAgent`'s `Crash`), and keeps the property, `reached` and the current trace. No command uses this policy.
* `err :=` in the loop of `redisraft/env.go:318` hides the variable tested after it; CometBFT reads an
  address through a nil pointer when a replica is not registered, and uses a nil cluster when its testnet could not
  be made. `ResetCtx` and `CleanupCtx` of RedisRaft, which no runner calls, would fail
  with any cluster, because `Terminate` returns the error of a killed process. Ratis panics in `Start` and `Stop`,
  and its command asks for no crashes (`benchmarks/ratis.go:32`).
* A goroutine may send on a channel that main has just closed (`types/experiment.go:146`), which ends the process.

No document contradicts the following, but properties must except them.

* A restarted RSL node has forgotten its ballot and its promises, so that two nodes can
  become primaries of one ballot, and its log may get a gap: it cached a repeated accept
  request of decree 0, is given an old fetch response that begins with decree 1, learns
  that and then, as `minNeeded.Decree <= m.Decree` compares with the decree of the response itself
  (`rsl/algo.go:770`), logs the cached decree 0 after it. `disturbed` excepts these.
* An RSL node that is behind learns nothing from a fetch response: the
  first entry of the answer is of the decree that it asked from, which is its own, and at
  such an entry the handler returns (`rsl/algo.go:747`).
* A restarted raft node has lost term, vote and commit index (its storage has no hard state),
  so that logs of two leaders of a term diverge and committed entries disagree; without
  a snapshot it has no configuration and never campaigns. `restarted` excepts this. `ReducedLog` takes
  every stopped replica for one that has lost its log.
* An episode that was broken off leaves its segments and `reached` to the next, which learns them as its own
  (`policies/reward_machine.go:165`); a first state that satisfies the final predicate
  does not set `reached` in a one-time machine, although the analyzer counts it.

## 6. What is not modelled

* The statistics, the printing and the plots; the Q tables of the policies (floating
  point, no protocol); reward predicates that are pure functions of a state; the explorer, the
  grid and the configuration in the commands.
* `Run` and `RunWithCtx`, which run one episode after the other.
* `Step` of `RaftEnvironment` and its wrapper: its actions are the messages of the state, and `Reset` leaves
  none. etcd's panic at a conflict below the commit index, which no run has reached.
* A late goroutine that calls a cluster's environment while the next episode does: `EpisodeRunner`
  has the interleavings of the runner, `ClusterEnv` one episode at a time. The map of times that
  such goroutines share (`UpdateTimeStatsCtx`) belongs there.
* What a byzantine node of CometBFT sends.
* Liveness of LPaxos and RSL, which needs the counters of their timers and a fair network, neither of which the
  environments give.

## 7. What could follow

The composition of `EpisodeRunner` with `ClusterEnv`; the tick counters of LPaxos with a fair environment, for its liveness.
