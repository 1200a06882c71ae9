------------------------------- MODULE RaftEnv -------------------------------
(***************************************************************************)
(* The environments that run raft nodes in the program itself              *)
(* (raft/rl_environment.go, rl_partition_env.go, link_env.go): the nodes,  *)
(* the storages that survive them, the messages they exchange and the      *)
(* state the agent is shown.                                               *)
(*                                                                         *)
(* mode tells which environment it is: "partition" (RaftPartitionEnv) or   *)
(* "link" (LinkRaftEnvironment).  The Step of RaftEnvironment itself is    *)
(* left out: it is offered messages only, and Reset leaves none.           *)
(***************************************************************************)
EXTENDS RaftNode, SequencesExt

CONSTANTS
  Modes,
  NumRequests,
  SnapshotFrequency,
  MaxStops,       \* nodes that are stopped (a bound)
  MaxInTransit    \* messages in transit (a bound)

ASSUME EnvAssumption ==
  /\ Modes \subseteq {"partition", "link"}
  /\ NumRequests \in Nat /\ SnapshotFrequency \in Nat \ {0}
  /\ MaxStops \in Nat /\ MaxInTransit \in Nat

VARIABLES
  mode,
  nodes,          \* the live nodes; a function of their ids, as the map of the code
  stored,         \* per replica: the entries of its MemoryStorage
  snapshot,       \* per replica: the index of the snapshot in it
  waiting,        \* messages a node holds for the next Ready
  messages,       \* in transit: the map under the hash of the content
  links,          \* in transit in LinkRaftEnvironment: a queue per pair
  shown,          \* curState.Messages
  requests,       \* curState.Requests, or the queue of proposals of the links
  ticks,          \* curState.ticks modulo SnapshotFrequency
  drops,          \* curState.Timeouts of the links: Drop is offered
  stops,          \* how many nodes were stopped
  restarted       \* history: the nodes that were started again

nodeVars == <<nodes, stored, snapshot, waiting>>
messageVars == <<messages, links, shown>>
vars == <<mode, nodeVars, messageVars, requests, ticks, drops, stops, restarted>>

Link == Node \X Node
Live == DOMAIN nodes
Leaders == {n \in Live : nodes[n].role = "leader"}

\* makeNodes makes every node anew, with an empty storage.
Made == [n \in Node |-> Bootstrapped]

\* The proposals of an episode; the links begin with one.
Requests == [i \in 1..(IF mode = "link" THEN 1 ELSE NumRequests) |-> i]

Init ==
  /\ mode \in Modes
  /\ nodes = Made
  /\ stored = [n \in Node |-> <<>>] /\ snapshot = [n \in Node |-> 0]
  /\ waiting = {} /\ messages = {} /\ shown = {}
  /\ links = [l \in Link |-> <<>>]
  /\ requests = Requests
  /\ ticks = 0 /\ drops = TRUE /\ stops = 0 /\ restarted = {}

Reset ==
  /\ nodes' = Made
  /\ stored' = [n \in Node |-> <<>>] /\ snapshot' = [n \in Node |-> 0]
  /\ waiting' = {} /\ messages' = {} /\ shown' = {}
  /\ links' = [l \in Link |-> <<>>]
  /\ requests' = Requests
  /\ ticks' = 0 /\ drops' = TRUE /\ stops' = 0 /\ restarted' = {}
  /\ UNCHANGED mode

-----------------------------------------------------------------------------
(* Ready *)

\* The entries of every live node go to its storage.  (Mutants: the leaders'
\* only; and the storages of the others are lost.)
AppendedByLeaders(ns) ==
  [n \in Node |-> IF n \in DOMAIN ns /\ ns[n].role = "leader" THEN ns[n].log ELSE stored[n]]

AppendedOfLive(ns) == [n \in DOMAIN ns |-> ns[n].log]

Appended(ns) == [n \in Node |-> IF n \in DOMAIN ns THEN ns[n].log ELSE stored[n]]

\* Ready is taken from every live node whose state is ns.
Ready(ns) ==
  /\ nodes' = ns
  /\ stored' = Appended(ns)
  /\ waiting' = {}

\* What a tick of every node may yield: some do more than count it.
Ticked(ns) ==
  {[n \in DOMAIN ns |-> IF n \in S THEN Act(n, ns[n]) ELSE Ignored(ns[n])] :
     S \in SUBSET {n \in DOMAIN ns : MayAct(n, ns[n])}}

NodesOf(o) == [n \in DOMAIN o |-> o[n].node]
SentBy(o) == UNION {o[n].out : n \in DOMAIN o}

\* Few messages are in transit.  (A bound.)
Few(ms) == Cardinality(ms) <= MaxInTransit

\* A leader among the live nodes, the first that the map yields, is given the
\* proposal; without one nothing happens.
Proposed(d) ==
  IF Leaders = {} THEN {Outcome(nodes, {})}
  ELSE {LET r == AppendEntry(n, nodes[n], d)
        IN  Outcome([nodes EXCEPT ![n] = r.node], r.out) : n \in Leaders}

\* A message to a node that is not live has no effect.
Delivered(m) ==
  IF m.to \notin Live THEN Outcome(nodes, {})
  ELSE LET r == StepNode(m.to, nodes[m.to], m)
       IN  Outcome([nodes EXCEPT ![m.to] = r.node], r.out)

-----------------------------------------------------------------------------
(* RaftPartitionEnv *)

\* A node is made from the storage, which knows no hard state: term, vote and
\* commit are lost.  It has a configuration when there is a snapshot, or when
\* the storage is empty and Bootstrap succeeds.
NewNode(n) ==
  IF stored[n] = <<>> THEN Bootstrapped ELSE FromStorage(stored[n], snapshot[n] > 0)

Start(n) ==
  /\ mode = "partition" /\ n \notin Live
  /\ nodes' = [q \in Live \union {n} |-> IF q = n THEN NewNode(n) ELSE nodes[q]]
  /\ restarted' = restarted \union {n}
  /\ UNCHANGED <<mode, stored, snapshot, waiting, messageVars, requests, ticks, drops, stops>>

\* What the node has not handed out by Ready is lost with it.
Stop(n) ==
  /\ mode = "partition" /\ n \in Live
  /\ stops < MaxStops /\ stops' = stops + 1
  /\ nodes' = [q \in Live \ {n} |-> nodes[q]]
  /\ waiting' = {m \in waiting : m.from # n}
  /\ UNCHANGED <<mode, stored, snapshot, messageVars, requests, ticks, drops, restarted>>

\* CreateSnapshot refuses an index that is not beyond the last snapshot.  The
\* configuration counts as one entry.  (Mutant: one too far.)
SnapshotTooFar(s, old) ==
  IF s.commit > 3 THEN Max({old, s.commit + 1}) ELSE old

SnapshotOf(s, old) ==
  IF s.commit > 3 THEN Max({old, s.commit - 1}) ELSE old

Tick ==
  /\ mode = "partition"
  /\ \E o \in Ticked(nodes) :
       /\ Ready(NodesOf(o))
       /\ messages' = messages \union waiting \union SentBy(o)
       /\ Few(messages')
  /\ shown' = messages'
  /\ ticks' = (ticks + 1) % SnapshotFrequency
  /\ snapshot' = [n \in Node |-> IF ticks' = 0 /\ n \in Live
                                 THEN SnapshotOf(nodes'[n], snapshot[n]) ELSE snapshot[n]]
  /\ UNCHANGED <<mode, links, requests, drops, stops, restarted>>

\* (Mutant: the request is kept.)
AllRemaining == requests

Remaining == IF Leaders = {} THEN requests ELSE Tail(requests)

\* Ready is not taken: the state shown is the old one, and ticks is not copied.
ReceiveRequest ==
  /\ mode = "partition" /\ requests # <<>>
  /\ \E r \in Proposed(Head(requests)) :
       /\ nodes' = r.node
       /\ waiting' = waiting \union r.out
  /\ requests' = Remaining
  /\ ticks' = 0
  /\ UNCHANGED <<mode, stored, snapshot, messageVars, drops, stops, restarted>>

deliverMessage(m) ==
  /\ mode = "partition" /\ m \in shown
  /\ LET r == Delivered(m) IN
       /\ Ready(r.node)
       /\ messages' = (messages \ {m}) \union waiting \union r.out
       /\ Few(messages')
  /\ shown' = messages'
  /\ ticks' = 0
  /\ UNCHANGED <<mode, snapshot, links, requests, drops, stops, restarted>>

\* The shown messages lose it, and the map.  (Mutant: only the shown.)
KeptInTransit(m) == messages

WithoutDropped(m) == messages \ {m}

dropMessage(m) ==
  /\ mode = "partition" /\ m \in shown
  /\ messages' = WithoutDropped(m)
  /\ shown' = shown \ {m}
  /\ ticks' = 0
  /\ UNCHANGED <<mode, nodeVars, links, requests, drops, stops, restarted>>

-----------------------------------------------------------------------------
(* LinkRaftEnvironment: queues, and a tick of all nodes a step.             *)

\* addMessage of the messages of a Ready; a node sends at most one message to
\* another in a step and one in a tick.
On(l, ms) == {m \in ms : m.from = l[1] /\ m.to = l[2]}

Added(q, stepped, ticked) ==
  [l \in Link |-> q[l] \o SetToSeq(On(l, stepped)) \o SetToSeq(On(l, ticked))]

\* The nodes are ticked and Ready is taken after a delivery.
LinkReady(r, q) ==
  /\ \E o \in Ticked(r.node) :
       /\ Ready(NodesOf(o))
       /\ links' = Added(q, r.out, SentBy(o))
       /\ MapThenSumSet(LAMBDA l : Len(links'[l]), Link) <= MaxInTransit
  /\ drops' = TRUE
  /\ UNCHANGED <<mode, snapshot, messages, shown, ticks, stops, restarted>>

LinkDeliver(l) ==
  /\ mode = "link" /\ links[l] # <<>>
  /\ LinkReady(Delivered(Head(links[l])), [links EXCEPT ![l] = Tail(@)])
  /\ UNCHANGED requests

\* The proposal is put back when nobody leads.
LinkPropose ==
  /\ mode = "link" /\ requests # <<>>
  /\ \E r \in Proposed(Head(requests)) : LinkReady(r, links)
  /\ requests' = Remaining

\* The state after a drop does not offer another.
LinkDrop(l) ==
  /\ mode = "link" /\ drops /\ links[l] # <<>>
  /\ links' = [links EXCEPT ![l] = Tail(@)]
  /\ drops' = FALSE
  /\ UNCHANGED <<mode, nodeVars, messages, shown, requests, ticks, stops, restarted>>

-----------------------------------------------------------------------------
Next ==
  \/ Reset \/ Tick \/ ReceiveRequest \/ LinkPropose
  \/ \E n \in Node : Start(n) \/ Stop(n)
  \/ \E m \in shown : deliverMessage(m) \/ dropMessage(m)
  \/ \E l \in Link : LinkDeliver(l) \/ LinkDrop(l)

Spec == Init /\ [][Next]_vars

-----------------------------------------------------------------------------
(* What bugs_definitions.go computes of the replica states of a partition.  *)

\* The committed part of what GetReplicaState yields: the stored entries of a
\* live node; a stopped one has none.  (Mutant: all of them.)
WholeLog(n) == IF n \in Live THEN stored[n] ELSE <<>>

committedLog(n) ==
  IF n \notin Live THEN <<>>
  ELSE IF nodes[n].commit < Len(stored[n]) THEN SubSeq(stored[n], 1, nodes[n].commit)
  ELSE stored[n]

ReducedLog == \E n \in Node : Len(committedLog(n)') < Len(committedLog(n))

Differ(a, b) == \E i \in DOMAIN a \intersect DOMAIN b : a[i] # b[i]

ModifiedLog == \E n \in Node : Differ(committedLog(n)', committedLog(n))

InconsistentLogs == \E n, q \in Node : Differ(committedLog(n), committedLog(q))

\* The count of a term after so many leaders: the old count is only read when
\* the map has none.
LeadersCounted[k \in Nat] ==
  IF k = 0 THEN 0
  ELSE (IF LeadersCounted[k - 1] = 0 THEN LeadersCounted[k - 1] ELSE 0) + 1

LeadersOf(t) == {n \in Leaders : nodes[n].term = t}

MultipleLeaders ==
  \E n \in Leaders : LeadersCounted[Cardinality(LeadersOf(nodes[n].term))] > 1

-----------------------------------------------------------------------------
Log == Seq([term : 1..MaxTerm, data : 0..Len(Requests)])

Message ==
  [type : {"Vote"}, from : Node, to : Node, term : 1..MaxTerm, last : 0..MaxTerm, index : Nat]
  \union [type : {"VoteResp"}, from : Node, to : Node, term : 1..MaxTerm]
  \union [type : {"App"}, from : Node, to : Node, term : 1..MaxTerm, log : Log, commit : Nat]
  \union [type : {"AppResp"}, from : Node, to : Node, term : 1..MaxTerm, index : Nat]

NodeState ==
  [term : 0..MaxTerm, vote : 0..NumNodes, role : {"follower", "candidate", "leader"},
   granted : SUBSET Node, log : Log, commit : Nat, match : [Node -> Nat], voter : BOOLEAN]

\* Votes are counted by those who campaigned, what others match by a leader.
FitsRole(s) ==
  /\ s.role = "follower" => s.granted = {}
  /\ s.role # "follower" => s.term > 0 /\ s.vote \in Node
  /\ s.role # "leader" => s.match = [n \in Node |-> 0]

TypeOK ==
  /\ mode \in Modes
  /\ Live \subseteq Node /\ \A n \in Live : nodes[n] \in NodeState /\ FitsRole(nodes[n])
  /\ stored \in [Node -> Log] /\ snapshot \in [Node -> Nat]
  /\ waiting \subseteq Message /\ messages \subseteq Message
  /\ shown \subseteq Message
  /\ links \in [Link -> Seq(Message)]
  /\ requests \in Seq(1..Len(Requests))
  /\ ticks \in 0..(SnapshotFrequency - 1) /\ drops \in BOOLEAN
  /\ stops \in 0..MaxStops /\ restarted \subseteq Node

\* The agent is shown the messages in transit, after whatever sequence of
\* calls: nothing that was delivered or dropped is offered again, and nothing
\* is withheld.
ShownIsInTransit == shown = messages

\* A request is proposed once: while it is pending no log has it, and no log
\* ever has it twice.
ProposedOnce ==
  \A n \in Node : \A log \in {stored[n]} \union (IF n \in Live THEN {nodes[n].log} ELSE {}) :
    LET data == [i \in DOMAIN log |-> log[i].data] IN
      /\ \A i, j \in DOMAIN data : i # j /\ data[i] = data[j] => data[i] = 0
      /\ ToSet(data) \intersect ToSet(requests) = {}

\* A stop loses nothing that was acknowledged: what an acknowledgement in
\* transit is about is in the storage of its sender, or was replaced by a later
\* leader; once a node was started again a term may have two leaders, of which
\* one replaces what the other wrote.  (A node that was started again has
\* forgotten its term, and may follow an earlier leader.)
AcknowledgedIsStored ==
  \A m \in messages \union UNION {ToSet(links[l]) : l \in Link} :
    m.type = "AppResp" /\ m.from \notin restarted =>
      \/ Len(stored[m.from]) >= m.index
      \/ LastTerm(stored[m.from]) > m.term
      \/ restarted # {} /\ LastTerm(stored[m.from]) = m.term

\* The storage has every entry of its snapshot, which CreateSnapshot demands:
\* what a node has applied no leader replaces, while no node was started again.
SnapshotIsStored ==
  restarted = {} => \A n \in Node : snapshot[n] <= Len(stored[n])

\* A storage keeps what its node acknowledged and what it applied.
StorageKeeps == AcknowledgedIsStored /\ SnapshotIsStored

\* While no node was started again the bug definitions report nothing, except
\* ReducedLog, which takes a stopped replica for one that lost its log.
NoFalseReport ==
  [][restarted' = {} /\ nodes' # Made =>
       /\ ~InconsistentLogs' /\ ~ModifiedLog
       /\ ReducedLog => Live' # Live]_<<nodes, stored>>

\* MultipleLeaders is commented "Check if there are more than one leader in the
\* same term": whenever two replicas lead in one term, it reports.
TwoLeadersAreReported ==
  (\E n, q \in Leaders : n # q /\ nodes[n].term = nodes[q].term) => MultipleLeaders
=============================================================================
