---------------------------- MODULE PartitionEnv ----------------------------
(***************************************************************************)
(* types/partition_env.go: the environment an RL agent observes.  It keeps *)
(* a partition of the replicas (CurPartition), asks an underlying system   *)
(* to stop and start replicas, to receive requests, to deliver or drop the *)
(* messages in transit, and to tick.                                       *)
(*                                                                         *)
(* The handlers are the Ctx ones: the episode's context may expire at any  *)
(* moment and a call on the underlying system may fail, and then the       *)
(* handler returns an error and CurPartition keeps its old value.  The     *)
(* handlers without a context are the steps in which neither happens.      *)
(*                                                                         *)
(* The underlying system is external: what it answers (the colour of a     *)
(* replica, new messages, whether a request can be delivered) is arbitrary.*)
(***************************************************************************)
EXTENDS PartitionOrder

CONSTANTS
  NumReplicas,              \* replicas are 1..NumReplicas
  Colors,                   \* hashes the painter may give a replica
  InactiveHash,             \* InActiveColor.Hash, of each colour
  TicketBetweenPartition,   \* ticks of one partition action
  MaxMessagesPerTick,       \* messages scheduled before one tick
  StaySameStateUpto,        \* cap of repeatCount
  MaxInactive,              \* replicas stopped at a time, 0 means no limit
  CrashLimit,               \* stops in an episode
  MaxByzantine,             \* replicas made byzantine in an episode
  Requests,                 \* requests pending when an episode starts
  Messages,                 \* every message that can be in transit (a bound)
  SelfDelivered             \* those the system may deliver without being asked:
                            \* none but for Ratis, whose network runs deliverLoop

Node == 1..NumReplicas

ASSUME ConfigAssumption ==
  /\ NumReplicas \in Nat \ {0}
  /\ Colors # {} /\ Colors \subseteq Nat
  /\ InactiveHash \in [Colors -> Nat \ Colors]
  /\ \A c, d \in Colors : InactiveHash[c] = InactiveHash[d] => c = d
  /\ TicketBetweenPartition \in Nat \ {0}
  /\ MaxMessagesPerTick \in Nat
  /\ StaySameStateUpto \in Nat
  /\ MaxInactive \in Nat
  /\ CrashLimit \in Nat
  /\ MaxByzantine \in Nat
  /\ Requests \in Nat
  /\ \A m \in Messages : m.from \in Nat /\ m.to \in Nat
  /\ SelfDelivered \subseteq Messages

VARIABLES
  \* p.CurPartition
  activeNodes, replicaColors, partitionMap,
  parts,                \* len(Partition)
  partition,            \* Partition
  repeatCount, remainingCrashes, byzantineNodes, remainingByzantine,
  pendingRequests, canDeliverRequest,
  \* p.messages, the messages saved for the next partition action
  messages,
  \* the handler that is running: "idle", "ticking" or "failed"
  status,
  newMap, newParts,     \* newPartitionMap and len(newPartition) while ticking
  tick,                 \* loop counter while ticking
  expired,              \* the context of this episode is done
  \* the underlying system
  running,              \* the replicas it runs
  transit,              \* the messages it has in transit
  taken,                \* what it delivered by itself since it was last asked
                        \* for a state whose messages the environment keeps
  delivered             \* what its last DeliverMessages was given

curVars == <<activeNodes, replicaColors, partitionMap, parts, partition,
             repeatCount, remainingCrashes, byzantineNodes, remainingByzantine,
             pendingRequests, canDeliverRequest>>
loopVars == <<newMap, newParts, tick>>
envVars == <<running, transit, taken, delivered>>
vars == <<curVars, messages, status, loopVars, expired, envVars>>

Inactive == Node \ activeNodes

\* The locals of handlePartition are gone.
LoopDone == newMap' = [n \in Node |-> 0] /\ newParts' = 1 /\ tick' = 0

-----------------------------------------------------------------------------
\* The painter colours every replica; an inactive one is wrapped in an
\* InActiveColor.
Painted(active, painter) ==
  [n \in Node |-> IF n \in active THEN painter[n] ELSE InactiveHash[painter[n]]]

Part(map, i) == {n \in Node : map[n] = i}

\* The sorted partition of the colours (map is 0-based, sequences are not).
View(map, k, color) ==
  SortParts([i \in 1..k |-> SortedColors(Part(map, i - 1), color)])

\* RepeatCount, compared by isSamePartition.  (Mutant: the cap is forgotten.)
RepeatedUncapped(view) == IF view # partition THEN 0 ELSE repeatCount + 1

Repeated(view) ==
  IF view # partition THEN 0
  ELSE IF repeatCount + 1 > StaySameStateUpto THEN StaySameStateUpto
  ELSE repeatCount + 1

\* What util.EnumeratePartitions gives for the colours of the active replicas
\* (MultisetPartitions has its steps): k non-empty parts in non-increasing order,
\* in which replicas of one colour are interchangeable; the handler picks among
\* them in the order of a map.
ColorCount(g, i, c) == Cardinality({n \in activeNodes : g[n] = i /\ replicaColors[n] = c})

PartPrecedes(g, i, j) ==
  \E c \in Colors :
    /\ ColorCount(g, i, c) > ColorCount(g, j, c)
    /\ \A d \in Colors : d < c => ColorCount(g, i, d) = ColorCount(g, j, d)

Groupings(k) ==
  {g \in [activeNodes -> 0..(k - 1)] :
     /\ \A i \in 0..(k - 1) : \E n \in activeNodes : g[n] = i
     /\ \A i \in 1..(k - 1) : ~PartPrecedes(g, i, i - 1)}

\* Message m may cross the partition map of the running step.  (Mutant: the
\* receiver is not required to be active.)
DeliverableToAnyone(m) ==
  m.from \notin Node \/ m.to \notin Node \/ newMap[m.from] = newMap[m.to]

Deliverable(m) ==
  /\ m.from \notin Node \/ m.to \notin Node \/ newMap[m.from] = newMap[m.to]
  /\ m.to \in activeNodes

-----------------------------------------------------------------------------
\* reset: a fresh CurPartition with every replica in one part.
Init ==
  /\ activeNodes = Node
  /\ replicaColors \in [Node -> Colors]
  /\ partitionMap = [n \in Node |-> 0]
  /\ parts = 1
  /\ partition = <<SortedColors(Node, replicaColors)>>
  /\ repeatCount = 0
  /\ remainingCrashes = CrashLimit
  /\ byzantineNodes = {}
  /\ remainingByzantine = MaxByzantine
  /\ pendingRequests = Requests
  /\ canDeliverRequest \in BOOLEAN
  /\ status = "idle"
  /\ newMap = [n \in Node |-> 0] /\ newParts = 1 /\ tick = 0
  /\ expired = FALSE
  /\ running = Node
  /\ transit \in SUBSET Messages
  /\ messages = transit
  /\ taken = {}
  /\ delivered = {}

\* The agent resets the environment at the start of the next episode: when an
\* episode ends (a horizon, or an empty choice of the policy) or has failed.
Reset ==
  /\ status \in {"idle", "failed"}
  /\ activeNodes' = Node
  /\ replicaColors' \in [Node -> Colors]
  /\ partitionMap' = [n \in Node |-> 0]
  /\ parts' = 1
  /\ partition' = <<SortedColors(Node, replicaColors')>>
  /\ repeatCount' = 0
  /\ remainingCrashes' = CrashLimit
  /\ byzantineNodes' = {}
  /\ remainingByzantine' = MaxByzantine
  /\ pendingRequests' = Requests
  /\ canDeliverRequest' \in BOOLEAN
  /\ status' = "idle"
  /\ LoopDone
  /\ expired' = FALSE
  /\ running' = Node
  /\ transit' \in SUBSET Messages
  /\ messages' = transit'
  /\ taken' = {}
  /\ delivered' = {}

\* The context of the episode is done.
Expire ==
  /\ ~expired
  /\ expired' = TRUE
  /\ UNCHANGED <<curVars, messages, status, loopVars, envVars>>

\* The goroutine of the system's network that sends whatever is in transit, at
\* any moment and whoever is stopped or partitioned.
deliverLoop ==
  /\ \E m \in transit \cap SelfDelivered :
       /\ transit' = transit \ {m}
       /\ taken' = taken \cup {m}
  /\ UNCHANGED <<curVars, messages, status, loopVars, expired, running, delivered>>

-----------------------------------------------------------------------------
\* What handleStartStop computes once replica n was stopped or started: the
\* survivors keep their part, a started replica and the inactive ones get a
\* part each, and empty parts are left out of the numbering.  (Mutants: the
\* stopped replica keeps its part; empty parts are not left out.)
RegroupedInPlace(active) ==
  [n \in Node |-> IF n \in active /\ n \notin activeNodes THEN parts ELSE partitionMap[n]]

Regrouped(active) ==
  [n \in Node |->
     IF n \in active /\ n \in activeNodes THEN partitionMap[n]
     ELSE IF n \in active THEN parts
     ELSE parts + 1]

Used(map, k) == {i \in 0..(k - 1) : Part(map, i) # {}}

RenumberedWithGaps(map, k) == map

Renumbered(map, k) ==
  [n \in Node |-> Cardinality({i \in Used(map, k) : i < map[n]})]

StartStop(active, crashes) ==
  /\ activeNodes' = active
  /\ remainingCrashes' = crashes
  /\ \E painter \in [Node -> Colors], more \in SUBSET Messages :
       LET map   == Renumbered(Regrouped(active), parts + 2)
           k     == Cardinality(Used(Regrouped(active), parts + 2))
           color == Painted(active, painter)
           view  == View(map, k, color)
       IN  /\ replicaColors' = color
           /\ partitionMap' = map
           /\ parts' = k
           /\ partition' = view
           /\ repeatCount' = Repeated(view)
           /\ transit' = transit \cup more
           /\ messages' = transit \cup more
  /\ taken' = {}
  /\ canDeliverRequest' \in BOOLEAN
  /\ UNCHANGED <<byzantineNodes, remainingByzantine, pendingRequests,
                 status, loopVars, expired>>

\* The handler returns an error instead: the call failed, or the context was
\* done before its last check.  What was asked of the system is done or not.
StartStopFails(after) ==
  /\ status' = "failed"
  /\ running' \in {running, after}
  /\ \E more \in SUBSET Messages :
       /\ transit' = transit \cup more
       /\ \/ UNCHANGED <<messages, taken>>
          \/ messages' = transit \cup more /\ taken' = {}
  /\ delivered' = {}
  /\ expired' \in {expired, TRUE}
  /\ UNCHANGED <<curVars, loopVars>>

\* Stop a replica of an active colour, within the limits Actions checks.  The
\* handler looks for the colour among all replicas.  (Mutants: MaxInactive is
\* not checked; the stopped replica stays in ActiveNodes.)
StopAllowedAnyNumber == status = "idle" /\ remainingCrashes > 0

StopAllowed ==
  /\ status = "idle"
  /\ remainingCrashes > 0
  /\ MaxInactive = 0 \/ Cardinality(Inactive) < MaxInactive

StopCandidates ==
  {n \in Node : \E m \in activeNodes : replicaColors[n] = replicaColors[m]}

ActiveAfterStopUnchanged(n) == activeNodes
ActiveAfterStop(n) == activeNodes \ {n}

Stop ==
  /\ StopAllowed
  /\ ~expired
  /\ \E n \in StopCandidates :
       /\ running' = running \ {n}
       /\ StartStop(ActiveAfterStop(n), remainingCrashes - 1)
  /\ delivered' = {}

StopFails ==
  /\ StopAllowed
  /\ \E n \in StopCandidates : StartStopFails(running \ {n})

Start ==
  /\ status = "idle"
  /\ ~expired
  /\ \E n \in Inactive :
       /\ running' = running \cup {n}
       /\ StartStop(activeNodes \cup {n}, remainingCrashes)
  /\ delivered' = {}

StartFails ==
  /\ status = "idle"
  /\ \E n \in Inactive : StartStopFails(running \cup {n})

-----------------------------------------------------------------------------
\* The request goes to the underlying system, which may leave it pending when
\* it finds nobody to serve it.  p.messages keeps the messages of before.
RequestAllowed ==
  /\ status = "idle"
  /\ canDeliverRequest
  /\ pendingRequests > 0

SendRequest ==
  /\ RequestAllowed
  /\ ~expired
  /\ \E painter \in [Node -> Colors], more \in SUBSET Messages :
       LET color == Painted(activeNodes, painter)
       IN  /\ replicaColors' = color
           /\ partition' = View(partitionMap, parts, color)
           /\ transit' = transit \cup more
  /\ repeatCount' = 0
  /\ pendingRequests' \in {pendingRequests, pendingRequests - 1}
  /\ canDeliverRequest' \in BOOLEAN
  /\ delivered' = {}
  /\ UNCHANGED <<activeNodes, partitionMap, parts, remainingCrashes,
                 byzantineNodes, remainingByzantine, messages, status,
                 loopVars, expired, running, taken>>

SendRequestFails ==
  /\ RequestAllowed
  /\ status' = "failed"
  /\ \E more \in SUBSET Messages : transit' = transit \cup more
  /\ delivered' = {}
  /\ expired' \in {expired, TRUE}
  /\ UNCHANGED <<curVars, messages, loopVars, running, taken>>

\* The colour is one of an active replica that is not byzantine; the handler
\* takes the first non-byzantine replica of that colour.
Byzantine ==
  /\ status = "idle"
  /\ ~expired
  /\ remainingByzantine > 0
  /\ \E m \in activeNodes \ byzantineNodes, n \in Node \ byzantineNodes :
       /\ replicaColors[n] = replicaColors[m]
       /\ byzantineNodes' = byzantineNodes \cup {n}
  /\ remainingByzantine' = remainingByzantine - 1
  /\ delivered' = {}
  /\ UNCHANGED <<activeNodes, replicaColors, partitionMap, parts, partition,
                 repeatCount, remainingCrashes, pendingRequests,
                 canDeliverRequest, messages, status, loopVars, expired,
                 running, transit, taken>>

\* The context is done at one of the checks.
ByzantineFails ==
  /\ status = "idle"
  /\ remainingByzantine > 0
  /\ activeNodes \ byzantineNodes # {}
  /\ status' = "failed"
  /\ expired' = TRUE
  /\ delivered' = {}
  /\ UNCHANGED <<curVars, messages, loopVars, running, transit, taken>>

-----------------------------------------------------------------------------
\* handlePartition, until its loop: the partition map of the step.
BeginPartition(map, k) ==
  /\ status = "idle"
  /\ activeNodes # {}
  /\ newMap' = map
  /\ newParts' = k
  /\ tick' = 0
  /\ status' = "ticking"
  /\ delivered' = {}
  /\ UNCHANGED <<curVars, messages, expired, running, transit, taken>>

KeepSamePartition == BeginPartition(partitionMap, parts)

\* The inactive replicas get the trailing part, empty when there are none.
CreatePartition ==
  \E k \in 1..NumReplicas : \E g \in Groupings(k) :
    BeginPartition([n \in Node |-> IF n \in activeNodes THEN g[n] ELSE k], k + 1)

\* One round of the loop: a random batch of the messages in transit is
\* delivered or dropped, then the system ticks.  The first round takes the
\* messages saved by the step before, the later ones those of the state the
\* tick gave, whatever the system has delivered of them meanwhile.
Batches ==
  LET source == IF tick = 0 THEN messages ELSE transit \cup taken
      size   == IF Cardinality(source) < MaxMessagesPerTick
                THEN Cardinality(source) ELSE MaxMessagesPerTick
  IN  {b \in SUBSET source : Cardinality(b) = size}

TickRound ==
  /\ status = "ticking"
  /\ tick < TicketBetweenPartition
  /\ ~expired
  /\ \E batch \in Batches, more \in SUBSET Messages :
       /\ delivered' = {m \in batch : Deliverable(m)}
       /\ transit' = (transit \ batch) \cup more
  /\ taken' = {}
  /\ tick' = tick + 1
  /\ UNCHANGED <<curVars, messages, status, newMap, newParts, expired, running>>

\* A call of the round fails, after some of the batch was handled.
TickRoundFails ==
  /\ status = "ticking"
  /\ tick < TicketBetweenPartition
  /\ ~expired
  /\ \E batch \in Batches : \E handled \in SUBSET batch :
       /\ delivered' = {m \in handled : Deliverable(m)}
       /\ transit' = transit \ handled
  /\ status' = "failed"
  /\ LoopDone
  /\ UNCHANGED <<curVars, messages, expired, running, taken>>

\* After the last tick: repaint, sort, count, and install the new state.
\* (Mutant: the saved messages are not renewed.)
LoopOver == tick = TicketBetweenPartition

SavedMessagesStale == messages
SavedMessages == transit \cup taken

EndPartition ==
  /\ status = "ticking"
  /\ LoopOver
  /\ ~expired
  /\ \E painter \in [Node -> Colors] :
       LET color == Painted(activeNodes, painter)
           view  == View(newMap, newParts, color)
       IN  /\ replicaColors' = color
           /\ partition' = view
           /\ repeatCount' = Repeated(view)
  /\ partitionMap' = newMap
  /\ parts' = newParts
  /\ messages' = SavedMessages
  /\ canDeliverRequest' \in BOOLEAN
  /\ status' = "idle"
  /\ delivered' = {}
  /\ LoopDone
  /\ UNCHANGED <<activeNodes, remainingCrashes, byzantineNodes,
                 remainingByzantine, pendingRequests, expired, running, transit, taken>>

\* A check of the context finds it done; p.messages was assigned already when
\* it is the check at the end.
PartitionTimesOut ==
  /\ status = "ticking"
  /\ expired
  /\ status' = "failed"
  /\ messages' = IF LoopOver THEN SavedMessages ELSE messages
  /\ delivered' = {}
  /\ LoopDone
  /\ UNCHANGED <<curVars, expired, running, transit, taken>>

-----------------------------------------------------------------------------
Handler == TickRound \/ TickRoundFails \/ EndPartition \/ PartitionTimesOut

Next ==
  \/ Reset \/ Expire \/ deliverLoop
  \/ Stop \/ StopFails \/ Start \/ StartFails
  \/ SendRequest \/ SendRequestFails
  \/ Byzantine \/ ByzantineFails
  \/ KeepSamePartition \/ CreatePartition
  \/ Handler

Spec == Init /\ [][Next]_vars

-----------------------------------------------------------------------------
\* Every variable has its type.
TypeOK ==
  /\ activeNodes \subseteq Node
  /\ replicaColors \in [Node -> Nat]
  /\ partitionMap \in [Node -> Nat]
  /\ parts \in Nat
  /\ repeatCount \in 0..StaySameStateUpto
  /\ remainingCrashes \in 0..CrashLimit
  /\ byzantineNodes \subseteq Node
  /\ remainingByzantine \in 0..MaxByzantine
  /\ pendingRequests \in 0..Requests
  /\ canDeliverRequest \in BOOLEAN
  /\ messages \subseteq Messages
  /\ status \in {"idle", "ticking", "failed"}
  /\ newMap \in [Node -> Nat]
  /\ newParts \in Nat
  /\ tick \in 0..TicketBetweenPartition
  /\ expired \in BOOLEAN
  /\ running \subseteq Node
  /\ transit \subseteq Messages
  /\ taken \subseteq SelfDelivered
  /\ delivered \subseteq Messages

\* An active replica never shares a part with an inactive one, in the state
\* and in the partition a running step installs: handlePartition relies on it
\* to drop what a stopped replica had sent (partition_env.go:808-816).
Isolation ==
  \A n \in activeNodes, m \in Inactive :
    /\ partitionMap[n] # partitionMap[m]
    /\ status = "ticking" => newMap[n] # newMap[m]

\* Unless a step has failed, CurPartition.ActiveNodes are the replicas the
\* underlying system runs.
ActiveAreRunning == status # "failed" => activeNodes = running

\* Every inactive replica was paid for from the crash budget, and the limit
\* on simultaneous crashes holds (docs/benchmark_setup.md:119-120).  The system
\* never has more replicas stopped than the limits allow, even when a stop that
\* failed after the replica was stopped has not been counted.
CrashBudget ==
  /\ Cardinality(Inactive) <= CrashLimit - remainingCrashes
  /\ Cardinality(Node \ running) <= CrashLimit
  /\ MaxInactive # 0 => \A down \in {Inactive, Node \ running} : Cardinality(down) <= MaxInactive

\* The sorted partition the agent hashes and the unsorted map the handlers
\* work with describe the same grouping of the painted replicas.
ViewMatchesMap ==
  /\ Len(partition) = parts
  /\ \A n \in Node : partitionMap[n] < parts
  /\ \A n \in Node : replicaColors[n] \in Colors <=> n \in activeNodes
  /\ \A i \in 0..(parts - 1) :
       LET part == SortedColors(Part(partitionMap, i), replicaColors)
       IN  Occurrences(part, partition) =
             Cardinality({j \in 0..(parts - 1) :
                SortedColors(Part(partitionMap, j), replicaColors) = part})

\* What a partition step will schedule first is in transit, unless the system
\* has delivered it by itself since the copy was made: p.messages is a copy that
\* other handlers have to keep fresh, and of the systems only Ratis delivers
\* messages that no step asked for (ratis/network.go:196-208), so under the ratis
\* command a first round may schedule messages that are gone.
CacheInTransit ==
  status = "idle" \/ (status = "ticking" /\ tick = 0) => messages \subseteq transit \cup taken

\* The environment hands a message only to a running replica, and none that a
\* stopped replica had sent before it stopped.  (deliverLoop asks nobody.)
DeliveredAmongRunning ==
  \A m \in delivered : m.to \in running /\ (m.from \in Node => m.from \in running)

=============================================================================
