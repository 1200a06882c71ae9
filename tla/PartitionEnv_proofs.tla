------------------------ MODULE PartitionEnv_proofs ------------------------
(***************************************************************************)
(* Theorems about PartitionEnv, for every number of replicas, colouring,   *)
(* set of messages and configuration.  One inductive invariant, IInv,      *)
(* carries them all.                                                       *)
(***************************************************************************)
EXTENDS PartitionEnv, FiniteSetTheorems, FunctionTheorems, SequenceTheorems, WellFoundedInduction, TLAPS

\* The indices of a partition map stay below the number of parts: without it
\* the part a started replica gets could be one that is in use.
MapsBounded ==
  \A n \in Node : /\ partitionMap[n] < parts
                  /\ status = "ticking" => newMap[n] < newParts

IInv ==
  /\ TypeOK
  /\ MapsBounded
  /\ Isolation
  /\ ActiveAreRunning
  /\ CrashBudget
  /\ DeliveredAmongRunning

-----------------------------------------------------------------------------
LEMMA NodeFinite == IsFiniteSet(Node)
  BY ConfigAssumption, FS_Interval DEF Node

LEMMA InactiveFinite ==
  ASSUME NEW S \in SUBSET Node
  PROVE  /\ IsFiniteSet(Node \ S)
         /\ Cardinality(Node \ S) \in Nat
  BY NodeFinite, FS_Subset, FS_CardinalityType

\* Removing one replica from the active ones makes at most one more inactive.
LEMMA OneMoreInactive ==
  ASSUME NEW S \in SUBSET Node, NEW n \in Node
  PROVE  /\ Cardinality(Node \ (S \ {n})) <= Cardinality(Node \ S) + 1
         /\ Cardinality(Node \ (S \cup {n})) <= Cardinality(Node \ S)
<1>1. /\ Node \ (S \ {n}) = (Node \ S) \cup {n}
      /\ Node \ (S \cup {n}) = (Node \ S) \ {n}
  OBVIOUS
<1>2. IsFiniteSet(Node \ S) /\ Cardinality(Node \ S) \in Nat
  BY InactiveFinite
<1>3. Cardinality((Node \ S) \cup {n}) <= Cardinality(Node \ S) + 1
  BY <1>2, FS_AddElement
<1>4. Cardinality((Node \ S) \ {n}) <= Cardinality(Node \ S)
  BY <1>2, FS_RemoveElement
<1> QED
  BY <1>1, <1>3, <1>4

\* Leaving the empty parts out of the numbering keeps different parts apart
\* and gives every replica an index below the new number of parts.
LEMMA RenumberedType ==
  ASSUME NEW k \in Nat, NEW map \in [Node -> 0..(k - 1)]
  PROVE  /\ IsFiniteSet(Used(map, k))
         /\ Cardinality(Used(map, k)) \in Nat
         /\ Renumbered(map, k) \in [Node -> Nat]
<1>1. IsFiniteSet(0..(k - 1))
  BY FS_Interval
<1>2. IsFiniteSet(Used(map, k)) /\ Cardinality(Used(map, k)) \in Nat
  BY <1>1, FS_Subset, FS_CardinalityType DEF Used
<1>3. ASSUME NEW n \in Node
      PROVE  Cardinality({i \in Used(map, k) : i < map[n]}) \in Nat
  BY <1>2, FS_Subset, FS_CardinalityType
<1> QED
  BY <1>2, <1>3 DEF Renumbered

LEMMA RenumberedBelow ==
  ASSUME NEW k \in Nat, NEW map \in [Node -> 0..(k - 1)],
         NEW S \in SUBSET Used(map, k), NEW n \in Node,
         \A i \in Used(map, k) : i < map[n] => i \in S,
         map[n] \notin {i \in Used(map, k) : i < map[n]}, map[n] \in S
  PROVE  Renumbered(map, k)[n] < Cardinality(S)
<1> DEFINE T == {i \in Used(map, k) : i < map[n]}
<1>1. IsFiniteSet(S)
  BY RenumberedType, FS_Subset
<1>2. T \in SUBSET S /\ T # S
  OBVIOUS
<1>3. /\ Cardinality(T) <= Cardinality(S)
      /\ Cardinality(T) # Cardinality(S)
      /\ Cardinality(S) \in Nat
      /\ Cardinality(T) \in Nat
  BY <1>1, <1>2, FS_Subset, FS_CardinalityType
<1>4. Renumbered(map, k)[n] = Cardinality(T)
  BY DEF Renumbered
<1> QED
  BY <1>3, <1>4

LEMMA RenumberedBounded ==
  ASSUME NEW k \in Nat, NEW map \in [Node -> 0..(k - 1)], NEW n \in Node
  PROVE  Renumbered(map, k)[n] < Cardinality(Used(map, k))
<1>1. map[n] \in Used(map, k)
  BY DEF Used, Part
<1>2. map[n] \in 0..(k - 1)
  OBVIOUS
<1> QED
  BY <1>1, <1>2, RenumberedBelow

LEMMA RenumberedApart ==
  ASSUME NEW k \in Nat, NEW map \in [Node -> 0..(k - 1)],
         NEW n \in Node, NEW m \in Node, map[n] # map[m]
  PROVE  Renumbered(map, k)[n] # Renumbered(map, k)[m]
<1>1. ASSUME NEW p \in Node, NEW q \in Node, map[p] < map[q]
      PROVE  Renumbered(map, k)[p] < Renumbered(map, k)[q]
  <2> DEFINE S == {i \in Used(map, k) : i < map[q]}
  <2>1. map[p] \in Used(map, k) /\ map[p] \in 0..(k - 1) /\ map[q] \in 0..(k - 1)
    BY DEF Used, Part
  <2>2. \A i \in Used(map, k) : i < map[p] => i \in S
    BY <1>1, <2>1 DEF Used
  <2>3. Renumbered(map, k)[p] < Cardinality(S)
    BY <1>1, <2>1, <2>2, RenumberedBelow
  <2>4. Renumbered(map, k)[q] = Cardinality(S)
    BY DEF Renumbered
  <2> QED
    BY <2>3, <2>4
<1>2. map[n] \in 0..(k - 1) /\ map[m] \in 0..(k - 1)
  OBVIOUS
<1>3. Renumbered(map, k)[n] \in Nat /\ Renumbered(map, k)[m] \in Nat
  BY RenumberedType
<1>4. map[n] < map[m] \/ map[m] < map[n]
  BY <1>2
<1> QED
  BY <1>1, <1>3, <1>4

\* What the painter and RepeatCount may be.
LEMMA PaintedType ==
  ASSUME NEW S, NEW painter \in [Node -> Colors]
  PROVE  Painted(S, painter) \in [Node -> Nat]
  BY ConfigAssumption DEF Painted

LEMMA RepeatedType ==
  ASSUME TypeOK, NEW view
  PROVE  Repeated(view) \in 0..StaySameStateUpto
  BY ConfigAssumption DEF TypeOK, Repeated

-----------------------------------------------------------------------------
LEMMA InitIInv == Init => IInv
<1> SUFFICES ASSUME Init PROVE IInv
  OBVIOUS
<1>1. /\ Inactive = {} /\ Cardinality(Inactive) = 0
      /\ Node \ running = {} /\ Cardinality(Node \ running) = 0
  BY FS_EmptySet DEF Init, Inactive
<1>2. TypeOK
  <2>1. replicaColors \in [Node -> Nat]
    BY ConfigAssumption DEF Init
  <2>2. messages \subseteq Messages /\ transit \subseteq Messages
    BY DEF Init
  <2>3. partitionMap \in [Node -> Nat] /\ newMap \in [Node -> Nat]
    BY DEF Init
  <2>4. /\ 0 \in 0..StaySameStateUpto /\ CrashLimit \in 0..CrashLimit
        /\ MaxByzantine \in 0..MaxByzantine /\ Requests \in 0..Requests
        /\ 0 \in 0..TicketBetweenPartition
    BY ConfigAssumption
  <2> QED
    BY <2>1, <2>2, <2>3, <2>4 DEF Init, TypeOK
<1>3. MapsBounded
  BY DEF Init, MapsBounded
<1>4. Isolation
  BY <1>1 DEF Init, Isolation
<1>5. ActiveAreRunning
  BY DEF Init, ActiveAreRunning
<1>6. CrashBudget
  BY <1>1, ConfigAssumption DEF Init, CrashBudget
<1>7. DeliveredAmongRunning
  BY DEF Init, DeliveredAmongRunning
<1> QED
  BY <1>2, <1>3, <1>4, <1>5, <1>6, <1>7 DEF IInv

LEMMA ResetStep == Reset => IInv'
<1> SUFFICES ASSUME Reset PROVE IInv'
  OBVIOUS
<1>1. /\ Inactive' = {} /\ Cardinality(Inactive') = 0
      /\ Node \ running' = {} /\ Cardinality(Node \ running') = 0
  BY FS_EmptySet DEF Reset, Inactive
<1>2. TypeOK'
  <2>1. replicaColors' \in [Node -> Nat]
    BY ConfigAssumption DEF Reset
  <2>2. messages' \subseteq Messages /\ transit' \subseteq Messages
    BY DEF Reset
  <2>3. partitionMap' \in [Node -> Nat] /\ newMap' \in [Node -> Nat]
    BY DEF Reset, LoopDone
  <2>4. /\ 0 \in 0..StaySameStateUpto /\ CrashLimit \in 0..CrashLimit
        /\ MaxByzantine \in 0..MaxByzantine /\ Requests \in 0..Requests
        /\ 0 \in 0..TicketBetweenPartition
    BY ConfigAssumption
  <2> QED
    BY <2>1, <2>2, <2>3, <2>4 DEF Reset, LoopDone, TypeOK
<1>3. MapsBounded'
  BY DEF Reset, MapsBounded
<1>4. Isolation'
  BY <1>1 DEF Reset, Isolation
<1>5. ActiveAreRunning'
  BY DEF Reset, ActiveAreRunning
<1>6. CrashBudget'
  BY <1>1, ConfigAssumption DEF Reset, CrashBudget
<1>7. DeliveredAmongRunning'
  BY DEF Reset, DeliveredAmongRunning
<1> QED
  BY <1>2, <1>3, <1>4, <1>5, <1>6, <1>7 DEF IInv

-----------------------------------------------------------------------------
\* A stop or a start: whoever is active afterwards, the new map keeps the
\* active replicas apart from the inactive ones.
LEMMA RegroupedType ==
  ASSUME IInv, NEW active \in SUBSET Node
  PROVE  /\ parts + 2 \in Nat
         /\ Regrouped(active) \in [Node -> 0..((parts + 2) - 1)]
<1>1. \A n \in Node : partitionMap[n] \in Nat /\ partitionMap[n] < parts
  BY DEF IInv, TypeOK, MapsBounded
<1>2. parts \in Nat
  BY DEF IInv, TypeOK
<1>3. ASSUME NEW n \in Node
      PROVE  (IF n \in active /\ n \in activeNodes THEN partitionMap[n]
              ELSE IF n \in active THEN parts ELSE parts + 1)
             \in 0..((parts + 2) - 1)
  BY <1>1, <1>2
<1> QED
  BY <1>2, <1>3 DEF Regrouped

LEMMA RegroupedApart ==
  ASSUME IInv, NEW active \in SUBSET Node, NEW n \in active, NEW m \in Node \ active
  PROVE  Regrouped(active)[n] # Regrouped(active)[m]
<1>1. Regrouped(active)[m] = parts + 1
  BY DEF Regrouped
<1>2. Regrouped(active)[n] \in {partitionMap[n], parts}
  BY DEF Regrouped
<1>3. partitionMap[n] \in Nat /\ partitionMap[n] < parts /\ parts \in Nat
  BY DEF IInv, TypeOK, MapsBounded
<1> QED
  BY <1>1, <1>2, <1>3

LEMMA StartStopStep ==
  ASSUME IInv, status = "idle",
         NEW active \in SUBSET Node, NEW crashes \in 0..CrashLimit,
         StartStop(active, crashes), running' = active, delivered' = {},
         Cardinality(Node \ active) <= CrashLimit - crashes,
         MaxInactive # 0 => Cardinality(Node \ active) <= MaxInactive
  PROVE  IInv'
<1> DEFINE k == parts + 2
           map == Regrouped(active)
<1>1. k \in Nat /\ map \in [Node -> 0..(k - 1)]
  BY RegroupedType
<1>2. /\ partitionMap' = Renumbered(map, k)
      /\ parts' = Cardinality(Used(map, k))
      /\ activeNodes' = active
      /\ remainingCrashes' = crashes
      /\ canDeliverRequest' \in BOOLEAN
      /\ UNCHANGED <<byzantineNodes, remainingByzantine, pendingRequests,
                     status, newMap, newParts, tick, expired>>
  BY DEF StartStop, loopVars
<1>3. PICK painter \in [Node -> Colors], more \in SUBSET Messages :
        /\ replicaColors' = Painted(active, painter)
        /\ repeatCount' = Repeated(View(Renumbered(map, k),
                                        Cardinality(Used(map, k)),
                                        Painted(active, painter)))
        /\ transit' = transit \cup more
        /\ messages' = transit \cup more
  BY DEF StartStop
<1>4. TypeOK'
  <2>1. replicaColors' \in [Node -> Nat]
    BY <1>3, PaintedType
  <2>2. repeatCount' \in 0..StaySameStateUpto
    BY <1>3, RepeatedType DEF IInv
  <2>3. partitionMap' \in [Node -> Nat] /\ parts' \in Nat
    BY <1>1, <1>2, RenumberedType
  <2>4. transit' \subseteq Messages /\ messages' \subseteq Messages
    BY <1>3 DEF IInv, TypeOK
  <2>5. taken' \subseteq SelfDelivered
    BY DEF StartStop
  <2> QED
    BY <1>2, <2>1, <2>2, <2>3, <2>4, <2>5 DEF IInv, TypeOK
<1>5. MapsBounded'
  <2>1. \A n \in Node : partitionMap'[n] < parts'
    BY <1>1, <1>2, RenumberedBounded
  <2> QED
    BY <1>2, <2>1 DEF MapsBounded
<1>6. Isolation'
  <2>1. ASSUME NEW n \in active, NEW m \in Node \ active
        PROVE  partitionMap'[n] # partitionMap'[m]
    BY <1>1, <1>2, RegroupedApart, RenumberedApart
  <2> QED
    BY <1>2, <2>1 DEF Isolation, Inactive
<1>7. ActiveAreRunning'
  BY <1>2 DEF ActiveAreRunning
<1>8. CrashBudget'
  <2>1. Cardinality(Node \ active) \in Nat
    BY InactiveFinite
  <2>2. Cardinality(Node \ active) <= CrashLimit
    BY <2>1, ConfigAssumption
  <2> QED
    BY <1>2, <2>2 DEF CrashBudget, Inactive
<1>9. DeliveredAmongRunning'
  BY DEF DeliveredAmongRunning
<1> QED
  BY <1>4, <1>5, <1>6, <1>7, <1>8, <1>9 DEF IInv

LEMMA StopStep == IInv /\ Stop => IInv'
<1> SUFFICES ASSUME IInv, Stop PROVE IInv'
  OBVIOUS
<1>1. PICK n \in StopCandidates :
        running' = running \ {n} /\ StartStop(ActiveAfterStop(n), remainingCrashes - 1)
  BY DEF Stop
<1>2. n \in Node /\ status = "idle" /\ delivered' = {} /\ remainingCrashes > 0
  BY DEF Stop, StopAllowed, StopCandidates
<1>3. /\ ActiveAfterStop(n) \in SUBSET Node
      /\ remainingCrashes - 1 \in 0..CrashLimit
      /\ running' = ActiveAfterStop(n)
  BY <1>1, <1>2, ConfigAssumption
  DEF IInv, TypeOK, ActiveAreRunning, ActiveAfterStop
<1>4. /\ Cardinality(Node \ ActiveAfterStop(n)) <= Cardinality(Inactive) + 1
      /\ Cardinality(Node \ ActiveAfterStop(n)) \in Nat
      /\ Cardinality(Inactive) \in Nat
  BY <1>2, <1>3, OneMoreInactive, InactiveFinite
  DEF IInv, TypeOK, Inactive, ActiveAfterStop
<1>5. Cardinality(Node \ ActiveAfterStop(n)) <= CrashLimit - (remainingCrashes - 1)
  BY <1>4, ConfigAssumption DEF IInv, TypeOK, CrashBudget
<1>6. MaxInactive # 0 => Cardinality(Node \ ActiveAfterStop(n)) <= MaxInactive
  BY <1>4, ConfigAssumption DEF Stop, StopAllowed
<1> QED
  BY <1>1, <1>2, <1>3, <1>5, <1>6, StartStopStep

LEMMA StartStep == IInv /\ Start => IInv'
<1> SUFFICES ASSUME IInv, Start PROVE IInv'
  OBVIOUS
<1>1. PICK n \in Inactive :
        running' = running \cup {n} /\ StartStop(activeNodes \cup {n}, remainingCrashes)
  BY DEF Start
<1>2. n \in Node /\ status = "idle" /\ delivered' = {}
  BY DEF Start, Inactive
<1>3. /\ activeNodes \cup {n} \in SUBSET Node
      /\ remainingCrashes \in 0..CrashLimit
      /\ running' = activeNodes \cup {n}
  BY <1>1, <1>2 DEF IInv, TypeOK, ActiveAreRunning
<1>4. /\ Cardinality(Node \ (activeNodes \cup {n})) <= Cardinality(Inactive)
      /\ Cardinality(Node \ (activeNodes \cup {n})) \in Nat
      /\ Cardinality(Inactive) \in Nat
  BY <1>2, <1>3, OneMoreInactive, InactiveFinite DEF IInv, TypeOK, Inactive
<1>5. /\ Cardinality(Node \ (activeNodes \cup {n})) <= CrashLimit - remainingCrashes
      /\ MaxInactive # 0 => Cardinality(Node \ (activeNodes \cup {n})) <= MaxInactive
  BY <1>3, <1>4, ConfigAssumption DEF IInv, CrashBudget
<1> QED
  BY <1>1, <1>2, <1>3, <1>5, StartStopStep

-----------------------------------------------------------------------------
\* The replicas that are stopped are within the limits.
DownWithinLimits(set) ==
  /\ Cardinality(Node \ set) <= CrashLimit
  /\ MaxInactive # 0 => Cardinality(Node \ set) <= MaxInactive

\* The steps that leave the grouping and the running replicas alone, or fail.
LEMMA QuietStep ==
  ASSUME IInv, TypeOK',
         UNCHANGED <<activeNodes, partitionMap, parts, remainingCrashes>>,
         \/ status' # "ticking"
         \/ status' = status /\ UNCHANGED <<newMap, newParts>>,
         status' = "failed" \/ (status # "failed" /\ running' = running)
           \/ (status' = status /\ running' = running),
         running' = running \/ DownWithinLimits(running'),
         delivered' = {} \/ UNCHANGED <<delivered, running>>
  PROVE  IInv'
<1>1. MapsBounded'
  BY DEF IInv, MapsBounded
<1>2. Isolation'
  BY DEF IInv, Isolation, Inactive
<1>3. ActiveAreRunning'
  BY DEF IInv, ActiveAreRunning
<1>4. CrashBudget'
  BY DEF IInv, CrashBudget, DownWithinLimits, Inactive
<1>5. DeliveredAmongRunning'
  BY DEF IInv, DeliveredAmongRunning
<1> QED
  BY <1>1, <1>2, <1>3, <1>4, <1>5 DEF IInv

LEMMA StartStopFailsStep ==
  ASSUME IInv, NEW after \in SUBSET Node, StartStopFails(after), DownWithinLimits(after)
  PROVE  IInv'
<1>1. TypeOK'
  BY DEF IInv, TypeOK, StartStopFails, curVars, loopVars
<1> QED
  BY <1>1, QuietStep DEF StartStopFails, curVars, loopVars

\* The rounds of a partition step deliver only among the active replicas.
LEMMA DeliverableAmongRunning ==
  ASSUME IInv, status = "ticking", NEW m \in Messages, Deliverable(m)
  PROVE  m.to \in running /\ (m.from \in Node => m.from \in running)
<1>1. activeNodes = running /\ activeNodes \subseteq Node
  BY DEF IInv, ActiveAreRunning, TypeOK
<1>2. m.to \in activeNodes
  BY DEF Deliverable
<1>3. ASSUME m.from \in Node, m.from \notin activeNodes
      PROVE  FALSE
  <2>1. newMap[m.from] = newMap[m.to]
    BY <1>1, <1>2, <1>3 DEF Deliverable
  <2>2. newMap[m.to] # newMap[m.from]
    BY <1>2, <1>3 DEF IInv, Isolation, Inactive
  <2> QED
    BY <2>1, <2>2
<1> QED
  BY <1>1, <1>2, <1>3

LEMMA RoundStep == IInv /\ TickRound => IInv'
<1> SUFFICES ASSUME IInv, TickRound PROVE IInv'
  OBVIOUS
<1>1. PICK batch \in Batches, more \in SUBSET Messages :
        /\ delivered' = {m \in batch : Deliverable(m)}
        /\ transit' = (transit \ batch) \cup more
  BY DEF TickRound
<1>2. /\ status = "ticking" /\ tick' = tick + 1 /\ tick < TicketBetweenPartition
      /\ UNCHANGED <<activeNodes, replicaColors, partitionMap, parts, partition,
                     repeatCount, remainingCrashes, byzantineNodes,
                     remainingByzantine, pendingRequests, canDeliverRequest,
                     messages, status, newMap, newParts, expired, running>>
      /\ taken' = {}
  BY DEF TickRound, curVars
<1>3. batch \subseteq Messages
  BY ConfigAssumption DEF Batches, IInv, TypeOK
<1>4. TypeOK'
  <2>1. transit' \subseteq Messages /\ delivered' \subseteq Messages
    BY <1>1, <1>3 DEF IInv, TypeOK
  <2>2. tick' \in 0..TicketBetweenPartition
    BY <1>2, ConfigAssumption DEF IInv, TypeOK
  <2> QED
    BY <1>2, <2>1, <2>2 DEF IInv, TypeOK
<1>5. DeliveredAmongRunning'
  BY <1>1, <1>2, <1>3, DeliverableAmongRunning DEF DeliveredAmongRunning
<1>6. MapsBounded' /\ Isolation' /\ ActiveAreRunning' /\ CrashBudget'
  BY <1>2 DEF IInv, MapsBounded, Isolation, ActiveAreRunning, CrashBudget, Inactive
<1> QED
  BY <1>4, <1>5, <1>6 DEF IInv

LEMMA RoundFailsStep == IInv /\ TickRoundFails => IInv'
<1> SUFFICES ASSUME IInv, TickRoundFails PROVE IInv'
  OBVIOUS
<1>0. PICK batch \in Batches : \E handled \in SUBSET batch :
        /\ delivered' = {m \in handled : Deliverable(m)}
        /\ transit' = transit \ handled
  BY DEF TickRoundFails
<1>1. PICK handled \in SUBSET batch :
        /\ delivered' = {m \in handled : Deliverable(m)}
        /\ transit' = transit \ handled
  BY <1>0
<1>2. /\ status = "ticking" /\ status' = "failed"
      /\ newMap' = [n \in Node |-> 0] /\ newParts' = 1 /\ tick' = 0
      /\ UNCHANGED <<activeNodes, replicaColors, partitionMap, parts, partition,
                     repeatCount, remainingCrashes, byzantineNodes,
                     remainingByzantine, pendingRequests, canDeliverRequest,
                     messages, expired, running, taken>>
  BY DEF TickRoundFails, LoopDone, curVars
<1>3. handled \subseteq Messages
  BY ConfigAssumption DEF Batches, IInv, TypeOK
<1>4. TypeOK'
  <2>1. transit' \subseteq Messages /\ delivered' \subseteq Messages
    BY <1>1, <1>3 DEF IInv, TypeOK
  <2> QED
    BY <1>2, <2>1, ConfigAssumption DEF IInv, TypeOK
<1>5. DeliveredAmongRunning'
  BY <1>1, <1>2, <1>3, DeliverableAmongRunning DEF DeliveredAmongRunning
<1>6. MapsBounded' /\ Isolation' /\ ActiveAreRunning' /\ CrashBudget'
  BY <1>2 DEF IInv, MapsBounded, Isolation, ActiveAreRunning, CrashBudget, Inactive
<1> QED
  BY <1>4, <1>5, <1>6 DEF IInv

\* The partition a step installs: the old one, or one whose last part holds
\* the inactive replicas and nobody else.
LEMMA KeepStep == IInv /\ KeepSamePartition => IInv'
<1> SUFFICES ASSUME IInv, KeepSamePartition PROVE IInv'
  OBVIOUS
<1>1. /\ status = "idle" /\ status' = "ticking" /\ delivered' = {}
      /\ newMap' = partitionMap /\ newParts' = parts /\ tick' = 0
      /\ UNCHANGED <<activeNodes, replicaColors, partitionMap, parts, partition,
                     repeatCount, remainingCrashes, byzantineNodes,
                     remainingByzantine, pendingRequests, canDeliverRequest,
                     messages, expired, running, transit, taken>>
  BY DEF KeepSamePartition, BeginPartition, curVars
<1>2. TypeOK'
  BY <1>1, ConfigAssumption DEF IInv, TypeOK
<1>3. MapsBounded' /\ Isolation'
  BY <1>1 DEF IInv, MapsBounded, Isolation, Inactive
<1>4. ActiveAreRunning' /\ CrashBudget' /\ DeliveredAmongRunning'
  BY <1>1 DEF IInv, ActiveAreRunning, CrashBudget, DeliveredAmongRunning, Inactive
<1> QED
  BY <1>2, <1>3, <1>4 DEF IInv

LEMMA CreateStep == IInv /\ CreatePartition => IInv'
<1> SUFFICES ASSUME IInv, CreatePartition PROVE IInv'
  OBVIOUS
<1>0. PICK k \in 1..NumReplicas : \E g \in Groupings(k) :
        BeginPartition([n \in Node |-> IF n \in activeNodes THEN g[n] ELSE k], k + 1)
  BY DEF CreatePartition
<1>1. PICK g \in Groupings(k) :
        BeginPartition([n \in Node |-> IF n \in activeNodes THEN g[n] ELSE k], k + 1)
  BY <1>0
<1>2. k \in Nat /\ g \in [activeNodes -> 0..(k - 1)]
  BY ConfigAssumption DEF Groupings
<1>3. /\ status = "idle" /\ status' = "ticking" /\ delivered' = {}
      /\ newMap' = [n \in Node |-> IF n \in activeNodes THEN g[n] ELSE k]
      /\ newParts' = k + 1 /\ tick' = 0
      /\ UNCHANGED <<activeNodes, replicaColors, partitionMap, parts, partition,
                     repeatCount, remainingCrashes, byzantineNodes,
                     remainingByzantine, pendingRequests, canDeliverRequest,
                     messages, expired, running, transit, taken>>
  BY <1>1 DEF BeginPartition, curVars
<1>4. \A n \in Node : /\ n \in activeNodes => newMap'[n] \in Nat /\ newMap'[n] < k
                      /\ n \notin activeNodes => newMap'[n] = k
  BY <1>2, <1>3
<1>5. TypeOK'
  <2>1. newMap' \in [Node -> Nat]
    BY <1>2, <1>3
  <2>2. newParts' \in Nat /\ tick' \in 0..TicketBetweenPartition
    BY <1>2, <1>3, ConfigAssumption
  <2> QED
    BY <1>3, <2>1, <2>2 DEF IInv, TypeOK
<1>6. MapsBounded'
  BY <1>2, <1>3, <1>4 DEF IInv, MapsBounded
<1>7. Isolation'
  <2>1. ASSUME NEW n \in activeNodes, NEW m \in Inactive
        PROVE  partitionMap[n] # partitionMap[m] /\ newMap'[n] # newMap'[m]
    <3>1. n \in Node /\ m \in Node /\ m \notin activeNodes
      BY DEF IInv, TypeOK, Inactive
    <3>2. newMap'[n] < k /\ newMap'[n] \in Nat /\ newMap'[m] = k
      BY <1>4, <3>1
    <3>3. partitionMap[n] # partitionMap[m]
      BY DEF IInv, Isolation
    <3> QED
      BY <1>2, <3>2, <3>3
  <2> QED
    BY <1>3, <2>1 DEF Isolation, Inactive
<1>8. ActiveAreRunning' /\ CrashBudget' /\ DeliveredAmongRunning'
  BY <1>3 DEF IInv, ActiveAreRunning, CrashBudget, DeliveredAmongRunning, Inactive
<1> QED
  BY <1>5, <1>6, <1>7, <1>8 DEF IInv

LEMMA EndStep == IInv /\ EndPartition => IInv'
<1> SUFFICES ASSUME IInv, EndPartition PROVE IInv'
  OBVIOUS
<1>1. PICK painter \in [Node -> Colors] :
        /\ replicaColors' = Painted(activeNodes, painter)
        /\ repeatCount' = Repeated(View(newMap, newParts, Painted(activeNodes, painter)))
  BY DEF EndPartition
<1>2. /\ status = "ticking" /\ status' = "idle" /\ delivered' = {}
      /\ partitionMap' = newMap /\ parts' = newParts /\ messages' = transit \cup taken
      /\ newMap' = [n \in Node |-> 0] /\ newParts' = 1 /\ tick' = 0
      /\ canDeliverRequest' \in BOOLEAN
      /\ UNCHANGED <<activeNodes, remainingCrashes, byzantineNodes,
                     remainingByzantine, pendingRequests, expired, running, transit, taken>>
  BY DEF EndPartition, LoopDone, SavedMessages
<1>3. TypeOK'
  <2>1. replicaColors' \in [Node -> Nat] /\ repeatCount' \in 0..StaySameStateUpto
    BY <1>1, PaintedType, RepeatedType DEF IInv
  <2> QED
    BY <1>2, <2>1, ConfigAssumption DEF IInv, TypeOK
<1>4. MapsBounded' /\ Isolation'
  BY <1>2 DEF IInv, MapsBounded, Isolation, Inactive
<1>5. ActiveAreRunning' /\ CrashBudget' /\ DeliveredAmongRunning'
  BY <1>2 DEF IInv, ActiveAreRunning, CrashBudget, DeliveredAmongRunning, Inactive
<1> QED
  BY <1>3, <1>4, <1>5 DEF IInv

-----------------------------------------------------------------------------
LEMMA NextIInv == IInv /\ [Next]_vars => IInv'
<1> SUFFICES ASSUME IInv, [Next]_vars PROVE IInv'
  OBVIOUS
<1>1. CASE Reset
  BY <1>1, ResetStep
<1>2. CASE Expire
  <2>1. TypeOK'
    BY <1>2 DEF IInv, TypeOK, Expire, curVars, loopVars, envVars
  <2> QED
    BY <1>2, <2>1, QuietStep DEF Expire, curVars, loopVars, envVars
<1>3. CASE Stop
  BY <1>3, StopStep
<1>4. CASE StopFails
  <2>1. PICK n \in StopCandidates : StartStopFails(running \ {n})
    BY <1>4 DEF StopFails
  <2>2. running \ {n} \in SUBSET Node /\ n \in Node /\ running = activeNodes
    BY <1>4 DEF StopFails, StopAllowed, StopCandidates, IInv, TypeOK, ActiveAreRunning
  <2>3. /\ Cardinality(Node \ (running \ {n})) <= Cardinality(Inactive) + 1
        /\ Cardinality(Node \ (running \ {n})) \in Nat
        /\ Cardinality(Inactive) \in Nat
    BY <2>2, OneMoreInactive, InactiveFinite DEF IInv, TypeOK, Inactive
  <2>4. DownWithinLimits(running \ {n})
    BY <1>4, <2>3, ConfigAssumption
    DEF StopFails, StopAllowed, IInv, TypeOK, CrashBudget, DownWithinLimits
  <2> QED
    BY <2>1, <2>2, <2>4, StartStopFailsStep
<1>5. CASE Start
  BY <1>5, StartStep
<1>6. CASE StartFails
  <2>1. PICK n \in Inactive : StartStopFails(running \cup {n})
    BY <1>6 DEF StartFails
  <2>2. running \cup {n} \in SUBSET Node /\ running \in SUBSET Node /\ n \in Node
    BY DEF IInv, TypeOK, Inactive
  <2>3. /\ Cardinality(Node \ (running \cup {n})) <= Cardinality(Node \ running)
        /\ Cardinality(Node \ (running \cup {n})) \in Nat
        /\ Cardinality(Node \ running) \in Nat
    BY <2>2, OneMoreInactive, InactiveFinite
  <2>4. DownWithinLimits(running \cup {n})
    BY <2>3, ConfigAssumption DEF IInv, CrashBudget, DownWithinLimits
  <2> QED
    BY <2>1, <2>2, <2>4, StartStopFailsStep
<1>7. CASE SendRequest
  <2>1. PICK painter \in [Node -> Colors], more \in SUBSET Messages :
          /\ replicaColors' = Painted(activeNodes, painter)
          /\ transit' = transit \cup more
    BY <1>7 DEF SendRequest
  <2>2. replicaColors' \in [Node -> Nat] /\ transit' \subseteq Messages
    BY <2>1, PaintedType DEF IInv, TypeOK
  <2>3. pendingRequests' \in 0..Requests
    BY <1>7, ConfigAssumption DEF SendRequest, RequestAllowed, IInv, TypeOK
  <2>4. repeatCount' \in 0..StaySameStateUpto /\ delivered' \subseteq Messages
    BY <1>7, ConfigAssumption DEF SendRequest
  <2>5. TypeOK'
    BY <1>7, <2>2, <2>3, <2>4 DEF SendRequest, IInv, TypeOK, loopVars
  <2> QED
    BY <1>7, <2>5, QuietStep DEF SendRequest, RequestAllowed, loopVars
<1>8. CASE SendRequestFails
  <2>1. TypeOK'
    BY <1>8 DEF SendRequestFails, IInv, TypeOK, curVars, loopVars
  <2> QED
    BY <1>8, <2>1, QuietStep DEF SendRequestFails, curVars, loopVars
<1>9. CASE Byzantine
  <2>1. byzantineNodes' \subseteq Node /\ remainingByzantine' \in 0..MaxByzantine
    BY <1>9, ConfigAssumption DEF Byzantine, IInv, TypeOK
  <2>2. TypeOK'
    BY <1>9, <2>1 DEF Byzantine, IInv, TypeOK, loopVars
  <2> QED
    BY <1>9, <2>2, QuietStep DEF Byzantine, loopVars
<1>10. CASE ByzantineFails
  <2>1. TypeOK'
    BY <1>10 DEF ByzantineFails, IInv, TypeOK, curVars, loopVars
  <2> QED
    BY <1>10, <2>1, QuietStep DEF ByzantineFails, curVars, loopVars
<1>11. CASE KeepSamePartition
  BY <1>11, KeepStep
<1>12. CASE CreatePartition
  BY <1>12, CreateStep
<1>13. CASE TickRound
  BY <1>13, RoundStep
<1>14. CASE TickRoundFails
  BY <1>14, RoundFailsStep
<1>15. CASE EndPartition
  BY <1>15, EndStep
<1>16. CASE PartitionTimesOut
  <2>3. SavedMessages \subseteq Messages
    BY ConfigAssumption DEF SavedMessages, IInv, TypeOK
  <2>1. /\ newMap' \in [Node -> Nat] /\ newParts' \in Nat
        /\ tick' \in 0..TicketBetweenPartition
    BY <1>16, ConfigAssumption DEF PartitionTimesOut, LoopDone
  <2>2. TypeOK'
    BY <1>16, <2>1, <2>3 DEF PartitionTimesOut, IInv, TypeOK, curVars
  <2> QED
    BY <1>16, <2>2, QuietStep DEF PartitionTimesOut, curVars
<1>17. CASE UNCHANGED vars
  <2>1. TypeOK'
    BY <1>17 DEF IInv, TypeOK, vars, curVars, loopVars, envVars
  <2> QED
    BY <1>17, <2>1, QuietStep DEF vars, curVars, loopVars, envVars
<1>18. CASE deliverLoop
  <2>1. TypeOK'
    BY <1>18 DEF deliverLoop, IInv, TypeOK, curVars, loopVars
  <2> QED
    BY <1>18, <2>1, QuietStep DEF deliverLoop, curVars, loopVars
<1> QED
  BY <1>1, <1>2, <1>3, <1>4, <1>5, <1>6, <1>7, <1>8, <1>9, <1>10, <1>11, <1>12,
     <1>13, <1>14, <1>15, <1>16, <1>17, <1>18 DEF Next, Handler

LEMMA Inductive == Spec => []IInv
  BY InitIInv, NextIInv, PTL DEF Spec

-----------------------------------------------------------------------------
\* Every variable has its type; in particular remainingCrashes, repeatCount
\* and the loop counter stay within their configured limits.
THEOREM TypeCorrect == Spec => []TypeOK
<1>1. IInv => TypeOK
  BY DEF IInv
<1> QED
  BY <1>1, Inductive, PTL

\* No stop, start or partition step ever puts an active and an inactive
\* replica into one part, whatever the painter and the policy choose.
THEOREM ActiveIsolated == Spec => []Isolation
<1>1. IInv => Isolation
  BY DEF IInv
<1> QED
  BY <1>1, Inductive, PTL

\* CurPartition.ActiveNodes are the replicas the system runs until a step fails.
THEOREM ActiveNodesRun == Spec => []ActiveAreRunning
<1>1. IInv => ActiveAreRunning
  BY DEF IInv
<1> QED
  BY <1>1, Inductive, PTL

\* The crash budget pays for every inactive replica and MaxInactive holds.
THEOREM CrashesWithinBudget == Spec => []CrashBudget
<1>1. IInv => CrashBudget
  BY DEF IInv
<1> QED
  BY <1>1, Inductive, PTL

\* A partition step never delivers to or from a replica that is stopped.
THEOREM StoppedReplicasSilent == Spec => []DeliveredAmongRunning
<1>1. IInv => DeliveredAmongRunning
  BY DEF IInv
<1> QED
  BY <1>1, Inductive, PTL

-----------------------------------------------------------------------------
\* The messages a partition step schedules first: only a renewed copy reaches
\* the loop, or one whose originals are in transit or delivered by the system.
LEMMA CacheStep == TypeOK /\ CacheInTransit /\ [Next]_vars => CacheInTransit'
<1> SUFFICES ASSUME TypeOK, CacheInTransit, [Next]_vars PROVE CacheInTransit'
  OBVIOUS
<1>1. CASE Reset
  BY <1>1 DEF Reset, CacheInTransit
<1>2. CASE Expire \/ UNCHANGED vars
  BY <1>2 DEF Expire, vars, curVars, loopVars, envVars, CacheInTransit
<1>3. CASE \E active, crashes : status = "idle" /\ StartStop(active, crashes)
  BY <1>3 DEF StartStop, CacheInTransit
<1>4. CASE Stop \/ Start
  BY <1>3, <1>4 DEF Stop, StopAllowed, Start
<1>5. CASE status' = "failed"
  BY <1>5 DEF CacheInTransit
<1>6. CASE SendRequest \/ Byzantine \/ KeepSamePartition \/ CreatePartition
  BY <1>6 DEF SendRequest, RequestAllowed, Byzantine, KeepSamePartition,
              CreatePartition, BeginPartition, loopVars, CacheInTransit
<1>7. CASE TickRound
  BY <1>7 DEF TickRound, TypeOK, CacheInTransit
<1>8. CASE EndPartition
  BY <1>8 DEF EndPartition, SavedMessages, CacheInTransit
<1>9. CASE \/ StopFails \/ StartFails \/ SendRequestFails \/ ByzantineFails
           \/ TickRoundFails \/ PartitionTimesOut
  BY <1>5, <1>9 DEF StopFails, StartFails, StartStopFails, SendRequestFails,
                    ByzantineFails, TickRoundFails, PartitionTimesOut
<1>10. CASE deliverLoop
  BY <1>10 DEF deliverLoop, loopVars, CacheInTransit
<1> QED
  BY <1>1, <1>2, <1>4, <1>6, <1>7, <1>8, <1>9, <1>10 DEF Next, Handler

\* What a partition step schedules first is in transit or was delivered by the
\* system itself; and a system that delivers nothing by itself still has all of it.
THEOREM CachedMessagesInTransit ==
  /\ Spec => []CacheInTransit
  /\ SelfDelivered = {} => (Spec => [](status = "idle" => messages \subseteq transit))
<1>1. Init => CacheInTransit
  BY DEF Init, CacheInTransit
<1>2. Spec => []CacheInTransit
  BY <1>1, CacheStep, TypeCorrect, PTL DEF Spec
<1>3. ASSUME SelfDelivered = {}
      PROVE  Spec => [](status = "idle" => messages \subseteq transit)
  <2>1. TypeOK /\ CacheInTransit => (status = "idle" => messages \subseteq transit)
    BY <1>3 DEF TypeOK, CacheInTransit
  <2> QED
    BY <1>2, <2>1, TypeCorrect, PTL
<1> QED
  BY <1>2, <1>3

-----------------------------------------------------------------------------
(* The order of the parts: sorting them only changes their places. *)

LEMMA Smaller ==
  \E R : IsWellFoundedOn(R, Nat) /\ \A x, y \in Nat : x < y => <<x, y>> \in R
<1> DEFINE R == {ss \in Nat \X Nat : ss[1] < ss[2]}
<1>1. IsWellFoundedOn(R, Nat)
  BY NatLessThanWellFounded DEF OpToRel
<1>2. \A x, y \in Nat : x < y => <<x, y>> \in R
  OBVIOUS
<1> QED
  BY <1>1, <1>2

LEMMA LeastExists ==
  ASSUME NEW S \in SUBSET Nat, S # {} PROVE \E x \in S : \A y \in S : x <= y
<1>1. PICK R : IsWellFoundedOn(R, Nat) /\ \A x, y \in Nat : x < y => <<x, y>> \in R
  BY Smaller
<1>2. S \subseteq Nat
  OBVIOUS
<1>3. \E x \in S : \A y \in S : ~(<<y, x>> \in R)
  <2>1. IsWellFoundedOn(R, Nat) /\ S \subseteq Nat /\ S # {}
    BY <1>1
  <2> QED
    BY ONLY <2>1, WFMin
<1>4. PICK x \in S : \A y \in S : ~(<<y, x>> \in R)
  BY <1>3
<1>5. \A y \in S : ~(y < x)
  BY <1>1, <1>2, <1>4
<1> QED
  BY <1>2, <1>5

LEMMA GreatestExists ==
  ASSUME NEW n \in Nat, NEW S \in SUBSET (1..n), S # {} PROVE \E x \in S : \A y \in S : y <= x
<1> DEFINE T == {n - x : x \in S}
<1>1. T \in SUBSET Nat /\ T # {}
  <2>1. \A x \in S : n - x \in Nat
    OBVIOUS
  <2>2. PICK x \in S : TRUE
    OBVIOUS
  <2>3. n - x \in T
    BY <2>2
  <2> QED
    BY <2>1, <2>3
<1>2. PICK t \in T : \A u \in T : t <= u
  BY <1>1, LeastExists
<1>3. PICK x \in S : t = n - x
  BY <1>2
<1>4. \A y \in S : n - x <= n - y
  BY <1>2, <1>3
<1> QED
  BY <1>4

LEMMA UpTo ==
  ASSUME NEW n \in Nat, NEW S, 0 \in S, \A k \in 1..n : k - 1 \in S => k \in S
  PROVE  \A k \in 0..n : k \in S
<1> DEFINE T == {k \in 0..n : k \notin S}
<1>1. ASSUME T # {} PROVE FALSE
  <2>1. T \in SUBSET Nat
    OBVIOUS
  <2>2. PICK k \in T : \A j \in T : k <= j
    BY <1>1, <2>1, LeastExists
  <2>3. k # 0 /\ k \in 1..n /\ k - 1 \in 0..n /\ ~(k <= k - 1)
    BY <2>2
  <2>4. k - 1 \in S
    BY <2>2, <2>3
  <2> QED
    BY <2>2, <2>3, <2>4
<1> QED
  BY <1>1

\* The elements 1..n in some order.
Listing(b, n) ==
  /\ b \in [1..n -> 1..n]
  /\ \A i, j \in 1..n : b[i] = b[j] => i = j
  /\ \A k \in 1..n : \E i \in 1..n : b[i] = k

\* Element n is put at place k of the first ones.
PutAt(before, n, k) ==
  [j \in 1..n |-> IF j < k THEN before[j] ELSE IF j = k THEN n ELSE before[j - 1]]

LEMMA PutAtLists ==
  ASSUME NEW n \in Nat \ {0}, NEW b, Listing(b, n - 1), NEW k \in 1..n
  PROVE  Listing(PutAt(b, n, k), n)
<1> DEFINE c == PutAt(b, n, k)
<1>1. \A j \in 1..n : c[j] = IF j < k THEN b[j] ELSE IF j = k THEN n ELSE b[j - 1]
  BY DEF PutAt
<1>2. /\ \A j \in 1..n : j < k => j \in 1..(n - 1) /\ c[j] = b[j] /\ b[j] \in 1..(n - 1)
      /\ \A j \in 1..n : k < j => j - 1 \in 1..(n - 1) /\ c[j] = b[j - 1] /\ b[j - 1] \in 1..(n - 1)
      /\ c[k] = n
  <2>1. \A i \in 1..(n - 1) : b[i] \in 1..(n - 1)
    BY DEF Listing
  <2> HIDE DEF c
  <2>2. ASSUME NEW j \in 1..n, j < k PROVE j \in 1..(n - 1) /\ c[j] = b[j]
    BY <1>1, <2>2
  <2>3. ASSUME NEW j \in 1..n, k < j PROVE j - 1 \in 1..(n - 1) /\ c[j] = b[j - 1]
    BY <1>1, <2>3
  <2>4. c[k] = n
    BY <1>1
  <2> QED
    BY <2>1, <2>2, <2>3, <2>4
<1>3. c \in [1..n -> 1..n]
  <2>1. \A j \in 1..n : c[j] \in 1..n
    BY <1>2
  <2> QED
    BY <2>1 DEF PutAt
<1>4. ASSUME NEW i \in 1..n, NEW j \in 1..n, c[i] = c[j] PROVE i = j
  <2> DEFINE old(x) == IF x < k THEN x ELSE x - 1
  <2>1. \A x \in 1..n : x # k => c[x] = b[old(x)] /\ old(x) \in 1..(n - 1) /\ c[x] # n
    BY <1>2
  <2>2. CASE i = k \/ j = k
    BY <1>2, <1>4, <2>1, <2>2
  <2>3. CASE i # k /\ j # k
    <3>1. b[old(i)] = b[old(j)] /\ old(i) \in 1..(n - 1) /\ old(j) \in 1..(n - 1)
      BY <1>4, <2>1, <2>3
    <3>2. old(i) = old(j)
      <4> HIDE DEF old
      <4> QED
        BY <3>1 DEF Listing
    <3> QED
      BY <2>3, <3>2
  <2> QED
    BY <2>2, <2>3
<1>5. ASSUME NEW m \in 1..n PROVE \E i \in 1..n : c[i] = m
  <2>1. CASE m = n
    BY <1>2, <2>1
  <2>2. CASE m # n
    <3>1. m \in 1..(n - 1)
      BY <2>2
    <3>2. PICK i \in 1..(n - 1) : b[i] = m
      BY <3>1 DEF Listing
    <3>3. CASE i < k
      <4>1. i \in 1..n /\ c[i] = b[i]
        BY <1>2, <3>3
      <4> QED
        BY <3>2, <4>1
    <3>4. CASE ~(i < k)
      <4>1. i + 1 \in 1..n /\ k < i + 1 /\ (i + 1) - 1 = i
        BY <3>4
      <4>2. c[i + 1] = b[i]
        BY <1>1, <4>1
      <4> QED
        BY <3>2, <4>1, <4>2
    <3> QED
      BY <3>3, <3>4
  <2> QED
    BY <2>1, <2>2
<1> HIDE DEF c
<1>6. Listing(c, n)
  BY <1>3, <1>4, <1>5 DEF Listing
<1> QED
  BY <1>6 DEF c

\* The insertion sort lists the elements.
LEMMA OrderLists ==
  ASSUME NEW s, Len(s) \in Nat PROVE Listing(Order(s), Len(s))
<1> DEFINE N == Len(s)
           stops(b, n) == {j \in 1..n : j = 1 \/ ~Less(s[n], s[b[j - 1]])}
           place(b, n) == CHOOSE j \in stops(b, n) : \A k \in stops(b, n) : k <= j
           Next1(b, n) == PutAt(b, n, place(b, n))
           Is(f, m) == f = [n \in 0..m |-> IF n = 0 THEN <<>> ELSE Next1(f[n - 1], n)]
           g == CHOOSE f : Is(f, N)
<1>1. Order(s) = g[N]
  BY DEF Order, PutAt
<1>2. ASSUME NEW b, NEW n \in Nat \ {0} PROVE place(b, n) \in 1..n
  <2>1. stops(b, n) \in SUBSET (1..n) /\ 1 \in stops(b, n)
    OBVIOUS
  <2> HIDE DEF stops
  <2>2. \E j \in stops(b, n) : \A k \in stops(b, n) : k <= j
    BY <2>1, GreatestExists
  <2>3. place(b, n) \in stops(b, n)
    BY <2>2
  <2> QED
    BY <2>1, <2>3
<1> HIDE DEF N, place
<1>0. N \in Nat
  BY DEF N
<1> DEFINE E == {m \in 0..N : \E f : Is(f, m)}
<1>3. 0 \in E
  <2> DEFINE f == [n \in 0..0 |-> <<>>]
  <2>1. f = [n \in 0..0 |-> IF n = 0 THEN <<>> ELSE Next1(f[n - 1], n)]
    OBVIOUS
  <2> HIDE DEF f
  <2>2. Is(f, 0)
    BY <2>1
  <2> QED
    BY <1>0, <2>2
<1>4. ASSUME NEW m \in 1..N, m - 1 \in E PROVE m \in E
  <2>1. PICK f : Is(f, m - 1)
    BY <1>4
  <2> DEFINE h == [n \in 0..m |-> IF n = m THEN Next1(f[m - 1], m) ELSE f[n]]
  <2>2. ASSUME NEW n \in 0..m PROVE h[n] = IF n = 0 THEN <<>> ELSE Next1(h[n - 1], n)
    <3>1. CASE n = m
      <4>1. n - 1 \in 0..m /\ n - 1 # m /\ n # 0
        BY <3>1
      <4> HIDE DEF Next1
      <4> QED
        BY <3>1, <4>1
    <3>2. CASE n # m
      <4>1. n \in 0..(m - 1) /\ h[n] = f[n]
        BY <3>2
      <4>2. f[n] = IF n = 0 THEN <<>> ELSE Next1(f[n - 1], n)
        BY <2>1, <4>1
      <4>3. n # 0 => h[n - 1] = f[n - 1]
        BY <4>1
      <4> HIDE DEF Next1, h
      <4> QED
        BY <4>1, <4>2, <4>3
    <3> QED
      BY <3>1, <3>2
  <2>3. h = [n \in 0..m |-> h[n]]
    OBVIOUS
  <2> HIDE DEF h
  <2>4. Is(h, m)
    BY <2>2, <2>3
  <2> QED
    BY <2>4
<1>5. N \in E
  <2>1. \A k \in 0..N : k \in E
    <3> HIDE DEF E
    <3> QED
      BY <1>0, <1>3, <1>4, UpTo
  <2> HIDE DEF E
  <2> QED
    BY <1>0, <2>1
<1>6. Is(g, N)
  BY <1>5
<1> HIDE DEF g, E
<1> DEFINE S == {k \in 0..N : Listing(g[k], k)}
<1>7. 0 \in S
  <2>1. g[0] = <<>>
    BY <1>0, <1>6
  <2>2. <<>> \in [1..0 -> 1..0]
    OBVIOUS
  <2>3. 1..0 = {}
    OBVIOUS
  <2>4. Listing(<<>>, 0)
    BY <2>2, <2>3 DEF Listing
  <2>5. Listing(g[0], 0)
    BY <2>1, <2>4
  <2> HIDE DEF Next1
  <2> QED
    BY <1>0, <2>5
<1>8. ASSUME NEW k \in 1..N, k - 1 \in S PROVE k \in S
  <2>1. g[k] = Next1(g[k - 1], k)
    BY <1>0, <1>6
  <2>2. Listing(g[k - 1], k - 1) /\ k \in Nat \ {0}
    BY <1>8
  <2>3. place(g[k - 1], k) \in 1..k
    BY <1>2, <2>2
  <2> QED
    BY <1>0, <2>1, <2>2, <2>3, PutAtLists
<1>9. \A k \in 0..N : k \in S
  <2> HIDE DEF S
  <2> QED
    BY <1>0, <1>7, <1>8, UpTo
<1> QED
  BY <1>0, <1>1, <1>9 DEF N

\* A part occurs in the sorted partition as often as before.
LEMMA SortPartsKeeps ==
  ASSUME NEW s, Len(s) \in Nat, NEW part
  PROVE  /\ Len(SortParts(s)) = Len(s)
         /\ Occurrences(part, SortParts(s)) = Cardinality({i \in 1..Len(s) : s[i] = part})
<1> DEFINE N == Len(s)
           o == Order(s)
           t == SortParts(s)
           A == {i \in 1..N : s[o[i]] = part}
           B == {i \in 1..N : s[i] = part}
<1>1. Listing(o, N)
  BY OrderLists
<1>2. t = [i \in 1..N |-> s[o[i]]]
  BY DEF SortParts
<1> HIDE DEF o
<1>3. Len(t) = N
  BY <1>2
<1>4. Occurrences(part, t) = Cardinality(A)
  <2>1. \A i \in 1..N : t[i] = s[o[i]]
    BY <1>2
  <2>2. {i \in 1..N : t[i] = part} = A
    BY <2>1
  <2> HIDE DEF t, N
  <2> QED
    BY <1>3, <2>2 DEF Occurrences
<1>5. Cardinality(A) = Cardinality(B)
  <2> DEFINE f == [i \in A |-> o[i]]
  <2>1. f \in [A -> B]
    BY <1>1 DEF Listing
  <2>2. \A i, j \in A : f[i] = f[j] => i = j
    BY <1>1 DEF Listing
  <2>3. \A k \in B : \E i \in A : f[i] = k
    BY <1>1 DEF Listing
  <2>4. IsFiniteSet(A)
    <3>1. IsFiniteSet(1..N)
      BY FS_Interval
    <3> QED
      BY <3>1, FS_Subset
  <2> HIDE DEF f, A, B
  <2>5. f \in Bijection(A, B)
    BY <2>1, <2>2, <2>3, Fun_IsBij
  <2>6. ExistsBijection(A, B)
    BY <2>5 DEF ExistsBijection
  <2> QED
    BY <2>4, <2>6, FS_Bijection
<1> QED
  BY <1>3, <1>4, <1>5

-----------------------------------------------------------------------------
(* The view that is kept is the one of the map and the colours that are kept. *)

ViewInv ==
  /\ partition = View(partitionMap, parts, replicaColors)
  /\ \A n \in Node : replicaColors[n] \in Colors <=> n \in activeNodes

LEMMA SingleView ==
  ASSUME NEW color
  PROVE  View([n \in Node |-> 0], 1, color) = <<SortedColors(Node, color)>>
<1> DEFINE map == [n \in Node |-> 0]
           s == [i \in 1..1 |-> SortedColors(Part(map, i - 1), color)]
           o == Order(s)
<1>1. Part(map, 0) = Node
  BY DEF Part
<1>2. s[1] = SortedColors(Node, color) /\ Len(s) = 1
  <2>1. s[1] = SortedColors(Part(map, 0), color)
    OBVIOUS
  <2> QED
    BY <1>1, <2>1
<1>3. View(map, 1, color) = SortParts(s)
  BY DEF View
<1> HIDE DEF s, map
<1>4. Listing(o, 1)
  <2>1. Len(s) \in Nat
    BY <1>2
  <2>2. Listing(Order(s), Len(s))
    BY <2>1, OrderLists
  <2> QED
    BY <1>2, <2>2
<1>5. o[1] = 1
  BY <1>4 DEF Listing
<1>6. SortParts(s) = [i \in 1..1 |-> s[o[i]]]
  BY <1>2 DEF SortParts
<1> HIDE DEF o
<1>7. SortParts(s) = <<s[1]>>
  BY <1>5, <1>6
<1> QED
  BY <1>2, <1>3, <1>7 DEF map

LEMMA PaintedTells ==
  ASSUME NEW active, NEW painter \in [Node -> Colors]
  PROVE  \A n \in Node : Painted(active, painter)[n] \in Colors <=> n \in active
  BY ConfigAssumption DEF Painted

LEMMA InitViewInv == Init => ViewInv
<1> SUFFICES ASSUME Init PROVE ViewInv
  OBVIOUS
<1>1. partition = View(partitionMap, parts, replicaColors)
  BY SingleView DEF Init
<1>2. \A n \in Node : replicaColors[n] \in Colors /\ n \in activeNodes
  BY DEF Init
<1> QED
  BY <1>1, <1>2 DEF ViewInv

LEMMA StartStopView ==
  ASSUME NEW active, NEW crashes, StartStop(active, crashes) PROVE ViewInv'
<1>1. PICK painter \in [Node -> Colors] :
        /\ replicaColors' = Painted(active, painter)
        /\ partition' = View(partitionMap', parts', Painted(active, painter))
  BY DEF StartStop
<1>2. activeNodes' = active
  BY DEF StartStop
<1> QED
  BY <1>1, <1>2, PaintedTells DEF ViewInv

LEMMA NextViewInv == ViewInv /\ [Next]_vars => ViewInv'
<1> SUFFICES ASSUME ViewInv, [Next]_vars PROVE ViewInv'
  OBVIOUS
<1>1. CASE Reset
  <2>1. partition' = View(partitionMap', parts', replicaColors')
    BY <1>1, SingleView DEF Reset
  <2>2. \A n \in Node : replicaColors'[n] \in Colors /\ n \in activeNodes'
    BY <1>1 DEF Reset
  <2> QED
    BY <2>1, <2>2 DEF ViewInv
<1>2. CASE Stop \/ Start
  BY <1>2, StartStopView DEF Stop, Start
<1>3. CASE SendRequest
  <2>1. PICK painter \in [Node -> Colors] :
          /\ replicaColors' = Painted(activeNodes, painter)
          /\ partition' = View(partitionMap, parts, Painted(activeNodes, painter))
    BY <1>3 DEF SendRequest
  <2>2. UNCHANGED <<activeNodes, partitionMap, parts>>
    BY <1>3 DEF SendRequest
  <2> QED
    BY <2>1, <2>2, PaintedTells DEF ViewInv
<1>4. CASE EndPartition
  <2>1. PICK painter \in [Node -> Colors] :
          /\ replicaColors' = Painted(activeNodes, painter)
          /\ partition' = View(newMap, newParts, Painted(activeNodes, painter))
    BY <1>4 DEF EndPartition
  <2>2. partitionMap' = newMap /\ parts' = newParts /\ activeNodes' = activeNodes
    BY <1>4 DEF EndPartition
  <2> QED
    BY <2>1, <2>2, PaintedTells DEF ViewInv
<1>5. CASE UNCHANGED <<partition, partitionMap, parts, replicaColors, activeNodes>>
  BY <1>5 DEF ViewInv
<1>6. CASE \/ Expire \/ deliverLoop \/ StopFails \/ StartFails \/ SendRequestFails
           \/ Byzantine \/ ByzantineFails \/ KeepSamePartition \/ CreatePartition
           \/ TickRound \/ TickRoundFails \/ PartitionTimesOut \/ UNCHANGED vars
  <2>1. UNCHANGED <<partition, partitionMap, parts, replicaColors, activeNodes>>
    BY <1>6 DEF Expire, deliverLoop, StopFails, StartFails, StartStopFails, SendRequestFails,
                Byzantine, ByzantineFails, KeepSamePartition, CreatePartition,
                BeginPartition, TickRound, TickRoundFails, PartitionTimesOut, vars, curVars
  <2> QED
    BY <1>5, <2>1
<1> QED
  BY <1>1, <1>2, <1>3, <1>4, <1>6 DEF Next, Handler

\* Every part of the map occurs in the view as often as in the map.
LEMMA ViewCounts ==
  ASSUME NEW map, NEW k \in Nat, NEW color, NEW part
  PROVE  /\ Len(View(map, k, color)) = k
         /\ Occurrences(part, View(map, k, color)) =
              Cardinality({j \in 0..(k - 1) : SortedColors(Part(map, j), color) = part})
<1> DEFINE s == [i \in 1..k |-> SortedColors(Part(map, i - 1), color)]
           A == {i \in 1..k : s[i] = part}
           B == {j \in 0..(k - 1) : SortedColors(Part(map, j), color) = part}
           f == [i \in A |-> i - 1]
<1>1. Len(s) = k
  OBVIOUS
<1>2. View(map, k, color) = SortParts(s)
  BY DEF View
<1>3. /\ Len(SortParts(s)) = Len(s)
      /\ Occurrences(part, SortParts(s)) = Cardinality({i \in 1..Len(s) : s[i] = part})
  <2> HIDE DEF s
  <2> QED
    BY <1>1, SortPartsKeeps
<1>4. \A i \in 1..k : s[i] = SortedColors(Part(map, i - 1), color)
  OBVIOUS
<1> HIDE DEF s
<1>5. f \in [A -> B]
  <2>1. \A i \in A : i - 1 \in B
    BY <1>4
  <2> QED
    BY <2>1
<1>6. \A i, j \in A : f[i] = f[j] => i = j
  OBVIOUS
<1>7. \A j \in B : \E i \in A : f[i] = j
  <2>1. ASSUME NEW j \in B PROVE j + 1 \in A /\ f[j + 1] = j
    <3>1. j + 1 \in 1..k /\ (j + 1) - 1 = j
      OBVIOUS
    <3>2. j + 1 \in A
      BY <1>4, <3>1
    <3> QED
      BY <3>1, <3>2
  <2> QED
    BY <2>1
<1>8. IsFiniteSet(A)
  <2>1. IsFiniteSet(1..k)
    BY FS_Interval
  <2> QED
    BY <2>1, FS_Subset
<1>9. A = {i \in 1..Len(s) : s[i] = part}
  BY <1>1
<1> HIDE DEF f, A, B
<1>10. ExistsBijection(A, B)
  <2>1. f \in Bijection(A, B)
    BY <1>5, <1>6, <1>7, Fun_IsBij
  <2> QED
    BY <2>1 DEF ExistsBijection
<1>11. Cardinality(A) = Cardinality(B)
  BY <1>8, <1>10, FS_Bijection
<1> QED
  BY <1>1, <1>2, <1>3, <1>9, <1>11 DEF B

\* The sorted partition that the agent hashes has the parts of the map that the
\* handlers work with, each as often, although the order it is sorted by is
\* none; and the colours tell the active replicas from the stopped ones.
THEOREM ViewIsOfTheMap == Spec => []ViewMatchesMap
<1>1. ASSUME IInv, ViewInv PROVE ViewMatchesMap
  <2>1. parts \in Nat /\ partition = View(partitionMap, parts, replicaColors)
    BY <1>1 DEF IInv, TypeOK, ViewInv
  <2>2. Len(partition) = parts
    BY <2>1, ViewCounts
  <2>3. \A n \in Node : partitionMap[n] < parts
    BY <1>1 DEF IInv, MapsBounded
  <2>4. ASSUME NEW i \in 0..(parts - 1)
        PROVE  LET part == SortedColors(Part(partitionMap, i), replicaColors)
               IN  Occurrences(part, partition) =
                     Cardinality({j \in 0..(parts - 1) :
                        SortedColors(Part(partitionMap, j), replicaColors) = part})
    BY <2>1, ViewCounts
  <2> QED
    BY <1>1, <2>2, <2>3, <2>4 DEF ViewMatchesMap, ViewInv
<1>2. Spec => []ViewInv
  BY InitViewInv, NextViewInv, PTL DEF Spec
<1> QED
  BY <1>1, <1>2, Inductive, PTL

=============================================================================
