-------------------------- MODULE GuidedAgent_proofs --------------------------
(***************************************************************************)
(* Theorems about GuidedAgent: what the policy remembers, for every        *)
(* machine, list of monitors, horizon and number of episodes.              *)
(***************************************************************************)
EXTENDS GuidedAgent, Integers, SequenceTheorems, WellFoundedInduction, TLAPS

-----------------------------------------------------------------------------
(* The highest state of the machine whose predicate holds *)

LEMMA Smaller ==
  \E R : IsWellFoundedOn(R, Nat) /\ \A x, y \in Nat : x < y => <<x, y>> \in R
<1> DEFINE R == {ss \in Nat \X Nat : ss[1] < ss[2]}
<1>1. IsWellFoundedOn(R, Nat)
  BY NatLessThanWellFounded DEF OpToRel
<1>2. \A x, y \in Nat : x < y => <<x, y>> \in R
  OBVIOUS
<1> QED
  BY <1>1, <1>2

LEMMA LeastExists ==
  ASSUME NEW S \in SUBSET Nat, S # {} PROVE \E x \in S : \A y \in S : x <= y
<1>1. PICK R : IsWellFoundedOn(R, Nat) /\ \A x, y \in Nat : x < y => <<x, y>> \in R
  BY Smaller
<1>2. S \subseteq Nat
  OBVIOUS
<1>3. \E x \in S : \A y \in S : ~(<<y, x>> \in R)
  <2>1. IsWellFoundedOn(R, Nat) /\ S \subseteq Nat /\ S # {}
    BY <1>1
  <2> QED
    BY ONLY <2>1, WFMin
<1>4. PICK x \in S : \A y \in S : ~(<<y, x>> \in R)
  BY <1>3
<1>5. \A y \in S : ~(y < x)
  BY <1>1, <1>2, <1>4
<1> QED
  BY <1>2, <1>5

LEMMA MachineLength == Last \in Nat /\ Last >= 2 /\ Position = 1..Last
  BY MachineAssumption, LenProperties DEF Last, Position

LEMMA GreatestExists ==
  ASSUME NEW S \in SUBSET Position, S # {} PROVE \E x \in S : \A y \in S : x >= y
<1> DEFINE T == {Last - x : x \in S}
<1>1. Last \in Nat /\ \A x \in S : x \in Nat /\ x <= Last
  BY MachineLength
<1>2. T \in SUBSET Nat /\ T # {}
  BY <1>1
<1>3. PICK t \in T : \A u \in T : t <= u
  BY <1>2, LeastExists
<1>4. PICK x \in S : t = Last - x
  OBVIOUS
<1>5. ASSUME NEW y \in S PROVE x >= y
  <2>1. t <= Last - y
    BY <1>3
  <2> QED
    BY <1>1, <1>4, <2>1
<1> QED
  BY <1>5

LEMMA HighestHolds ==
  ASSUME NEW s
  PROVE  /\ Highest(s) \in Position /\ Holds(Highest(s), s)
         /\ Highest(s) = Last <=> Holds(Last, s)
<1> DEFINE S == {i \in Position : Holds(i, s)}
<1>0. Last \in Nat /\ Last >= 2 /\ Position = 1..Last
  BY MachineLength
<1>1. 1 \in S /\ S \in SUBSET Position
  BY <1>0 DEF Holds
<1>2. Highest(s) \in S /\ \A y \in S : Highest(s) >= y
  <2>1. \E x \in S : \A y \in S : x >= y
    BY <1>1, GreatestExists
  <2> HIDE DEF S
  <2>2. Max(S) \in S /\ \A y \in S : Max(S) >= y
    BY <2>1 DEF Max
  <2> QED
    BY <2>2 DEF Highest, S
<1>3. Holds(Last, s) => Highest(s) = Last
  BY <1>0, <1>2
<1> QED
  BY <1>2, <1>3

-----------------------------------------------------------------------------
(* The invariant *)

StepRecord == [state : EnvState, next : EnvState]

Types ==
  /\ oneTime \in BOOLEAN /\ pos \in Position /\ reached \in BOOLEAN
  /\ DOMAIN segments \subseteq Position
  /\ \A p \in DOMAIN segments :
       segments[p] \subseteq [at : 1..Len(since), reward : BOOLEAN, out : BOOLEAN]
  /\ since \in Seq(StepRecord) /\ trace \in Seq(StepRecord)
  /\ currentProp \in 0..Len(Monitors)
  /\ fulfilled \in BOOLEAN /\ tables \in BOOLEAN
  /\ policy \in {"machine", "property"}
  /\ pc \in {"between", "acting", "crashed"}
  /\ episode \in 0..MaxEpisodes /\ step \in 0..Horizon
  /\ state \in EnvState
  /\ Len(trace) = step

\* Between episodes nothing is left of one; in an episode the state is that of
\* its last step.
Episode ==
  /\ pc = "between" => step = 0
  /\ step > 0 => trace[step].next = state

\* A machine that is not one-time never stays in Final; a one-time machine does
\* after a step of those it will learn from.
Reached ==
  /\ ~oneTime => ~reached
  /\ oneTime => (reached <=> \E i \in DOMAIN since : Holds(Last, since[i].next))

\* Where the machine is within an episode.
Place ==
  policy = "machine" /\ pc = "acting" /\ step > 0 =>
    /\ pos = IF reached THEN Last ELSE Highest(state)
    /\ oneTime => (reached <=> pos = Last)

\* Of an episode that follows a completed one the trace tells the segments.
Learning ==
  policy = "machine" /\ clean =>
    /\ pc = "between" => DOMAIN segments = {}
    /\ step = 0 => ~reached
    /\ reached => \E j \in DOMAIN trace : Highest(trace[j].next) = Last
    /\ pc = "acting" => /\ DOMAIN segments \subseteq Visited(trace)
                        /\ ~oneTime => DOMAIN segments = Visited(trace)

\* Without a machine there is nothing that it remembers.
Idle == policy = "property" => DOMAIN segments = {} /\ ~reached /\ since = <<>>

IInv == Types /\ Episode /\ Reached /\ Place /\ Learning /\ Idle

-----------------------------------------------------------------------------
(* Every step *)

LEMMA Nothing ==
  /\ <<>> \in Seq(StepRecord) /\ Len(<<>>) = 0 /\ DOMAIN <<>> = {} /\ {} \in EnvState
  /\ Len(Monitors) \in Nat /\ 0 \in 0..Len(Monitors) /\ 1 \in Position
  /\ Visited(<<>>) = {}
<1>1. Len(Monitors) \in Nat
  BY MonitorAssumption, LenProperties
<1> QED
  BY <1>1, MachineLength DEF EnvState, Visited

LEMMA InitIInv == Init => IInv
<1> SUFFICES ASSUME Init PROVE IInv
  OBVIOUS
<1> USE Nothing, AgentAssumption DEF Init, MachineInit, GuidedInit
<1>1. Types
  <2>1. 1 \in Position /\ 0 \in 0..Len(Monitors) /\ 0 \in 0..Horizon /\ 0 \in 0..MaxEpisodes
    OBVIOUS
  <2>2. DOMAIN segments = {} /\ since \in Seq(StepRecord) /\ trace \in Seq(StepRecord)
        /\ Len(trace) = 0 /\ state \in EnvState
    OBVIOUS
  <2>3. oneTime \in BOOLEAN
    OBVIOUS
  <2> QED
    BY <2>1, <2>2, <2>3 DEF Types
<1>2. Episode /\ Reached /\ Place
  BY DEF Episode, Reached, Place
<1>3. Learning
  BY DEF Learning
<1>4. Idle
  BY DEF Idle
<1> QED
  BY <1>1, <1>2, <1>3, <1>4 DEF IInv

LEMMA StutterKeeps == ASSUME IInv, UNCHANGED vars PROVE IInv'
  BY DEF IInv, Types, Episode, Reached, Place, Learning, Idle, Visited, vars, machineVars, guidedVars,
         agentVars

LEMMA BeginKeeps == ASSUME IInv, Begin PROVE IInv'
<1> USE DEF Begin, machineVars, guidedVars
<1>1. Types'
  BY AgentAssumption DEF IInv, Types
<1>2. step = 0 /\ trace = <<>>
  BY EmptySeq DEF IInv, Types, Episode
<1>3. Episode' /\ Reached' /\ Place'
  BY <1>2, AgentAssumption DEF IInv, Episode, Reached, Place
<1>4. Learning'
  BY <1>2, Nothing DEF IInv, Learning
<1>5. Idle'
  BY DEF IInv, Idle
<1> QED
  BY <1>1, <1>3, <1>4, <1>5 DEF IInv

\* What an action that leaves the machine's history alone keeps.
LEMMA TimeOutKeeps == ASSUME IInv, TimeOut PROVE IInv'
<1> USE DEF TimeOut, Forget, machineVars, guidedVars
<1>1. pos' \in Position
  <2>1. Choosing(step, state) \in Position
    BY HighestHolds DEF IInv, Types, Choosing
  <2> QED
    BY <2>1 DEF IInv, Types
<1>2. UNCHANGED <<oneTime, reached, segments, since, policy>>
  OBVIOUS
<1>3. Types'
  <2>1. trace' \in Seq(StepRecord) /\ Len(trace') = step' /\ step' \in 0..Horizon
        /\ state' \in EnvState
    BY Nothing, AgentAssumption
  <2>2. UNCHANGED <<currentProp, fulfilled, tables, episode>> /\ pc' = "between"
    OBVIOUS
  <2> QED
    BY <1>1, <1>2, <2>1, <2>2 DEF IInv, Types
<1>4. Episode' /\ Reached' /\ Place' /\ Learning' /\ Idle'
  BY <1>2 DEF IInv, Types, Episode, Reached, Place, Learning, Idle
<1> QED
  BY <1>3, <1>4 DEF IInv

LEMMA RestartFields ==
  ASSUME MachineRestart
  PROVE  pos' = 1 /\ ~reached' /\ segments' = <<>> /\ oneTime' = oneTime
  BY DEF MachineRestart, Unreached, NoSegments

LEMMA FollowingNext ==
  ASSUME IInv, GuidedRestart
  PROVE  currentProp' \in 0..Len(Monitors) /\ fulfilled' = FALSE /\ tables' = tables
<1>1. currentProp \in 0..Len(Monitors) /\ Len(Monitors) \in Nat
  BY Nothing DEF IInv, Types
<1> QED
  BY <1>1 DEF GuidedRestart

LEMMA EndKeeps == ASSUME IInv, End PROVE IInv'
<1> USE DEF End, Forget, machineVars, guidedVars
<1>1. CASE policy = "machine"
  <2>1. pos' = 1 /\ ~reached' /\ segments' = <<>> /\ oneTime' = oneTime
    BY <1>1, RestartFields
  <2>2. DOMAIN segments' = {} /\ DOMAIN since' = {}
    BY <2>1, Nothing
  <2>3. Types'
    <3>1. reached' \in BOOLEAN
      BY <1>1, RestartFields DEF MachineRestart, Unreached
    <3>2. since' \in Seq(StepRecord) /\ trace' \in Seq(StepRecord) /\ Len(trace') = step'
          /\ state' \in EnvState /\ step' \in 0..Horizon /\ 1 \in Position
      BY Nothing, AgentAssumption
    <3>3. UNCHANGED <<currentProp, fulfilled, tables, policy, episode, oneTime>>
          /\ pc' = "between" /\ pos' = 1
      BY <1>1, <2>1
    <3> QED
      BY <2>2, <3>1, <3>2, <3>3 DEF IInv, Types
  <2>4. Episode' /\ Reached' /\ Place' /\ Learning' /\ Idle'
    BY <2>1, <2>2 DEF IInv, Types, Episode, Reached, Place, Learning, Idle
  <2> QED
    BY <2>3, <2>4 DEF IInv
<1>2. CASE policy = "property"
  <2>1. UNCHANGED <<oneTime, pos, reached, segments>> /\ GuidedRestart
    BY <1>2
  <2>2. currentProp' \in 0..Len(Monitors) /\ fulfilled' = FALSE /\ tables' = tables
    BY <2>1, FollowingNext
  <2>3. since' \in Seq(StepRecord) /\ trace' \in Seq(StepRecord) /\ Len(trace') = step'
        /\ state' \in EnvState /\ step' \in 0..Horizon
    BY Nothing, AgentAssumption
  <2>4. DOMAIN segments = {} /\ ~reached /\ DOMAIN since' = {}
    BY <1>2, Nothing DEF IInv, Idle
  <2>5. UNCHANGED <<policy, episode>> /\ pc' = "between"
    OBVIOUS
  <2>6. Types'
    BY <2>1, <2>2, <2>3, <2>4, <2>5 DEF IInv, Types
  <2>7. Episode' /\ Reached' /\ Place' /\ Learning' /\ Idle'
    BY <1>2, <2>1, <2>4, <2>5 DEF Episode, Reached, Place, Learning, Idle
  <2> QED
    BY <2>6, <2>7 DEF IInv
<1> QED
  BY <1>1, <1>2 DEF IInv, Types

LEMMA CrashKeeps == ASSUME IInv, Crash PROVE IInv'
<1> USE DEF Crash, machineVars, guidedVars
<1>1. Types'
  BY DEF IInv, Types
<1>2. Episode' /\ Reached' /\ Place' /\ Learning' /\ Idle'
  BY DEF IInv, Episode, Reached, Place, Learning, Idle
<1> QED
  BY <1>1, <1>2 DEF IInv

LEMMA ResetKeeps == ASSUME IInv, Reset PROVE IInv'
<1> USE DEF Reset, machineVars, guidedVars
<1>0. 0 \in 0..MaxEpisodes
  BY AgentAssumption
<1>1. CASE policy = "machine"
  <2>1. pos' = 1 /\ reached' = FALSE /\ segments' = <<>> /\ oneTime' = oneTime
    BY <1>1 DEF MachineRestart, Unreached, NoSegments
  <2>2. DOMAIN segments' = {} /\ DOMAIN since' = {} /\ since' \in Seq(StepRecord)
        /\ 1 \in Position
    BY <1>1, <2>1, Nothing
  <2>3. UNCHANGED <<currentProp, fulfilled, tables, policy, pc, step, state, trace>>
    BY <1>1
  <2>4. Types'
    BY <1>0, <2>1, <2>2, <2>3 DEF IInv, Types
  <2>5. Episode' /\ Reached' /\ Place' /\ Learning' /\ Idle'
    BY <1>1, <2>1, <2>2, <2>3 DEF IInv, Types, Episode, Reached, Place, Learning, Idle
  <2> QED
    BY <2>4, <2>5 DEF IInv
<1>2. CASE policy = "property"
  <2>1. UNCHANGED <<oneTime, pos, reached, segments, since, policy, pc, step, state, trace>>
    BY <1>2
  <2>2. UNCHANGED <<currentProp, fulfilled>> /\ tables' = FALSE
    BY <1>2 DEF GuidedReset
  <2>3. Types'
    BY <1>0, <2>1, <2>2 DEF IInv, Types
  <2>4. Episode' /\ Reached' /\ Place' /\ Learning' /\ Idle'
    BY <1>2, <2>1 DEF IInv, Episode, Reached, Place, Learning, Idle
  <2> QED
    BY <2>3, <2>4 DEF IInv
<1> QED
  BY <1>1, <1>2 DEF IInv, Types

-----------------------------------------------------------------------------
(* A step of an episode *)

Taken(ns) == [state |-> state, next |-> ns]

LEMMA Appended ==
  ASSUME NEW s \in Seq(StepRecord), NEW x \in StepRecord
  PROVE  /\ Append(s, x) \in Seq(StepRecord) /\ Len(s) \in Nat
         /\ Len(Append(s, x)) = Len(s) + 1
         /\ DOMAIN s = 1..Len(s) /\ DOMAIN Append(s, x) = 1..(Len(s) + 1)
         /\ \A i \in 1..Len(s) : Append(s, x)[i] = s[i]
         /\ Append(s, x)[Len(s) + 1] = x
  BY AppendProperties, LenProperties

\* The analysis finds one more place, where the step was taken.
LEMMA VisitedGrows ==
  ASSUME NEW s \in Seq(StepRecord), NEW x \in StepRecord
  PROVE  Visited(Append(s, x)) =
           Visited(s) \cup {IF Len(s) = 0 THEN Highest(x.state) ELSE Highest(s[Len(s)].next)}
<1> DEFINE t == Append(s, x)
           Place1(r, i) == IF i = 1 THEN Highest(r[1].state) ELSE Highest(r[i - 1].next)
<1>1. /\ Len(s) \in Nat /\ DOMAIN s = 1..Len(s) /\ DOMAIN t = 1..(Len(s) + 1)
      /\ \A i \in 1..Len(s) : t[i] = s[i]
      /\ t[Len(s) + 1] = x
  BY Appended
<1> HIDE DEF t
<1>2. \A i \in DOMAIN s : Place1(t, i) = Place1(s, i)
  <2>1. ASSUME NEW i \in DOMAIN s PROVE Place1(t, i) = Place1(s, i)
    <3>1. CASE i = 1
      BY <1>1, <3>1
    <3>2. CASE i # 1
      <4>1. i - 1 \in 1..Len(s)
        BY <1>1, <3>2
      <4> QED
        BY <1>1, <3>2, <4>1
    <3> QED
      BY <3>1, <3>2
  <2> QED
    BY <2>1
<1>3. Place1(t, Len(s) + 1) = IF Len(s) = 0 THEN Highest(x.state) ELSE Highest(s[Len(s)].next)
  <2>1. CASE Len(s) = 0
    BY <1>1, <2>1
  <2>2. CASE Len(s) # 0
    <3>1. Len(s) \in 1..Len(s) /\ Len(s) + 1 # 1 /\ Len(s) + 1 - 1 = Len(s)
      BY <1>1, <2>2
    <3> QED
      BY <1>1, <2>2, <3>1
  <2> QED
    BY <2>1, <2>2
<1>4. Visited(t) = {Place1(t, i) : i \in DOMAIN t} /\ Visited(s) = {Place1(s, i) : i \in DOMAIN s}
  BY DEF Visited
<1>5. DOMAIN t = DOMAIN s \cup {Len(s) + 1}
  BY <1>1
<1> HIDE DEF Place1
<1> QED
  BY <1>2, <1>3, <1>4, <1>5 DEF t

LEMMA Entries ==
  ASSUME NEW at \in Nat, at >= 1, NEW p \in Position, NEW i \in Position, reached \in BOOLEAN
  PROVE  Entry(at, p, i) \in [at : 1..at, reward : BOOLEAN, out : BOOLEAN]
  BY MachineLength DEF Entry

\* Update of the machine.
LEMMA MachineStep ==
  ASSUME IInv, policy = "machine", pc = "acting", NEW ns \in EnvState, Update(ns)
  PROVE  LET p == Choosing(step, state)
             i == NewPosition(ns)
         IN  /\ p \in Position /\ i \in Position
             /\ trace' = Append(trace, Taken(ns)) /\ since' = Append(since, Taken(ns))
             /\ DOMAIN segments' = DOMAIN segments \cup {p}
             /\ \A q \in DOMAIN segments' :
                  segments'[q] \subseteq [at : 1..Len(since'), reward : BOOLEAN, out : BOOLEAN]
             /\ pos' = i /\ reached' = NowReached(i)
             /\ UNCHANGED <<oneTime, guidedVars>>
<1> DEFINE p == Choosing(step, state)
           i == NewPosition(ns)
           n == Len(since')
           new(q) == (IF q \in DOMAIN segments THEN segments[q] ELSE {})
                     \union (IF q = p THEN {Entry(n, p, i)} ELSE {})
           R(k) == [at : 1..k, reward : BOOLEAN, out : BOOLEAN]
<1>1. p \in Position /\ i \in Position
  <2>1. pos \in Position /\ Highest(state) \in Position /\ Highest(ns) \in Position /\ Last \in Position
    BY HighestHolds, MachineLength DEF IInv, Types
  <2> QED
    BY <2>1 DEF Choosing, NewPosition
<1>2. /\ trace' = Append(trace, Taken(ns)) /\ since' = Append(since, Taken(ns))
      /\ MachineUpdate(n, p, ns) /\ UNCHANGED guidedVars
  BY DEF Update, Taken
<1>3. /\ segments' = [q \in DOMAIN segments \union {p} |-> new(q)]
      /\ pos' = i /\ reached' = NowReached(i) /\ UNCHANGED oneTime
  BY <1>2 DEF MachineUpdate
<1>4. Len(since) \in Nat /\ n = Len(since) + 1
  BY <1>2, Appended DEF IInv, Types, Taken, StepRecord
<1> HIDE DEF p, i, n
<1>5. ASSUME NEW q \in DOMAIN segments' PROVE segments'[q] \subseteq R(n)
  <2>1. Entry(n, p, i) \in R(n)
    BY <1>1, <1>4, Entries DEF IInv, Types
  <2>2. q \in DOMAIN segments => segments[q] \subseteq R(Len(since))
    BY DEF IInv, Types
  <2>3. R(Len(since)) \subseteq R(n)
    BY <1>4
  <2> HIDE DEF R
  <2>4. new(q) \subseteq R(n)
    BY <2>1, <2>2, <2>3
  <2> QED
    BY <1>3, <2>4
<1>6. DOMAIN segments' = DOMAIN segments \cup {p}
  BY <1>3
<1> QED
  BY <1>1, <1>2, <1>3, <1>5, <1>6 DEF p, i, n

LEMMA NextVisited ==
  ASSUME NEW s \in Seq(StepRecord), NEW x \in StepRecord, NEW j \in DOMAIN s
  PROVE  Highest(s[j].next) \in Visited(Append(s, x))
<1> DEFINE t == Append(s, x)
<1>1. Len(s) \in Nat /\ j \in 1..Len(s) /\ DOMAIN t = 1..(Len(s) + 1) /\ t[j] = s[j]
  BY Appended
<1>2. j + 1 \in DOMAIN t /\ j + 1 # 1 /\ (j + 1) - 1 = j
  BY <1>1
<1>3. Highest(t[j].next) \in Visited(t)
  BY <1>2 DEF Visited
<1> QED
  BY <1>1, <1>3

LEMMA MachineStepKeeps ==
  ASSUME IInv, policy = "machine", Step PROVE IInv'
<1>1. PICK ns \in EnvState : Update(ns) /\ state' = ns
  BY DEF Step
<1>2. /\ pc = "acting" /\ pc' = "acting" /\ step < Horizon /\ step' = step + 1
      /\ UNCHANGED <<policy, episode, clean>>
  BY DEF Step
<1> DEFINE p == Choosing(step, state)
           i == NewPosition(ns)
           x == Taken(ns)
<1>3. /\ p \in Position /\ i \in Position
      /\ trace' = Append(trace, x) /\ since' = Append(since, x)
      /\ DOMAIN segments' = DOMAIN segments \cup {p}
      /\ \A q \in DOMAIN segments' :
           segments'[q] \subseteq [at : 1..Len(since'), reward : BOOLEAN, out : BOOLEAN]
      /\ pos' = i /\ reached' = NowReached(i)
      /\ UNCHANGED <<oneTime, currentProp, fulfilled, current_trace, tables>>
  BY <1>1, <1>2, MachineStep DEF guidedVars
<1>4. x \in StepRecord /\ x.next = ns /\ x.state = state
  BY DEF Taken, StepRecord, IInv, Types
<1>5. /\ step \in Nat /\ Len(trace) = step /\ trace' \in Seq(StepRecord) /\ Len(trace') = step + 1
      /\ DOMAIN trace = 1..step /\ DOMAIN trace' = 1..(step + 1)
      /\ \A j \in 1..step : trace'[j] = trace[j]
      /\ trace'[step + 1] = x
  BY <1>3, <1>4, Appended, AgentAssumption DEF IInv, Types
<1>6. /\ Len(since) \in Nat /\ since' \in Seq(StepRecord)
      /\ DOMAIN since = 1..Len(since) /\ DOMAIN since' = 1..(Len(since) + 1)
      /\ \A j \in 1..Len(since) : since'[j] = since[j]
      /\ since'[Len(since) + 1] = x
  BY <1>3, <1>4, Appended DEF IInv, Types
<1>7. i = (IF reached THEN Last ELSE Highest(ns)) /\ (Highest(ns) = Last <=> Holds(Last, ns))
  BY HighestHolds DEF NewPosition
<1>8. reached \in BOOLEAN /\ oneTime \in BOOLEAN /\ (reached' <=> (reached \/ (oneTime /\ i = Last)))
  BY <1>3 DEF IInv, Types, NowReached
<1>9. reached' \in BOOLEAN
  BY <1>3, <1>8 DEF NowReached
<1>10. p = IF step = 0 THEN Highest(state) ELSE pos
  BY DEF Choosing
<1> HIDE DEF p, i, x
<1>11. Types'
  <2>1. step' \in 0..Horizon /\ Len(trace') = step'
    BY <1>2, <1>5, AgentAssumption
  <2>2. DOMAIN segments' \subseteq Position
    BY <1>3 DEF IInv, Types
  <2>3. /\ pos' \in Position /\ state' \in EnvState /\ pc' = "acting"
        /\ UNCHANGED <<oneTime, currentProp, fulfilled, tables, policy, episode>>
    BY <1>1, <1>2, <1>3
  <2> QED
    BY <1>3, <1>5, <1>6, <1>9, <2>1, <2>2, <2>3 DEF IInv, Types
<1>12. Episode'
  BY <1>1, <1>2, <1>4, <1>5 DEF Episode
<1>13. Reached'
  <2>1. ~oneTime' => ~reached'
    BY <1>3, <1>8 DEF IInv, Reached
  <2>2. ASSUME oneTime PROVE reached' <=> \E j \in DOMAIN since' : Holds(Last, since'[j].next)
    <3>1. reached' <=> (reached \/ Holds(Last, ns))
      BY <1>7, <1>8, <2>2
    <3>2. reached <=> \E j \in DOMAIN since : Holds(Last, since[j].next)
      BY <2>2 DEF IInv, Reached
    <3>3. (\E j \in DOMAIN since' : Holds(Last, since'[j].next))
            <=> ((\E j \in DOMAIN since : Holds(Last, since[j].next)) \/ Holds(Last, ns))
      <4>1. \A j \in DOMAIN since : j \in DOMAIN since' /\ since'[j] = since[j]
        BY <1>6
      <4>2. Len(since) + 1 \in DOMAIN since' /\ since'[Len(since) + 1].next = ns
        BY <1>4, <1>6
      <4>3. \A j \in DOMAIN since' : j \in DOMAIN since \/ j = Len(since) + 1
        BY <1>6
      <4> QED
        BY <4>1, <4>2, <4>3
    <3> QED
      BY <3>1, <3>2, <3>3
  <2> QED
    BY <1>3, <2>1, <2>2 DEF Reached
<1>14. Place'
  <2>1. pos' = IF reached' THEN Last ELSE Highest(ns)
    BY <1>3, <1>7, <1>8
  <2>2. oneTime => (reached' <=> pos' = Last)
    BY <1>3, <1>7, <1>8
  <2> QED
    BY <1>1, <1>3, <2>1, <2>2 DEF Place
<1>15. Learning'
  <2> SUFFICES ASSUME clean PROVE
        /\ reached' => \E j \in DOMAIN trace' : Highest(trace'[j].next) = Last
        /\ DOMAIN segments' \subseteq Visited(trace')
        /\ ~oneTime => DOMAIN segments' = Visited(trace')
    BY <1>2, <1>3, <1>5 DEF Learning
  <2>1. /\ step = 0 => ~reached
        /\ reached => \E j \in DOMAIN trace : Highest(trace[j].next) = Last
        /\ DOMAIN segments \subseteq Visited(trace)
        /\ ~oneTime => DOMAIN segments = Visited(trace)
    BY <1>2 DEF IInv, Learning
  <2>2. ASSUME reached' PROVE \E j \in DOMAIN trace' : Highest(trace'[j].next) = Last
    <3>1. CASE reached
      <4>1. PICK j \in 1..step : Highest(trace[j].next) = Last
        BY <1>5, <2>1, <3>1
      <4>2. j \in DOMAIN trace' /\ trace'[j] = trace[j]
        BY <1>5
      <4> QED
        BY <4>1, <4>2
    <3>2. CASE ~reached
      <4>1. Highest(ns) = Last
        BY <1>7, <1>8, <2>2, <3>2
      <4>2. step + 1 \in DOMAIN trace' /\ trace'[step + 1].next = ns
        BY <1>4, <1>5
      <4> QED
        BY <4>1, <4>2
    <3> QED
      BY <3>1, <3>2
  <2> DEFINE v == IF Len(trace) = 0 THEN Highest(x.state) ELSE Highest(trace[Len(trace)].next)
  <2>3. Visited(trace') = Visited(trace) \cup {v}
    BY <1>3, <1>4, VisitedGrows DEF IInv, Types
  <2>4. v = Highest(state)
    BY <1>4, <1>5 DEF IInv, Episode
  <2>5. ~reached => p = v
    BY <1>2, <1>5, <1>10, <2>4 DEF IInv, Place
  <2>6. ASSUME reached PROVE p \in Visited(trace')
    <3>1. p = Last
      BY <1>2, <1>5, <1>10, <2>1, <2>6 DEF IInv, Place
    <3>2. PICK j \in DOMAIN trace : Highest(trace[j].next) = Last
      BY <2>1, <2>6
    <3>3. Highest(trace[j].next) \in Visited(trace')
      BY <1>3, <1>4, NextVisited DEF IInv, Types
    <3> QED
      BY <3>1, <3>2, <3>3
  <2> HIDE DEF v
  <2>7. DOMAIN segments' \subseteq Visited(trace')
    BY <1>3, <2>1, <2>3, <2>5, <2>6
  <2>8. ~oneTime => DOMAIN segments' = Visited(trace')
    BY <1>3, <2>1, <2>3, <2>5 DEF IInv, Reached
  <2> QED
    BY <2>2, <2>7, <2>8
<1>16. Idle'
  BY <1>2 DEF Idle
<1> QED
  BY <1>11, <1>12, <1>13, <1>14, <1>15, <1>16 DEF IInv

LEMMA CheckedIsBoolean ==
  ASSUME NEW m, NEW s, NEW c \in Check(m, s) PROVE c.ok \in BOOLEAN
<1> DEFINE S == {j \in DOMAIN s : \E q \in Running(m, s)[j - 1] : Moves(m, q, s[j]) \intersect m.success # {}}
           ended == Running(m, s)[Len(s)] # {}
<1>1. Check(m, s) = {[ok |-> TRUE, len |-> i - 1] : i \in S}
                    \union (IF "init" \in m.success THEN {[ok |-> TRUE, len |-> 0]} ELSE {})
                    \union (IF ended THEN {[ok |-> FALSE, len |-> 0]} ELSE {})
  BY DEF Check
<1> HIDE DEF S, ended
<1>2. \/ c \in {[ok |-> TRUE, len |-> i - 1] : i \in S}
      \/ c = [ok |-> TRUE, len |-> 0]
      \/ c = [ok |-> FALSE, len |-> 0]
  BY <1>1
<1>3. CASE c \in {[ok |-> TRUE, len |-> i - 1] : i \in S}
  <2>1. PICK i \in S : c = [ok |-> TRUE, len |-> i - 1]
    BY <1>3
  <2>2. c.ok = TRUE
    BY <2>1
  <2> QED
    BY <2>2
<1>4. CASE c = [ok |-> TRUE, len |-> 0]
  <2>1. c.ok = TRUE
    BY <1>4
  <2> QED
    BY <2>1
<1>5. CASE c = [ok |-> FALSE, len |-> 0]
  <2>1. c.ok = FALSE
    BY <1>5
  <2> QED
    BY <2>1
<1> QED
  BY ONLY <1>2, <1>3, <1>4, <1>5

LEMMA PropertyStepKeeps ==
  ASSUME IInv, policy = "property", Step PROVE IInv'
<1>1. PICK ns \in EnvState : Update(ns) /\ state' = ns
  BY DEF Step
<1>2. /\ pc = "acting" /\ pc' = "acting" /\ step < Horizon /\ step' = step + 1
      /\ UNCHANGED <<policy, episode, clean>>
  BY DEF Step
<1> DEFINE x == Taken(ns)
<1>3. /\ trace' = Append(trace, x) /\ GuidedUpdate(x)
      /\ UNCHANGED <<oneTime, pos, reached, segments, since>>
  BY <1>1 DEF Update, Taken, machineVars
<1>4. x \in StepRecord /\ x.next = ns
  BY DEF Taken, StepRecord, IInv, Types
<1> HIDE DEF x
<1>5. /\ step \in Nat /\ trace' \in Seq(StepRecord) /\ Len(trace') = step + 1
      /\ trace'[step + 1] = x
  BY <1>3, <1>4, Appended, AgentAssumption DEF IInv, Types
<1>6. fulfilled' \in BOOLEAN /\ UNCHANGED <<currentProp, tables>>
  BY <1>3, CheckedIsBoolean DEF GuidedUpdate, IInv, Types
<1>7. Types'
  <2>1. step' \in 0..Horizon /\ Len(trace') = step'
    BY <1>2, <1>5, AgentAssumption
  <2> QED
    BY <1>1, <1>2, <1>3, <1>5, <1>6, <2>1 DEF IInv, Types
<1>8. Episode'
  BY <1>1, <1>2, <1>4, <1>5 DEF Episode
<1>9. Reached' /\ Place' /\ Learning' /\ Idle'
  BY <1>2, <1>3 DEF IInv, Reached, Place, Learning, Idle
<1> QED
  BY <1>7, <1>8, <1>9 DEF IInv

LEMMA NextIInv == IInv /\ [Next]_vars => IInv'
<1> SUFFICES ASSUME IInv, [Next]_vars PROVE IInv'
  OBVIOUS
<1>1. CASE Begin
  BY <1>1, BeginKeeps
<1>2. CASE Step
  <2>1. policy \in {"machine", "property"}
    BY DEF IInv, Types
  <2> QED
    BY <1>2, <2>1, MachineStepKeeps, PropertyStepKeeps
<1>3. CASE TimeOut
  BY <1>3, TimeOutKeeps
<1>4. CASE End
  BY <1>4, EndKeeps
<1>5. CASE Crash
  BY <1>5, CrashKeeps
<1>6. CASE Reset
  BY <1>6, ResetKeeps
<1>7. CASE UNCHANGED vars
  BY <1>7, StutterKeeps
<1> QED
  BY <1>1, <1>2, <1>3, <1>4, <1>5, <1>6, <1>7 DEF Next

-----------------------------------------------------------------------------
(* What a monitor finds in a trace *)

LEMMA UpTo ==
  ASSUME NEW n \in Nat, NEW S, 0 \in S, \A k \in 1..n : k - 1 \in S => k \in S
  PROVE  \A k \in 0..n : k \in S
<1> DEFINE T == {k \in 0..n : k \notin S}
<1>1. ASSUME T # {} PROVE FALSE
  <2>1. T \in SUBSET Nat
    OBVIOUS
  <2>2. PICK k \in T : \A j \in T : k <= j
    BY <1>1, <2>1, LeastExists
  <2>3. k # 0 /\ k \in 1..n /\ k - 1 \in 0..n /\ ~(k <= k - 1)
    BY <2>2
  <2>4. k - 1 \in S
    BY <2>2, <2>3
  <2> QED
    BY <2>2, <2>3, <2>4
<1> QED
  BY <1>1

\* The states, of those S, that a monitor may be in after a step.
After(m, S, x) == (UNION {Moves(m, q, x) : q \in S}) \ m.success

\* The recursive function exists, and so satisfies its equation.
LEMMA RunningEquation ==
  ASSUME NEW m, NEW t, Len(t) \in Nat
  PROVE  /\ Running(m, t)[0] = {"init"} \ m.success
         /\ \A i \in 1..Len(t) : Running(m, t)[i] = After(m, Running(m, t)[i - 1], t[i])
<1> DEFINE N == Len(t)
           Next1(S, n) == After(m, S, t[n])
           start == {"init"} \ m.success
           Is(f, k) == f = [n \in 0..k |-> IF n = 0 THEN start ELSE Next1(f[n - 1], n)]
           IsRun(f) == f = [n \in 0..N |-> (IF n = 0 THEN {"init"}
                                            ELSE UNION {Moves(m, q, t[n]) : q \in f[n - 1]})
                                           \ m.success]
           g == CHOOSE f : IsRun(f)
<1>1. Running(m, t) = g
  BY DEF Running
<1>2. ASSUME NEW f, Is(f, N) PROVE IsRun(f)
  <2>1. \A n \in 0..N : (IF n = 0 THEN start ELSE Next1(f[n - 1], n))
                        = (IF n = 0 THEN {"init"} ELSE UNION {Moves(m, q, t[n]) : q \in f[n - 1]})
                          \ m.success
    BY DEF After
  <2> QED
    BY <1>2, <2>1
<1>3. ASSUME NEW f, IsRun(f) PROVE Is(f, N)
  <2>1. \A n \in 0..N : (IF n = 0 THEN start ELSE Next1(f[n - 1], n))
                        = (IF n = 0 THEN {"init"} ELSE UNION {Moves(m, q, t[n]) : q \in f[n - 1]})
                          \ m.success
    BY DEF After
  <2> QED
    BY <1>3, <2>1
<1> HIDE DEF N, IsRun, start, Next1
<1>0. N \in Nat
  BY DEF N
<1> DEFINE E == {k \in 0..N : \E f : Is(f, k)}
<1>4. 0 \in E
  <2> DEFINE f == [n \in 0..0 |-> start]
  <2>1. f = [n \in 0..0 |-> IF n = 0 THEN start ELSE Next1(f[n - 1], n)]
    OBVIOUS
  <2> HIDE DEF f
  <2>2. Is(f, 0)
    BY <2>1
  <2> QED
    BY <1>0, <2>2
<1>5. ASSUME NEW k \in 1..N, k - 1 \in E PROVE k \in E
  <2>1. PICK f : Is(f, k - 1)
    BY <1>5
  <2> DEFINE h == [n \in 0..k |-> IF n = k THEN Next1(f[k - 1], k) ELSE f[n]]
  <2>2. ASSUME NEW n \in 0..k PROVE h[n] = IF n = 0 THEN start ELSE Next1(h[n - 1], n)
    <3>1. CASE n = k
      <4>1. n - 1 \in 0..k /\ n - 1 # k /\ n # 0
        BY <3>1
      <4> QED
        BY <3>1, <4>1
    <3>2. CASE n # k
      <4>1. n \in 0..(k - 1) /\ h[n] = f[n]
        BY <3>2
      <4>2. f[n] = IF n = 0 THEN start ELSE Next1(f[n - 1], n)
        BY <2>1, <4>1
      <4>3. n # 0 => h[n - 1] = f[n - 1]
        BY <4>1
      <4> HIDE DEF h
      <4> QED
        BY <4>1, <4>2, <4>3
    <3> QED
      BY <3>1, <3>2
  <2>3. h = [n \in 0..k |-> h[n]]
    OBVIOUS
  <2> HIDE DEF h
  <2>4. Is(h, k)
    BY <2>2, <2>3
  <2> QED
    BY <2>4
<1>6. N \in E
  <2>1. \A k \in 0..N : k \in E
    <3> HIDE DEF E
    <3> QED
      BY <1>0, <1>4, <1>5, UpTo
  <2> HIDE DEF E
  <2> QED
    BY <1>0, <2>1
<1>7. Is(g, N)
  <2>1. PICK f : Is(f, N)
    BY <1>6
  <2>2. IsRun(f)
    BY <1>2, <2>1
  <2>3. IsRun(g)
    BY <2>2
  <2> QED
    BY <1>3, <2>3
<1> HIDE DEF g
<1>8. g[0] = start /\ \A i \in 1..N : g[i] = Next1(g[i - 1], i)
  BY <1>0, <1>7
<1> QED
  BY <1>1, <1>8 DEF N, start, Next1

\* On a prefix a monitor is where it was when the trace was no longer.
LEMMA RunningPrefix ==
  ASSUME NEW m, NEW s, NEW t, Len(s) \in Nat, Len(t) \in Nat, Len(s) <= Len(t),
         \A i \in 1..Len(s) : s[i] = t[i]
  PROVE  \A i \in 0..Len(s) : Running(m, s)[i] = Running(m, t)[i]
<1> DEFINE n == Len(s)
           S == {i \in 0..n : Running(m, s)[i] = Running(m, t)[i]}
<1>1. 0 \in S
  <2>1. Running(m, s)[0] = {"init"} \ m.success /\ Running(m, t)[0] = {"init"} \ m.success
    BY RunningEquation
  <2>2. Running(m, s)[0] = Running(m, t)[0] /\ 0 \in 0..n
    BY <2>1
  <2> QED
    BY ONLY <2>2 DEF S
<1>2. ASSUME NEW k \in 1..n, k - 1 \in S PROVE k \in S
  <2>1. k \in 1..Len(t) /\ s[k] = t[k]
    OBVIOUS
  <2>2. /\ Running(m, s)[k] = After(m, Running(m, s)[k - 1], s[k])
        /\ Running(m, t)[k] = After(m, Running(m, t)[k - 1], t[k])
    BY <2>1, RunningEquation
  <2> QED
    BY <1>2, <2>1, <2>2
<1>3. \A i \in 0..n : i \in S
  <2> HIDE DEF S
  <2> QED
    BY <1>1, <1>2, UpTo
<1> QED
  BY <1>3

\* Where no two transitions exclude one another a state has one successor.
LEMMA OneMove ==
  ASSUME NEW m, NEW t, Unambiguous(m, t), NEW i \in DOMAIN t, NEW q,
         NEW a \in Moves(m, q, t[i]), NEW b \in Moves(m, q, t[i])
  PROVE  a = b
<1> DEFINE U == {u \in m.on : u.from = q /\ u.cond \in t[i].next}
           to == {u.to : u \in U}
<1>1. Moves(m, q, t[i]) = IF to = {} THEN {q} ELSE to
  BY DEF Moves
<1>2. CASE to = {}
  BY <1>1, <1>2
<1>3. CASE to # {}
  <2>1. a \in to /\ b \in to
    BY <1>1, <1>3
  <2>2. PICK u \in U, v \in U : a = u.to /\ b = v.to
    BY <2>1
  <2>3. u \in m.on /\ v \in m.on /\ u.from = v.from /\ {u.cond, v.cond} \subseteq t[i].next
    BY <2>2
  <2> QED
    BY <2>2, <2>3 DEF Unambiguous
<1> QED
  BY <1>2, <1>3

LEMMA OneState ==
  ASSUME NEW m, NEW t, Len(t) \in Nat, DOMAIN t = 1..Len(t), Unambiguous(m, t)
  PROVE  \A i \in 0..Len(t) : \A p, q \in Running(m, t)[i] : p = q
<1> DEFINE R == Running(m, t)
           S == {i \in 0..Len(t) : \A p, q \in R[i] : p = q}
<1>0. R[0] = {"init"} \ m.success /\ \A i \in 1..Len(t) : R[i] = After(m, R[i - 1], t[i])
  BY RunningEquation
<1> HIDE DEF R
<1>1. 0 \in S
  BY <1>0
<1>2. ASSUME NEW k \in 1..Len(t), k - 1 \in S PROVE k \in S
  <2>1. ASSUME NEW a \in R[k], NEW b \in R[k] PROVE a = b
    <3>1. PICK p \in R[k - 1], q \in R[k - 1] :
            a \in Moves(m, p, t[k]) /\ b \in Moves(m, q, t[k])
      BY <1>0, <2>1 DEF After
    <3>2. p = q /\ k \in DOMAIN t
      BY <1>2, <3>1
    <3> QED
      BY <3>1, <3>2, OneMove
  <2> QED
    BY <2>1
<1>3. \A i \in 0..Len(t) : i \in S
  <2> HIDE DEF S
  <2> QED
    BY <1>1, <1>2, UpTo
<1> QED
  BY <1>3 DEF R

\* A monitor that has succeeded is done.
LEMMA EmptyStays ==
  ASSUME NEW m, NEW t, Len(t) \in Nat, NEW j \in 0..Len(t), Running(m, t)[j] = {}
  PROVE  Running(m, t)[Len(t)] = {}
<1> DEFINE R == Running(m, t)
           S == {i \in 0..Len(t) : j <= i => R[i] = {}}
<1>0. \A i \in 1..Len(t) : R[i] = After(m, R[i - 1], t[i])
  BY RunningEquation
<1>1. R[j] = {}
  OBVIOUS
<1> HIDE DEF R
<1>2. 0 \in S
  BY <1>1
<1>3. ASSUME NEW k \in 1..Len(t), k - 1 \in S PROVE k \in S
  <2>1. CASE j = k
    BY <1>1, <2>1
  <2>2. CASE j < k
    <3>1. R[k - 1] = {}
      BY <1>3, <2>2
    <3>2. R[k] = {}
      BY <1>0, <3>1 DEF After
    <3> QED
      BY <3>2
  <2>3. CASE k < j
    BY <2>3
  <2> QED
    BY <2>1, <2>2, <2>3
<1>4. \A i \in 0..Len(t) : i \in S
  <2> HIDE DEF S
  <2> QED
    BY <1>2, <1>3, UpTo
<1>5. Len(t) \in S
  <2> HIDE DEF S
  <2> QED
    BY <1>4
<1> QED
  BY <1>5 DEF R

\* The steps with which a monitor may succeed.
Successes(m, t) ==
  {j \in DOMAIN t : \E q \in Running(m, t)[j - 1] : Moves(m, q, t[j]) \intersect m.success # {}}

LEMMA Verdicts ==
  ASSUME NEW m, NEW t
  PROVE  /\ \A c \in Check(m, t) :
              \/ \E i \in Successes(m, t) : c = [ok |-> TRUE, len |-> i - 1]
              \/ "init" \in m.success /\ c = [ok |-> TRUE, len |-> 0]
              \/ Running(m, t)[Len(t)] # {} /\ c = [ok |-> FALSE, len |-> 0]
         /\ \A i \in Successes(m, t) : [ok |-> TRUE, len |-> i - 1] \in Check(m, t)
         /\ "init" \in m.success => [ok |-> TRUE, len |-> 0] \in Check(m, t)
<1> DEFINE S == Successes(m, t)
           ended == Running(m, t)[Len(t)] # {}
           made == {[ok |-> TRUE, len |-> i - 1] : i \in S}
<1>1. Check(m, t) = made
                    \union (IF "init" \in m.success THEN {[ok |-> TRUE, len |-> 0]} ELSE {})
                    \union (IF ended THEN {[ok |-> FALSE, len |-> 0]} ELSE {})
  BY DEF Check, Successes
<1>2. \A c \in made : \E i \in S : c = [ok |-> TRUE, len |-> i - 1]
  OBVIOUS
<1>3. \A i \in S : [ok |-> TRUE, len |-> i - 1] \in made
  OBVIOUS
<1> HIDE DEF made, S, ended
<1> QED
  BY <1>1, <1>2, <1>3 DEF S, ended

\* A success leaves no state in which the monitor may end.
LEMMA SuccessEnds ==
  ASSUME NEW m, NEW t, Len(t) \in Nat, DOMAIN t = 1..Len(t), Unambiguous(m, t),
         Successes(m, t) # {} \/ "init" \in m.success
  PROVE  Running(m, t)[Len(t)] = {}
<1> DEFINE R == Running(m, t)
<1>0. R[0] = {"init"} \ m.success /\ \A i \in 1..Len(t) : R[i] = After(m, R[i - 1], t[i])
  BY RunningEquation
<1>1. CASE "init" \in m.success
  <2>1. R[0] = {} /\ 0 \in 0..Len(t)
    BY <1>0, <1>1
  <2> QED
    BY <2>1, EmptyStays
<1>2. CASE Successes(m, t) # {}
  <2>1. PICK j \in DOMAIN t : \E q \in R[j - 1] : Moves(m, q, t[j]) \intersect m.success # {}
    BY <1>2 DEF Successes
  <2>2. PICK q \in R[j - 1] : Moves(m, q, t[j]) \intersect m.success # {}
    BY <2>1
  <2>3. PICK a \in Moves(m, q, t[j]) : a \in m.success
    BY <2>2
  <2>4. j \in 1..Len(t) /\ j - 1 \in 0..Len(t) /\ j \in 0..Len(t)
    OBVIOUS
  <2>5. \A p \in R[j - 1] : p = q
    BY <2>4, OneState
  <2>6. \A b \in Moves(m, q, t[j]) : b = a
    BY OneMove
  <2>7. R[j] = {}
    BY <1>0, <2>3, <2>4, <2>5, <2>6 DEF After
  <2> QED
    BY <2>4, <2>7, EmptyStays
<1> QED
  BY <1>1, <1>2

\* Where no two transitions exclude one another a trace has one verdict.
LEMMA OneVerdict ==
  ASSUME NEW m, NEW t, Len(t) \in Nat, DOMAIN t = 1..Len(t), Unambiguous(m, t),
         NEW c \in Check(m, t), NEW d \in Check(m, t)
  PROVE  c.ok = d.ok
<1>1. \A x \in Check(m, t) :
        \/ x.ok = TRUE /\ (Successes(m, t) # {} \/ "init" \in m.success)
        \/ x.ok = FALSE /\ Running(m, t)[Len(t)] # {}
  <2> SUFFICES ASSUME NEW x \in Check(m, t)
               PROVE  \/ x.ok = TRUE /\ (Successes(m, t) # {} \/ "init" \in m.success)
                      \/ x.ok = FALSE /\ Running(m, t)[Len(t)] # {}
    OBVIOUS
  <2>1. CASE \E i \in Successes(m, t) : x = [ok |-> TRUE, len |-> i - 1]
    BY <2>1
  <2>2. CASE "init" \in m.success /\ x = [ok |-> TRUE, len |-> 0]
    BY <2>2
  <2>3. CASE Running(m, t)[Len(t)] # {} /\ x = [ok |-> FALSE, len |-> 0]
    BY <2>3
  <2> QED
    BY <2>1, <2>2, <2>3, Verdicts
<1>2. Successes(m, t) # {} \/ "init" \in m.success => Running(m, t)[Len(t)] = {}
  BY SuccessEnds
<1> QED
  BY <1>1, <1>2

\* A success is one of every longer trace.
LEMMA SuccessStays ==
  ASSUME NEW m, NEW s, NEW t, Len(s) \in Nat, Len(t) \in Nat, Len(s) <= Len(t),
         DOMAIN s = 1..Len(s), DOMAIN t = 1..Len(t),
         \A i \in 1..Len(s) : s[i] = t[i], NEW c \in Check(m, s), c.ok = TRUE
  PROVE  \E d \in Check(m, t) : d.ok = TRUE
<1>1. CASE \E i \in Successes(m, s) : c = [ok |-> TRUE, len |-> i - 1]
  <2>1. PICK i \in DOMAIN s :
          \E q \in Running(m, s)[i - 1] : Moves(m, q, s[i]) \intersect m.success # {}
    BY <1>1 DEF Successes
  <2>2. i \in DOMAIN t /\ i - 1 \in 0..Len(s) /\ s[i] = t[i]
    OBVIOUS
  <2>3. Running(m, s)[i - 1] = Running(m, t)[i - 1]
    BY <2>2, RunningPrefix
  <2>4. i \in Successes(m, t)
    BY <2>1, <2>2, <2>3 DEF Successes
  <2>5. [ok |-> TRUE, len |-> i - 1] \in Check(m, t)
    BY <2>4, Verdicts
  <2> QED
    BY <2>5
<1>2. CASE "init" \in m.success
  <2>1. [ok |-> TRUE, len |-> 0] \in Check(m, t)
    BY <1>2, Verdicts
  <2> QED
    BY <2>1
<1>3. CASE c = [ok |-> FALSE, len |-> 0]
  BY <1>3
<1>4. \/ \E i \in Successes(m, s) : c = [ok |-> TRUE, len |-> i - 1]
      \/ "init" \in m.success
      \/ c = [ok |-> FALSE, len |-> 0]
  BY Verdicts
<1> QED
  BY <1>1, <1>2, <1>3, <1>4

-----------------------------------------------------------------------------
(* What the policy remembers of a property *)

\* The policy's trace is the episode's until the property is fulfilled, and
\* stays there; its verdict on it is the one it keeps.
Followed ==
  /\ current_trace \in Seq(StepRecord)
  /\ Len(current_trace) <= Len(trace)
  /\ \A i \in 1..Len(current_trace) : current_trace[i] = trace[i]
  /\ ~fulfilled => current_trace = trace
  /\ step > 0 => \E c \in Check(Monitors[currentProp], current_trace) : c.ok = fulfilled

\* In an episode that follows a completed one.
Watch ==
  policy = "property" /\ clean =>
    /\ pc = "between" \/ step = 0 => current_trace = <<>> /\ ~fulfilled
    /\ currentProp # 0 => Followed

WatchInv == IInv /\ Watch

LEMMA NoStepWatched ==
  ASSUME current_trace = <<>>, ~fulfilled, trace \in Seq(StepRecord), step = 0, Len(trace) = step
  PROVE  Followed
<1>1. trace = <<>>
  BY EmptySeq
<1>2. <<>> \in Seq(StepRecord) /\ Len(<<>>) = 0
  BY Nothing
<1> QED
  BY <1>1, <1>2 DEF Followed

LEMMA InitWatch == Init => Watch
<1> SUFFICES ASSUME Init PROVE Watch
  OBVIOUS
<1>1. current_trace = <<>> /\ ~fulfilled /\ currentProp = 0
  BY DEF Init, GuidedInit
<1> QED
  BY <1>1 DEF Watch

LEMMA StepWatched ==
  ASSUME WatchInv, Step PROVE Watch'
<1> SUFFICES ASSUME policy = "property", clean PROVE Watch'
  BY DEF Watch, Step
<1>1. PICK ns \in EnvState : Update(ns) /\ state' = ns
  BY DEF Step
<1>2. pc' = "acting" /\ step' = step + 1 /\ step < Horizon /\ step \in Nat
  BY AgentAssumption DEF Step, WatchInv, IInv, Types
<1> DEFINE x == Taken(ns)
<1>3. trace' = Append(trace, x) /\ GuidedUpdate(x) /\ currentProp' = currentProp
  BY <1>1 DEF Update, Taken, GuidedUpdate
<1>4. x \in StepRecord
  BY DEF Taken, StepRecord, WatchInv, IInv, Types
<1> HIDE DEF x
<1>5. pc' # "between" /\ step' # 0
  BY <1>2
<1>6. ASSUME currentProp # 0 PROVE Followed'
  <2>1. Followed /\ trace \in Seq(StepRecord)
    BY <1>6 DEF WatchInv, Watch, IInv, Types
  <2>2. /\ trace' \in Seq(StepRecord) /\ Len(trace') = Len(trace) + 1 /\ Len(trace) \in Nat
        /\ \A i \in 1..Len(trace) : trace'[i] = trace[i]
    BY <1>3, <1>4, <2>1, Appended
  <2>3. Len(current_trace) \in Nat
    BY <2>1, LenProperties DEF Followed
  <2>4. CASE fulfilled
    <3>1. UNCHANGED <<current_trace, fulfilled>>
      BY <1>3, <2>4 DEF GuidedUpdate, Following
    <3>2. \E c \in Check(Monitors[currentProp], current_trace) : c.ok = fulfilled
      <4>1. CASE step > 0
        BY <2>1, <4>1 DEF Followed
      <4>2. CASE step = 0
        BY <2>4, <4>2 DEF WatchInv, Watch
      <4> QED
        BY <1>2, <4>1, <4>2
    <3>3. /\ Len(current_trace) <= Len(trace')
          /\ \A i \in 1..Len(current_trace) : current_trace[i] = trace'[i]
      BY <2>1, <2>2, <2>3 DEF Followed
    <3>4. current_trace \in Seq(StepRecord)
      BY <2>1 DEF Followed
    <3>5. currentProp' = currentProp
      BY <1>3
    <3> QED
      BY <2>4, <3>1, <3>2, <3>3, <3>4, <3>5 DEF Followed
  <2>5. CASE ~fulfilled
    <3>1. /\ current_trace' = Append(current_trace, x)
          /\ \E c \in Check(Monitors[currentProp], current_trace') : fulfilled' = c.ok
      BY <1>3, <1>6, <2>5 DEF GuidedUpdate, Following
    <3>2. current_trace' = trace'
      BY <1>3, <2>1, <2>5, <3>1 DEF Followed
    <3> QED
      BY <1>3, <2>2, <3>1, <3>2 DEF Followed
  <2> QED
    BY <2>4, <2>5
<1> QED
  BY <1>3, <1>5, <1>6 DEF Watch

LEMMA NextWatch == WatchInv /\ [Next]_vars => WatchInv'
<1> SUFFICES ASSUME WatchInv, [Next]_vars PROVE WatchInv'
  OBVIOUS
<1>0. IInv /\ IInv' /\ Watch
  BY NextIInv DEF WatchInv
<1> SUFFICES Watch'
  BY <1>0 DEF WatchInv
<1>1. CASE Begin
  <2>1. /\ pc = "between" /\ step = 0 /\ trace \in Seq(StepRecord) /\ Len(trace) = step
        /\ UNCHANGED <<guidedVars, policy, step, trace, clean>>
    BY <1>0, <1>1 DEF Begin, IInv, Types, Episode
  <2> QED
    BY <1>0, <2>1 DEF Watch, Followed, guidedVars
<1>2. CASE Step
  BY <1>2, StepWatched
<1>3. CASE TimeOut
  BY <1>3 DEF TimeOut, Watch
<1>4. CASE End
  <2>1. CASE policy = "property"
    <3>1. current_trace' = <<>> /\ ~fulfilled' /\ step' = 0
      BY <1>4, <2>1 DEF End, GuidedRestart, EmptyTrace, Forget
    <3>2. trace' \in Seq(StepRecord) /\ Len(trace') = step'
      BY <1>0 DEF IInv, Types
    <3>3. Followed'
      <4>1. trace' = <<>>
        BY <1>4 DEF End, Forget
      <4>2. <<>> \in Seq(StepRecord) /\ Len(<<>>) = 0
        BY Nothing
      <4> QED
        BY <3>1, <4>1, <4>2 DEF Followed
    <3> QED
      BY <3>1, <3>3 DEF Watch
  <2>2. CASE policy # "property"
    BY <1>4, <2>2 DEF End, Watch
  <2> QED
    BY <2>1, <2>2
<1>5. CASE Crash
  BY <1>0, <1>5 DEF Crash, Watch, Followed, guidedVars
<1>6. CASE Reset
  <2>1. /\ pc = "between" /\ UNCHANGED <<policy, pc, step, trace, currentProp, fulfilled, current_trace>>
    BY <1>6 DEF Reset, GuidedReset, guidedVars
  <2>2. policy = "property" => clean' = clean
    BY <1>6 DEF Reset
  <2> QED
    BY <1>0, <2>1, <2>2 DEF Watch, Followed
<1>7. CASE UNCHANGED vars
  BY <1>0, <1>7 DEF Watch, Followed, vars, guidedVars, agentVars
<1> QED
  BY <1>1, <1>2, <1>3, <1>4, <1>5, <1>6, <1>7 DEF Next

-----------------------------------------------------------------------------
(* The theorems *)

\* Whatever the agent does, the invariant holds.
THEOREM InvariantIInv == Spec => []IInv
<1>1. Init => IInv
  BY InitIInv
<1>2. IInv /\ [Next]_vars => IInv'
  BY NextIInv
<1> QED
  BY <1>1, <1>2, PTL DEF Spec

\* The positions of the machine, its segments and their entries, the property
\* that is followed and the trace stay what they are meant to be: no action
\* takes a position that the machine does not have (reward_machine.go).
THEOREM TypeCorrect == Spec => []TypeOK
<1>1. IInv => TypeOK
  BY DEF IInv, Types, TypeOK
<1> QED
  BY <1>1, InvariantIInv, PTL

\* The replay of an episode's trace counts the machine's states whose policies
\* took part in it (reward_machine_util.go against reward_machine.go), for any
\* machine and any horizon.
THEOREM ReplayFindsThePolicy == Spec => []AnalysisAgrees
<1>1. IInv => AnalysisAgrees
  BY DEF IInv, Learning, AnalysisAgrees
<1> QED
  BY <1>1, InvariantIInv, PTL

\* The policy of Final acts when a step has earned it, however many episodes
\* were broken off before (Update and UpdateIteration in reward_machine.go).
THEOREM FinalMustBeEarned == Spec => []FinalIsEarned
<1>1. ASSUME IInv PROVE FinalIsEarned
  <2> SUFFICES ASSUME policy = "machine", pc = "acting", step > 0
               PROVE  pos = Last <=> IF oneTime
                                     THEN \E i \in DOMAIN since : Holds(Last, since[i].next)
                                     ELSE Holds(Last, state)
    BY DEF FinalIsEarned
  <2>1. /\ pos = IF reached THEN Last ELSE Highest(state)
        /\ oneTime => (reached <=> pos = Last)
    BY <1>1 DEF IInv, Place
  <2>2. /\ ~oneTime => ~reached
        /\ oneTime => (reached <=> \E i \in DOMAIN since : Holds(Last, since[i].next))
    BY <1>1 DEF IInv, Reached
  <2>3. Highest(state) = Last <=> Holds(Last, state)
    BY HighestHolds
  <2> QED
    BY <2>1, <2>2, <2>3
<1> QED
  BY <1>1, InvariantIInv, PTL

\* What the policy remembers while an episode runs, it would find in the whole
\* trace: once fulfilled a property stays so, and until then the policy has
\* kept every step (Update and checkReached in property_guided.go against
\* Check in monitor.go), for any monitors and any horizon.
THEOREM FulfilledIsRight == Spec => []FulfilledIsSatisfied
<1>1. ASSUME WatchInv PROVE FulfilledIsSatisfied
  <2> DEFINE m == Monitors[currentProp]
  <2> SUFFICES ASSUME policy = "property", step > 0, clean, currentProp # 0,
                      Unambiguous(m, trace), NEW d \in Check(m, trace)
               PROVE  d \in [ok : {fulfilled}, len : 0..Horizon]
    BY DEF FulfilledIsSatisfied
  <2>1. Followed /\ trace \in Seq(StepRecord) /\ fulfilled \in BOOLEAN
    BY <1>1 DEF WatchInv, Watch, IInv, Types
  <2>2. /\ Len(trace) \in Nat /\ DOMAIN trace = 1..Len(trace) /\ Len(trace) <= Horizon
        /\ Len(current_trace) \in Nat /\ DOMAIN current_trace = 1..Len(current_trace)
    BY <1>1, <2>1, LenProperties, AgentAssumption DEF Followed, WatchInv, IInv, Types
  <2>3. PICK c \in Check(m, current_trace) : c.ok = fulfilled
    BY <2>1 DEF Followed
  <2>4. \E e \in Check(m, trace) : e.ok = fulfilled
    <3>1. CASE fulfilled
      <4>1. \E e \in Check(m, trace) : e.ok = TRUE
        BY <2>1, <2>2, <2>3, <3>1, SuccessStays DEF Followed
      <4> QED
        BY <3>1, <4>1
    <3>2. CASE ~fulfilled
      BY <2>1, <2>3, <3>2 DEF Followed
    <3> QED
      BY <3>1, <3>2
  <2>5. d.ok = fulfilled
    BY <2>2, <2>4, OneVerdict
  <2>6. \/ \E i \in DOMAIN trace : d = [ok |-> TRUE, len |-> i - 1]
        \/ d = [ok |-> TRUE, len |-> 0]
        \/ d = [ok |-> FALSE, len |-> 0]
    BY Verdicts DEF Successes
  <2>7. d = [ok |-> d.ok, len |-> d.len] /\ d.len \in 0..Horizon
    <3>1. CASE \E i \in DOMAIN trace : d = [ok |-> TRUE, len |-> i - 1]
      <4>1. PICK i \in 1..Len(trace) : d = [ok |-> TRUE, len |-> i - 1]
        BY <2>2, <3>1
      <4>2. i - 1 \in 0..Horizon
        BY <2>2, AgentAssumption
      <4> QED
        BY <4>1, <4>2
    <3>2. CASE d = [ok |-> TRUE, len |-> 0] \/ d = [ok |-> FALSE, len |-> 0]
      BY <3>2, AgentAssumption
    <3> QED
      BY <2>6, <3>1, <3>2
  <2> HIDE DEF m
  <2> QED
    BY <2>5, <2>7
<1>2. Init => WatchInv
  BY InitIInv, InitWatch DEF WatchInv
<1> QED
  BY <1>1, <1>2, NextWatch, PTL DEF Spec
=============================================================================
