---------------------------- MODULE RewardMachine ----------------------------
(***************************************************************************)
(* The policy that follows a reward machine (policies/reward_machine.go),  *)
(* and the analysis that replays its traces afterwards                     *)
(* (reward_machine_util.go).  The policies of the machine's states, which  *)
(* choose actions and learn from segments, are left out: what they choose  *)
(* is arbitrary.  A state of the environment is the set of the machine's   *)
(* states whose predicate it satisfies.                                    *)
(***************************************************************************)
EXTENDS Naturals, Sequences, FiniteSets, FiniteSetsExt

CONSTANT Machine        \* rm.states: names in the order of the machine

\* NewRewardMachine, and AddState: the second-last position.
NewRewardMachine == <<"Init", "Final">>
AddState(rm, name) == SubSeq(rm, 1, Len(rm) - 1) \o <<name, rm[Len(rm)]>>

Position == 1..Len(Machine)
Last == Len(Machine)
EnvState == SUBSET {Machine[i] : i \in 2..Last}

ASSUME MachineAssumption ==
  /\ Machine \in Seq(STRING) /\ Last >= 2
  /\ Machine[1] = "Init" /\ Machine[Last] = "Final"
  /\ \A i, j \in Position : Machine[i] = Machine[j] => i = j

VARIABLES
  oneTime,
  pos,              \* curRmStatePos
  reached,
  segments          \* curTraceSegments: per position the steps, numbered

machineVars == <<oneTime, pos, reached, segments>>

\* The last state whose predicate holds; that of Init always does.
Holds(i, s) == i = 1 \/ Machine[i] \in s
Highest(s) == Max({i \in Position : Holds(i, s)})

MachineInit == pos = 1 /\ reached = FALSE /\ segments = <<>>

\* The end of UpdateIteration, and Reset.  (Mutants: reached is kept; the
\* segments are.)
KeptReached == reached

Unreached == FALSE

KeptSegments == segments

NoSegments == <<>>

MachineRestart ==
  pos' = 1 /\ reached' = Unreached /\ segments' = NoSegments /\ UNCHANGED oneTime

\* NextAction: the position whose policy chooses the action.  (Mutant: the
\* first state whose predicate holds.)
Lowest(step, s) == IF step = 0 THEN Min({i \in Position : Holds(i, s)}) ELSE pos

Choosing(step, s) == IF step = 0 THEN Highest(s) ELSE pos

\* Update of a step that the policy of position p chose.
NewPosition(ns) == IF reached THEN Last ELSE Highest(ns)

NowReached(i) == reached \/ (oneTime /\ i = Last)

Entry(at, p, i) == [at |-> at, reward |-> ~reached /\ i > p, out |-> ~reached /\ i # p]

MachineUpdate(at, p, ns) ==
  LET i == NewPosition(ns) IN
    /\ segments' = [q \in DOMAIN segments \union {p} |->
                      (IF q \in DOMAIN segments THEN segments[q] ELSE {})
                      \union (IF q = p THEN {Entry(at, p, i)} ELSE {})]
    /\ pos' = i
    /\ reached' = NowReached(i)
    /\ UNCHANGED oneTime

-----------------------------------------------------------------------------
(* RewardMachineAnalyzer, of one trace: a sequence of steps [state, next].  *)

\* traceRMStatesVisited: the position before each step.
Visited(trace) ==
  {IF i = 1 THEN Highest(trace[1].state) ELSE Highest(trace[i - 1].next) : i \in DOMAIN trace}

\* finalPredicateReached
FinalReached(trace) ==
  \/ Holds(Last, trace[1].state)
  \/ \E i \in DOMAIN trace : Holds(Last, trace[i].next)
=============================================================================
