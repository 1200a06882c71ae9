----------------------------- MODULE GuidedAgent -----------------------------
(***************************************************************************)
(* An agent runs episodes with a policy that is guided, by a reward        *)
(* machine or by properties (types/agent.go, types/experiment.go): what    *)
(* the policy remembers of an episode while episodes are completed, timed  *)
(* out or broken off, and the experiment is run again.  The environment    *)
(* answers with any state.                                                 *)
(***************************************************************************)
EXTENDS RewardMachine, PropertyGuided

CONSTANTS
  Horizon,
  MaxEpisodes     \* episodes of a run (a bound)

ASSUME AgentAssumption == Horizon \in Nat \ {0} /\ MaxEpisodes \in Nat \ {0}

VARIABLES
  policy,         \* "machine" or "property"
  pc,             \* "between", "acting" or "crashed"
  episode,
  step, state,    \* of the running episode
  trace,
  since,          \* history: the machine's steps since the policy last learned
  clean           \* history: no episode was broken off since then

agentVars == <<policy, pc, episode, step, state, trace, since, clean>>
vars == <<machineVars, guidedVars, agentVars>>

Init ==
  /\ policy \in {"machine", "property"}
  /\ oneTime \in IF policy = "machine" THEN BOOLEAN ELSE {FALSE}
  /\ MachineInit /\ GuidedInit
  /\ pc = "between" /\ episode = 0 /\ step = 0 /\ state = {}
  /\ trace = <<>> /\ since = <<>> /\ clean = TRUE

-----------------------------------------------------------------------------
\* The variables of an episode end with it.
Forget == step' = 0 /\ state' = {} /\ trace' = <<>>

Begin ==
  /\ pc = "between" /\ episode < MaxEpisodes
  /\ pc' = "acting"
  /\ episode' = episode + 1
  /\ state' \in EnvState
  /\ UNCHANGED <<machineVars, guidedVars, policy, step, trace, since, clean>>

Update(ns) ==
  LET s == [state |-> state, next |-> ns] IN
    /\ trace' = Append(trace, s)
    /\ IF policy = "machine"
       THEN /\ since' = Append(since, s)
            /\ MachineUpdate(Len(since'), Choosing(step, state), ns)
            /\ UNCHANGED guidedVars
       ELSE GuidedUpdate(s) /\ UNCHANGED <<machineVars, since>>

\* NextAction, the step of the environment, Update.
Step ==
  /\ pc = "acting" /\ step < Horizon
  /\ policy = "property" => MayChoose
  /\ \E ns \in EnvState : Update(ns) /\ state' = ns
  /\ step' = step + 1
  /\ UNCHANGED <<policy, pc, episode, clean>>

\* The deadline has passed before the step, or while the environment took it:
\* nothing is learned.
TimeOut ==
  /\ pc = "acting"
  /\ pc' = "between"
  /\ clean' = FALSE
  /\ \/ UNCHANGED machineVars
     \/ /\ policy = "machine" /\ step < Horizon
        /\ pos' = Choosing(step, state)
        /\ UNCHANGED <<oneTime, reached, segments>>
  /\ Forget
  /\ UNCHANGED <<guidedVars, policy, episode, since>>

\* UpdateIteration, at the horizon or when there is no action to take.
End ==
  /\ pc = "acting"
  /\ IF policy = "machine" THEN MachineRestart /\ UNCHANGED guidedVars
     ELSE MayLearn(trace, TRUE) /\ GuidedRestart /\ UNCHANGED machineVars
  /\ pc' = "between" /\ since' = <<>> /\ clean' = TRUE
  /\ Forget
  /\ UNCHANGED <<policy, episode>>

\* A nil table.
Crash ==
  /\ pc = "acting" /\ policy = "property"
  /\ \/ step < Horizon /\ ~MayChoose
     \/ MayLearn(trace, FALSE)
  /\ pc' = "crashed"
  /\ UNCHANGED <<machineVars, guidedVars, policy, episode, step, state, trace, since, clean>>

\* Experiment.Reset, before another run.
Reset ==
  /\ pc = "between" /\ episode = MaxEpisodes
  /\ IF policy = "machine"
     THEN MachineRestart /\ since' = <<>> /\ clean' = TRUE /\ UNCHANGED guidedVars
     ELSE GuidedReset /\ UNCHANGED <<since, clean, machineVars>>
  /\ episode' = 0
  /\ UNCHANGED <<policy, pc, step, state, trace>>

Next == Begin \/ Step \/ TimeOut \/ End \/ Crash \/ Reset

Spec == Init /\ [][Next]_vars

-----------------------------------------------------------------------------
TypeOK ==
  /\ oneTime \in BOOLEAN /\ pos \in Position /\ reached \in BOOLEAN
  /\ DOMAIN segments \subseteq Position
  /\ \A p \in DOMAIN segments :
       segments[p] \subseteq [at : 1..Len(since), reward : BOOLEAN, out : BOOLEAN]
  /\ currentProp \in 0..Len(Monitors)
  /\ fulfilled \in BOOLEAN /\ tables \in BOOLEAN
  /\ policy \in {"machine", "property"}
  /\ pc \in {"between", "acting", "crashed"}
  /\ episode \in 0..MaxEpisodes /\ step \in 0..Horizon
  /\ state \in EnvState
  /\ Len(trace) = step

\* The analysis, which replays the trace of an episode wherever it ends, finds the
\* policy where it was: the machine's states it counts are those whose policies
\* took part.  A one-time machine stays in Final when the replay moves on.
AnalysisAgrees ==
  policy = "machine" /\ pc = "acting" /\ step > 0 /\ clean =>
    /\ DOMAIN segments \subseteq Visited(trace)
    /\ ~oneTime => DOMAIN segments = Visited(trace)

\* The exploration policy of Final acts exactly when it was earned: the state
\* satisfies the final predicate or, in a one-time machine, a step since the
\* policy last learned did, which may be one of an episode that timed out.
FinalIsEarned ==
  policy = "machine" /\ pc = "acting" /\ step > 0 =>
    (pos = Last <=> IF oneTime THEN \E i \in DOMAIN since : Holds(Last, since[i].next)
                    ELSE Holds(Last, state))

\* Whenever an episode ends, the property counts as fulfilled exactly when the
\* whole trace satisfies it, as updatePolicy and the experiment's statistics
\* will find, unless an episode was broken off before or the transitions of the
\* monitor, which are tried in any order, did not exclude one another.
FulfilledIsSatisfied ==
  policy = "property" /\ pc = "acting" /\ step > 0 /\ clean /\ currentProp # 0
  /\ Unambiguous(Monitors[currentProp], trace) =>
    Check(Monitors[currentProp], trace) \subseteq [ok : {fulfilled}, len : 0..Horizon]
=============================================================================
