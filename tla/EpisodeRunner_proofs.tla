----------------------- MODULE EpisodeRunner_proofs -----------------------
(***************************************************************************)
(* Theorems about EpisodeRunner, for every number of episodes and every    *)
(* horizon.  IInv says where the goroutine of each episode can be while    *)
(* main is where it is.                                                    *)
(***************************************************************************)
EXTENDS EpisodeRunner, TLAPS

InLoopBody == {"choosing"} \union Stepping
              \union {"storing", "stepped", "updating"}

\* Where the next write of a goroutine is behind a look at the deadline.
BeforeLook == {"top", "stepped", "final", "done", "failed", "ended"}

\* Where it relies on the environment being what it has left there.
Running == {"top", "choosing", "storing", "stepped", "updating"} \union Stepping

InLoop == main \in {"waiting", "closing", "cancelled"} => episode \in Ids

\* Episodes to come have not touched anything.
Future == \A i \in Ids : i > episode => /\ at[i] = "none"
                                        /\ \A kind \in Kinds : late[i][kind] = 0
                                        /\ trace[i] = <<>>

\* A goroutine ends with the result it sends.
SentLast == \A i \in Ids : res[i] # <<>> => at[i] = "ended"

WithinHorizon == \A i \in Ids : at[i] \in InLoopBody => Len(trace[i]) < Horizon

\* What an episode has written after its deadline, with l the counts of it.
None(l) == \A kind \in Kinds : l[kind] = 0

Only(l, segment) == \A kind \in Kinds \ segment : l[kind] = 0

\* In Reset, in the tick of a step, after StoreState, after Update or Learn.
LateReset(l, place) ==
  /\ Only(l, {"reset"})
  /\ \/ place = "storingReset" /\ l["reset"] <= 1
     \/ place = "savingReset" /\ l["reset"] <= 2
     \/ place \in BeforeLook /\ l["reset"] <= 3

LateTick(l, place, n) ==
  /\ Only(l, {"choice", "system", "messages"})
  /\ l["choice"] <= 1 /\ l["system"] <= MaxCalls /\ l["messages"] <= 1
  /\ \/ place \in {"stepping", "ticking"} /\ l["system"] <= n /\ l["messages"] = 0
     \/ place \in {"computing"} \union BeforeLook

LateState(l, place) == Only(l, {"state"}) /\ l["state"] <= 1 /\ place \in BeforeLook

LatePolicy(l, place) == Only(l, {"policy"}) /\ l["policy"] <= 1 /\ place \in BeforeLook

LateSince(l, place, n) == LateReset(l, place) \/ LateTick(l, place, n)
                          \/ LateState(l, place) \/ LatePolicy(l, place)

LateInSegment ==
  \A i \in Ids : None(late[i]) \/ (i \in expired /\ LateSince(late[i], at[i], calls[i]))

\* What a goroutine has sent is its own trace, which the policy has learned.
SentIsLearned ==
  \A i \in Ids : /\ at[i] \in {"done", "sending"} => i \in learned
                 /\ \A k \in DOMAIN res[i] :
                      res[i][k] = Nil \/ (res[i][k].of = i /\ i \in learned)

\* Only an episode that was timed out runs on when main has left it.
PastAreOver ==
  \A i \in Ids : i < episode \/ (i = episode /\ main # "waiting")
                   => i \in timedOut \/ at[i] \in {"none", "ended"}

NoneTimedOutBefore(i) == \A j \in timedOut : ~(j < i)

Own(i, S) == S \subseteq {i}
OwnAll(i, t) == \A k \in DOMAIN t : Own(i, t[k])

\* The goroutine of episode i has the environment to itself, from the point
\* where it has reset the system.
Alone(i) ==
  /\ at[i] \in Running => Own(i, env) /\ Own(i, sys) /\ Own(i, saved)
  /\ at[i] \in {"storingReset", "savingReset"} => Own(i, sys) /\ Own(i, base[i])
  /\ at[i] = "savingReset" => Own(i, env)
  /\ at[i] \in Stepping \union {"storing"} => Own(i, base[i])
  /\ at[i] \in {"stepped", "updating"} => Own(i, state[i])
  /\ OwnAll(i, trace[i])

\* The episode main waits for has it when no episode before was timed out.
CurrentIsAlone ==
  main = "waiting" /\ NoneTimedOutBefore(episode) =>
    /\ Alone(episode)
    /\ \A k \in DOMAIN res[episode] : OfOneEpisode(res[episode][k])

IInv == /\ TypeOK /\ InLoop /\ Future /\ SentLast /\ WithinHorizon
        /\ LateInSegment /\ SentIsLearned /\ RecordedIsLearned
        /\ PastAreOver /\ CurrentIsAlone /\ MixingNeedsTimeOut

-----------------------------------------------------------------------------
USE DEF Ids, vars, mainVars, environment, shared, local, Empty

LEMMA EmptySeq == ASSUME NEW S PROVE <<>> \in Seq(S) /\ Len(<<>>) = 0
  OBVIOUS

LEMMA OneSeq == ASSUME NEW S, NEW x \in S PROVE <<x>> \in Seq(S) /\ Len(<<x>>) = 1
  OBVIOUS

LEMMA AppendSeq ==
  ASSUME NEW S, NEW s \in Seq(S), NEW x \in S
  PROVE  /\ Append(s, x) \in Seq(S)
         /\ Len(Append(s, x)) = Len(s) + 1
         /\ \A k \in DOMAIN Append(s, x) :
              Append(s, x)[k] = IF k \in DOMAIN s THEN s[k] ELSE x
  OBVIOUS

LEMMA SingleSeq ==
  ASSUME NEW S, NEW s \in Seq(S), s # <<>>, Len(s) <= 1
  PROVE  1 \in DOMAIN s /\ Head(s) = s[1] /\ Tail(s) = <<>>
<1>1. Len(s) = 1
  <2>1. Len(s) \in Nat
    OBVIOUS
  <2>2. Len(s) # 0
    OBVIOUS
  <2> QED
    BY <2>1, <2>2
<1>2. Tail(s) \in Seq(S) /\ Len(Tail(s)) = 0
  BY <1>1
<1>3. Tail(s) = <<>>
  BY <1>2
<1> QED
  BY <1>1, <1>3

LEMMA InitIInv == Init => IInv
<1> SUFFICES ASSUME Init PROVE IInv
  OBVIOUS
<1> USE EpisodesAssumption, EmptySeq DEF Init
<1>1. TypeOK
  <2>1. \A i \in Ids : Len(trace[i]) <= Horizon /\ Len(res[i]) <= 1
    OBVIOUS
  <2>2. /\ env \subseteq Ids /\ sys \subseteq Ids /\ saved \subseteq Ids
        /\ state \in [Ids -> SUBSET Ids] /\ base \in [Ids -> SUBSET Ids]
        /\ trace \in [Ids -> Seq(SUBSET Ids)]
        /\ res \in [Ids -> Seq(Results)] /\ traces \in Seq(Results)
    OBVIOUS
  <2>3. /\ at \in [Ids -> Places] /\ calls \in [Ids -> 0..MaxCalls]
        /\ late \in [Ids -> [Kinds -> Nat]]
    BY DEF Places
  <2>4. interrupted \in BOOLEAN /\ crashed \in BOOLEAN
    OBVIOUS
  <2>5. main = "next" /\ episode \in 0..Episodes
    OBVIOUS
  <2>6. /\ expired \subseteq Ids /\ timedOut \subseteq Ids
        /\ closed \subseteq Ids /\ learned \subseteq Ids
    OBVIOUS
  <2> HIDE DEF Init
  <2> QED
    BY <2>1, <2>2, <2>3, <2>4, <2>5, <2>6 DEF TypeOK
<1>2. InLoop /\ Future /\ SentLast /\ WithinHorizon /\ LateInSegment
  BY DEF InLoop, Future, SentLast, WithinHorizon, LateInSegment, None, InLoopBody,
         Stepping
<1>3. SentIsLearned /\ RecordedIsLearned /\ PastAreOver /\ CurrentIsAlone
      /\ MixingNeedsTimeOut
  BY DEF SentIsLearned, RecordedIsLearned, PastAreOver, CurrentIsAlone,
         MixingNeedsTimeOut
<1> QED
  BY <1>1, <1>2, <1>3 DEF IInv

\* What a write counts.
LEMMA WriteCounts ==
  ASSUME TypeOK, NEW i \in Ids, NEW kind \in Kinds, Write(i, kind)
  PROVE  /\ late' \in [Ids -> [Kinds -> Nat]]
         /\ \A j \in Ids \ {i} : late'[j] = late[j]
         /\ \A k \in Kinds \ {kind} : late'[i][k] = late[i][k]
         /\ late'[i][kind] = late[i][kind] + IF i \in expired THEN 1 ELSE 0
<1>1. late \in [Ids -> [Kinds -> Nat]]
  BY DEF TypeOK
<1> DEFINE l == [late[i] EXCEPT ![kind] = @ + IF i \in expired THEN 1 ELSE 0]
<1>2. /\ l \in [Kinds -> Nat]
      /\ \A k \in Kinds \ {kind} : l[k] = late[i][k]
      /\ l[kind] = late[i][kind] + IF i \in expired THEN 1 ELSE 0
  BY <1>1
<1>3. late' = [late EXCEPT ![i] = l]
  BY DEF Write
<1> HIDE DEF l
<1> QED
  BY <1>1, <1>2, <1>3

LEMMA KindsOf == "reset" \in Kinds /\ "choice" \in Kinds /\ "system" \in Kinds
                 /\ "messages" \in Kinds /\ "state" \in Kinds /\ "policy" \in Kinds
  BY DEF Kinds

LEMMA FailType ==
  ASSUME TypeOK, WithinHorizon, NEW i \in Ids, Fail(i),
         UNCHANGED <<mainVars, interrupted, expired, res, crashed>>
  PROVE  TypeOK' /\ WithinHorizon'
<1>1. trace' \in [Ids -> Seq(SUBSET Ids)] /\ \A j \in Ids : Len(trace'[j]) <= Horizon
  BY EmptySeq, EpisodesAssumption DEF Fail, TypeOK
<1>2. at' \in [Ids -> Places]
  BY DEF Fail, Goto, TypeOK, Places
<1>5. /\ state' \in [Ids -> SUBSET Ids] /\ base' \in [Ids -> SUBSET Ids]
      /\ calls' \in [Ids -> 0..MaxCalls]
  BY EpisodesAssumption DEF Fail, Forget, TypeOK
<1>3. \A j \in Ids : at'[j] \in InLoopBody => at[j] = at'[j] /\ trace'[j] = trace[j]
  BY DEF Fail, Goto, TypeOK, InLoopBody, Stepping
<1>4. TypeOK'
  BY <1>1, <1>2, <1>5 DEF Fail, TypeOK
<1> QED
  BY <1>3, <1>4 DEF WithinHorizon

\* Every move of an episode's goroutine keeps types, its trace within the
\* horizon, and, in the loop, short of it.
LEMMA EpisodeType ==
  ASSUME TypeOK, WithinHorizon, NEW i \in Ids, Episode(i)
  PROVE  TypeOK' /\ WithinHorizon'
<1> USE DEF Goto
<1>0. UNCHANGED <<mainVars, interrupted, expired, res, crashed>>
  BY DEF Episode
<1>1. CASE Fail(i)
  BY <1>0, <1>1, FailType
<1>2. CASE ~Fail(i) /\ (EnterReset(i) \/ CheckStep(i) \/ Finish(i))
  BY <1>0, <1>2
  DEF EnterReset, CheckStep, Finish, TypeOK, WithinHorizon, Places, InLoopBody, Stepping
<1>3. CASE ~Fail(i) /\ Iterate(i)
  BY <1>0, <1>3, EpisodesAssumption
  DEF Iterate, Remaining, TypeOK, WithinHorizon, Places, InLoopBody, Stepping
<1>4. CASE PrepareSend(i)
  BY <1>0, <1>4 DEF PrepareSend, TypeOK, WithinHorizon, Places, InLoopBody, Stepping
<1>5. CASE FirstTick(i) \/ NextTick(i) \/ StepComputed(i)
  <2>1. base' \in [Ids -> SUBSET Ids] /\ calls' \in [Ids -> 0..MaxCalls]
    <3>1. /\ base \in [Ids -> SUBSET Ids] /\ calls \in [Ids -> 0..MaxCalls]
          /\ env \subseteq Ids /\ saved \subseteq Ids
      BY DEF TypeOK
    <3>2. CASE base' = base /\ calls' = [calls EXCEPT ![i] = 0]
      BY <3>1, <3>2, EpisodesAssumption
    <3>3. ASSUME NEW S \in SUBSET Ids, base' = [base EXCEPT ![i] = @ \union S], calls' = calls
          PROVE  base' \in [Ids -> SUBSET Ids] /\ calls' \in [Ids -> 0..MaxCalls]
      BY <3>1, <3>3
    <3> QED
      BY <1>5, <3>1, <3>2, <3>3 DEF FirstTick, NextTick, StepComputed
  <2>2. at' \in [Ids -> Places]
    BY <1>5 DEF FirstTick, NextTick, StepComputed, TypeOK, Places
  <2>3. UNCHANGED <<state, trace, shared>>
    BY <1>5 DEF FirstTick, NextTick, StepComputed
  <2>4. TypeOK'
    BY <1>0, <2>1, <2>2, <2>3 DEF TypeOK
  <2>5. WithinHorizon'
    BY <1>5 DEF FirstTick, NextTick, StepComputed, TypeOK, WithinHorizon, InLoopBody,
                Stepping
  <2> QED
    BY <2>4, <2>5
<1>6. CASE Update(i)
  <2>1. late' \in [Ids -> [Kinds -> Nat]]
    BY <1>6, WriteCounts, KindsOf DEF Update, Writes
  <2>2. Len(trace[i]) < Horizon
    BY <1>6 DEF Update, WithinHorizon, InLoopBody
  <2>3. /\ trace' \in [Ids -> Seq(SUBSET Ids)]
        /\ \A j \in Ids : Len(trace'[j]) <= Horizon
    <3>1. /\ Append(trace[i], state[i]) \in Seq(SUBSET Ids)
          /\ Len(Append(trace[i], state[i])) <= Horizon
      <4>1. trace[i] \in Seq(SUBSET Ids) /\ state[i] \in SUBSET Ids
        BY DEF TypeOK
      <4>2. Len(trace[i]) \in Nat /\ Horizon \in Nat
        BY <4>1, EpisodesAssumption
      <4> QED
        BY <2>2, <4>1, <4>2, AppendSeq
    <3> QED
      BY <1>6, <3>1 DEF Update, TypeOK
  <2>4. at' \in [Ids -> Places] /\ state' \in [Ids -> SUBSET Ids]
    BY <1>6 DEF Update, Writes, TypeOK, Places
  <2>5. TypeOK'
    BY <1>0, <1>6, <2>1, <2>3, <2>4 DEF Update, TypeOK
  <2>6. WithinHorizon'
    BY <1>6 DEF Update, Writes, TypeOK, WithinHorizon, InLoopBody, Stepping
  <2> QED
    BY <2>5, <2>6
<1>7. CASE ResetSystem(i) \/ StoreReset(i) \/ SaveReset(i) \/ EnterStep(i)
           \/ SystemCall(i) \/ SaveMessages(i) \/ StoreState(i) \/ Learn(i)
           \/ Stop(i)
  <2>1. late' \in [Ids -> [Kinds -> Nat]]
    <3>1. CASE late' = late
      BY <3>1 DEF TypeOK
    <3>2. CASE \E kind \in Kinds : Write(i, kind)
      BY <3>2, WriteCounts
    <3> QED
      BY <1>7, <3>1, <3>2, KindsOf
      DEF ResetSystem, StoreReset, SaveReset, EnterStep, SystemCall, SaveMessages,
          StoreState, Learn, Stop, Writes
  <2>2. env' \subseteq Ids /\ sys' \subseteq Ids /\ saved' \subseteq Ids
    <3>1. base[i] \subseteq Ids
      BY DEF TypeOK
    <3> QED
      BY <1>7, <3>1
      DEF ResetSystem, StoreReset, SaveReset, EnterStep, SystemCall, SaveMessages,
          StoreState, Learn, Stop, FreshSystem, TypeOK
  <2>3. /\ state' \in [Ids -> SUBSET Ids] /\ base' \in [Ids -> SUBSET Ids]
        /\ calls' \in [Ids -> 0..MaxCalls]
    <3>5. /\ base \in [Ids -> SUBSET Ids] /\ calls \in [Ids -> 0..MaxCalls]
          /\ state \in [Ids -> SUBSET Ids] /\ MaxCalls \in Nat
          /\ env \subseteq Ids /\ {} \subseteq Ids /\ base[i] \subseteq Ids
      BY EpisodesAssumption DEF TypeOK
    <3>6. base[i] \union sys' \subseteq Ids
      BY <2>2, <3>5
    <3>1. CASE ResetSystem(i) \/ SystemCall(i)
      <4>1. ASSUME NEW S \in SUBSET Ids, base' = [base EXCEPT ![i] = S]
            PROVE  base' \in [Ids -> SUBSET Ids]
        BY <3>5, <4>1
      <4>2. base' \in [Ids -> SUBSET Ids]
        BY <2>2, <3>1, <3>6, <4>1 DEF ResetSystem, SystemCall
      <4>3. state' = state /\ calls' \in [Ids -> 0..MaxCalls]
        BY <3>1, <3>5 DEF ResetSystem, SystemCall
      <4> QED
        BY <3>5, <4>2, <4>3
    <3>2. CASE StoreReset(i) \/ EnterStep(i)
      BY <3>2, <3>5 DEF StoreReset, EnterStep
    <3>7. CASE SaveReset(i)
      BY <3>5, <3>7 DEF SaveReset, Forget
    <3>3. CASE StoreState(i)
      BY <2>2, <3>3, <3>5 DEF StoreState, Forget
    <3>4. CASE SaveMessages(i) \/ Learn(i) \/ Stop(i)
      BY <3>4 DEF SaveMessages, Learn, Stop, TypeOK
    <3> QED
      BY <1>7, <3>1, <3>2, <3>3, <3>4, <3>7
  <2>4. trace' = trace /\ learned' \subseteq Ids
    BY <1>7
    DEF ResetSystem, StoreReset, SaveReset, EnterStep, SystemCall, SaveMessages,
        StoreState, Learn, Stop, TypeOK
  <2>5. /\ at' \in [Ids -> Places]
        /\ \A j \in Ids : at'[j] \in InLoopBody
                            => at[j] \in InLoopBody
    BY <1>7
    DEF ResetSystem, StoreReset, SaveReset, EnterStep, SystemCall, SaveMessages,
        StoreState, Learn, Stop, Writes, TypeOK, Places, InLoopBody, Stepping
  <2>6. TypeOK'
    BY <1>0, <2>1, <2>2, <2>3, <2>4, <2>5 DEF TypeOK
  <2> QED
    BY <2>4, <2>5, <2>6 DEF WithinHorizon
<1> QED
  BY <1>1, <1>2, <1>3, <1>4, <1>5, <1>6, <1>7 DEF Episode, StepFails

LEMMA NextType == IInv /\ [Next]_vars => TypeOK' /\ WithinHorizon' /\ InLoop'
<1> SUFFICES ASSUME IInv, [Next]_vars PROVE TypeOK' /\ WithinHorizon' /\ InLoop'
  OBVIOUS
<1> USE DEF IInv
<1>1. CASE StartEpisode
  <2>1. episode + 1 \in Ids
    BY <1>1, EpisodesAssumption DEF StartEpisode, TypeOK
  <2>2. at' \in [Ids -> Places]
    BY <1>1, <2>1 DEF StartEpisode, TypeOK, Places
  <2>3. TypeOK'
    <3>1. TypeOK /\ episode' \in 0..Episodes
      BY <1>1, <2>1, EpisodesAssumption DEF StartEpisode
    <3> HIDE DEF IInv
    <3> QED
      BY <1>1, <2>2, <3>1 DEF StartEpisode, TypeOK
  <2>4. WithinHorizon'
    BY <1>1 DEF StartEpisode, TypeOK, WithinHorizon, InLoopBody, Stepping
  <2>5. InLoop'
    <3> HIDE DEF IInv
    <3> QED
      BY <1>1, <2>1 DEF StartEpisode, InLoop
  <2> QED
    BY <2>3, <2>4, <2>5
<1>2. CASE SkipEpisode
  <2>1. TypeOK /\ WithinHorizon
    OBVIOUS
  <2> HIDE DEF IInv
  <2>2. episode' \in 0..Episodes /\ main = "next"
    BY <1>2, <2>1, EpisodesAssumption DEF SkipEpisode, TypeOK
  <2> QED
    BY <1>2, <2>1, <2>2 DEF SkipEpisode, TypeOK, WithinHorizon, InLoop
<1>3. CASE Return \/ Close
  BY <1>3 DEF Return, Close, TypeOK, WithinHorizon, InLoop
<1>4. CASE CountTimeOut \/ Cancel \/ Expire \/ Interrupt
  BY <1>4 DEF CountTimeOut, Cancel, Expire, Interrupt, TypeOK, WithinHorizon, InLoop
<1>5. CASE Receive
  <2>1. episode \in Ids /\ res[episode] \in Seq(Results) /\ res[episode] # <<>>
    BY <1>5 DEF Receive, TypeOK, InLoop
  <2>2. /\ Head(res[episode]) \in Results
        /\ Tail(res[episode]) \in Seq(Results)
        /\ Len(Tail(res[episode])) <= 1
    BY <2>1 DEF TypeOK
  <2>3. traces' \in Seq(Results)
    BY <1>5, <2>2 DEF Receive, TypeOK
  <2>4. res' \in [Ids -> Seq(Results)] /\ \A i \in Ids : Len(res'[i]) <= 1
    BY <1>5, <2>2 DEF Receive, TypeOK
  <2> QED
    BY <1>5, <2>3, <2>4 DEF Receive, TypeOK, WithinHorizon, InLoop
<1>6. ASSUME NEW i \in Ids, Episode(i) PROVE TypeOK' /\ WithinHorizon' /\ InLoop'
  BY <1>6, EpisodeType DEF Episode, InLoop
<1>7. ASSUME NEW i \in Ids, Send(i) PROVE TypeOK' /\ WithinHorizon' /\ InLoop'
  <2>1. res[i] = <<>>
    BY <1>7 DEF Send, SentLast
  <2>2. Completed(i) \in Results /\ Nil \in Results
    <3>1. i \in 0..Episodes /\ 0 \in 0..Episodes
      BY EpisodesAssumption
    <3>2. trace[i] \in Seq(SUBSET Ids) /\ <<>> \in Seq(SUBSET Ids)
      BY EmptySeq DEF TypeOK
    <3> QED
      BY <3>1, <3>2 DEF Completed, Nil, Results
  <2>8. <<Completed(i)>> \in Seq(Results) /\ <<Nil>> \in Seq(Results)
    BY <2>2, OneSeq
  <2>9. /\ Append(res[i], Completed(i)) = <<Completed(i)>>
        /\ Append(res[i], Nil) = <<Nil>>
        /\ Len(<<Completed(i)>>) = 1 /\ Len(<<Nil>>) = 1
    BY <2>1, <2>2
  <2>3. res' \in [Ids -> Seq(Results)] /\ \A j \in Ids : Len(res'[j]) <= 1
    <3>1. CASE res' = res
      BY <3>1 DEF TypeOK
    <3>2. ASSUME NEW r \in Seq(Results), Len(r) = 1, res' = [res EXCEPT ![i] = r]
          PROVE  res' \in [Ids -> Seq(Results)] /\ \A j \in Ids : Len(res'[j]) <= 1
      <4>1. res \in [Ids -> Seq(Results)] /\ \A j \in Ids : Len(res[j]) <= 1
        BY DEF TypeOK
      <4> HIDE DEF IInv
      <4>2. \A j \in Ids : res'[j] = IF j = i THEN r ELSE res[j]
        BY <3>2, <4>1
      <4>3. res' \in [Ids -> Seq(Results)]
        BY <3>2, <4>1
      <4>4. ASSUME NEW j \in Ids PROVE Len(res'[j]) <= 1
        <5>1. res'[j] = r \/ res'[j] = res[j]
          BY <4>2
        <5>2. Len(r) <= 1 /\ Len(res[j]) <= 1
          BY <3>2, <4>1
        <5> QED
          BY <5>1, <5>2
      <4> QED
        BY <4>3, <4>4
    <3> QED
      BY <1>7, <2>8, <2>9, <3>1, <3>2 DEF Send
  <2>4. at' \in [Ids -> Places]
    BY <1>7 DEF Send, Goto, TypeOK, Places
  <2>5. TypeOK' /\ InLoop'
    BY <1>7, <2>3, <2>4 DEF Send, TypeOK, InLoop
  <2>6. WithinHorizon'
    BY <1>7 DEF Send, Goto, TypeOK, WithinHorizon, InLoopBody, Stepping
  <2> QED
    BY <2>5, <2>6
<1>8. CASE UNCHANGED vars
  BY <1>8 DEF TypeOK, WithinHorizon, InLoop
<1> QED
  BY <1>1, <1>2, <1>3, <1>4, <1>5, <1>6, <1>7, <1>8 DEF Next, Main

\* Nothing but StartEpisode wakes the goroutine of an episode to come, and only
\* main's own step moves the loop.
LEMMA EpisodeQuiet ==
  ASSUME TypeOK, NEW i \in Ids, Episode(i)
  PROVE  /\ at[i] \notin {"none", "ended"}
         /\ \A j \in Ids \ {i} : /\ at'[j] = at[j] /\ late'[j] = late[j]
                                 /\ trace'[j] = trace[j] /\ calls'[j] = calls[j]
         /\ learned \subseteq learned'
         /\ UNCHANGED <<mainVars, interrupted, expired, res, crashed>>
<1>1. \A kind \in Kinds : Write(i, kind) => \A j \in Ids \ {i} : late'[j] = late[j]
  BY WriteCounts
<1>2. /\ at \in [Ids -> Places] /\ calls \in [Ids -> 0..MaxCalls]
      /\ trace \in [Ids -> Seq(SUBSET Ids)]
  BY DEF TypeOK
<1> USE <1>1, <1>2, KindsOf DEF Goto, Writes, Fail, Forget
<1>3. CASE EnterReset(i) \/ Iterate(i) \/ StepFails(i) \/ CheckStep(i) \/ Finish(i)
  BY <1>3 DEF EnterReset, Iterate, StepFails, Stepping, CheckStep, Finish, Episode
<1>4. CASE ResetSystem(i) \/ StoreReset(i) \/ SaveReset(i) \/ Stop(i)
  BY <1>4 DEF ResetSystem, StoreReset, SaveReset, Stop, Episode
<1>5. CASE EnterStep(i) \/ SystemCall(i) \/ SaveMessages(i) \/ StoreState(i)
  BY <1>5 DEF EnterStep, SystemCall, SaveMessages, StoreState, Episode
<1>6. CASE FirstTick(i) \/ NextTick(i) \/ StepComputed(i) \/ PrepareSend(i)
  BY <1>6 DEF FirstTick, NextTick, StepComputed, Stepping, PrepareSend, Episode
<1>7. CASE Update(i) \/ Learn(i)
  BY <1>7 DEF Update, Learn, Episode
<1> QED
  BY <1>3, <1>4, <1>5, <1>6, <1>7 DEF Episode

LEMMA NextFuture == IInv /\ [Next]_vars => Future' /\ SentLast'
<1> SUFFICES ASSUME IInv, [Next]_vars PROVE Future' /\ SentLast'
  OBVIOUS
<1> USE DEF IInv
<1>1. CASE StartEpisode
  <2>1. /\ episode \in Nat /\ episode' = episode + 1 /\ episode + 1 \in Ids
        /\ at' = [at EXCEPT ![episode + 1] = "start"] /\ at \in [Ids -> Places]
        /\ late' = late /\ trace' = trace /\ res' = res
    BY <1>1, EpisodesAssumption DEF StartEpisode, TypeOK
  <2> QED
    BY <2>1 DEF Future, SentLast
<1>6. CASE SkipEpisode
  BY <1>6 DEF SkipEpisode, TypeOK, Future, SentLast
<1>2. CASE Return \/ CountTimeOut \/ Cancel \/ Close \/ Expire \/ Interrupt
           \/ UNCHANGED vars
  BY <1>2 DEF Return, CountTimeOut, Cancel, Close, Expire, Interrupt, Future, SentLast
<1>3. CASE Receive
  BY <1>3 DEF Receive, TypeOK, InLoop, Future, SentLast
<1>4. ASSUME NEW i \in Ids, Episode(i) PROVE Future' /\ SentLast'
  BY <1>4, EpisodeQuiet DEF Future, SentLast
<1>5. ASSUME NEW i \in Ids, Send(i) PROVE Future' /\ SentLast'
  BY <1>5 DEF Send, Goto, TypeOK, Future, SentLast
<1> QED
  BY <1>1, <1>2, <1>3, <1>4, <1>5, <1>6 DEF Next, Main

\* The counts when a goroutine may write again: it was in time at its last look.
LEMMA InTimeIsNone ==
  ASSUME LateInSegment, NEW i \in Ids, InTime(i)
  PROVE  None(late[i])
  BY DEF LateInSegment, InTime

\* A goroutine's first write after its deadline.
LEMMA FirstLate ==
  ASSUME TypeOK, NEW i \in Ids, NEW kind \in Kinds, Write(i, kind), None(late[i])
  PROVE  \/ None(late'[i])
         \/ i \in expired /\ Only(late'[i], {kind}) /\ late'[i][kind] = 1
<1>1. late[i][kind] = 0 /\ \A k \in Kinds : late[i][k] = 0
  BY DEF None
<1> QED
  BY <1>1, WriteCounts DEF None, Only

\* Looks and failures count nothing; what was counted stays where it may be.
LEMMA QuietLate ==
  ASSUME NEW i \in Ids, NEW place, NEW n,
         None(late[i]) \/ (i \in expired /\ LateSince(late[i], at[i], calls[i])),
         at[i] \in BeforeLook \union Stepping, place \in BeforeLook
  PROVE  None(late[i]) \/ (i \in expired /\ LateSince(late[i], place, n))
<1>1. at[i] \notin {"storingReset", "savingReset"}
  BY DEF BeforeLook, Stepping
<1>2. place \notin {"storingReset", "savingReset", "stepping", "ticking"}
  BY DEF BeforeLook
<1> QED
  BY <1>1, <1>2, KindsOf DEF LateSince, LateReset, LateTick, LateState, LatePolicy

LEMMA NextLate == IInv /\ [Next]_vars => LateInSegment'
<1> SUFFICES ASSUME IInv, [Next]_vars PROVE LateInSegment'
  OBVIOUS
<1> USE DEF IInv
<1>1. CASE StartEpisode
  BY <1>1 DEF StartEpisode, TypeOK, Future, LateInSegment, None
<1>2. CASE SkipEpisode \/ Return \/ CountTimeOut \/ Receive \/ Cancel \/ Close
           \/ Expire \/ Interrupt \/ UNCHANGED vars
  BY <1>2 DEF SkipEpisode, Return, CountTimeOut, Receive, Cancel, Close, Expire,
              Interrupt, LateInSegment
<1>3. ASSUME NEW i \in Ids, Episode(i) PROVE LateInSegment'
  <2> DEFINE Now(l, place, n) == \/ None(l)
                                 \/ i \in expired /\ LateSince(l, place, n)
  <2>1. /\ at \in [Ids -> Places] /\ late \in [Ids -> [Kinds -> Nat]]
        /\ calls \in [Ids -> 0..MaxCalls]
        /\ Now(late[i], at[i], calls[i]) /\ TypeOK
    BY DEF TypeOK, LateInSegment
  <2>2. SUFFICES Now(late'[i], at'[i], calls'[i])
    BY <1>3, EpisodeQuiet DEF LateInSegment
  <2>3. InTime(i) => None(late[i])
    BY InTimeIsNone
  <2>4. \A kind \in Kinds :
          Write(i, kind) /\ None(late[i]) =>
            \/ None(late'[i])
            \/ i \in expired /\ Only(late'[i], {kind}) /\ late'[i][kind] = 1
    BY <2>1, FirstLate
  <2>5. at[i] \in {"start", "resetting", "choosing", "storing", "updating", "learning"}
          => None(late[i])
    BY <2>1 DEF LateSince, LateReset, LateTick, LateState, LatePolicy, BeforeLook
  <2>6. \A place, n : at[i] \in BeforeLook \union Stepping /\ place \in BeforeLook
                      => Now(late[i], place, n)
    BY <2>1, QuietLate
  <2> HIDE DEF IInv
  <2>7. CASE Fail(i)
    <3>1. late' = late /\ at'[i] = "failed"
      BY <2>1, <2>7 DEF Fail, Goto
    <3>2. at[i] \in {"start", "top", "stepped", "final"} \union Stepping
      BY <1>3, <2>1, <2>7
      DEF Episode, Fail, Goto, EnterReset, Iterate, StepFails, CheckStep, Finish,
          ResetSystem, StoreReset, SaveReset, Stop, EnterStep, FirstTick, NextTick,
          SystemCall, SaveMessages, StepComputed, StoreState, Update, Learn,
          PrepareSend, Writes
    <3>3. None(late[i]) \/ at[i] \in BeforeLook \union Stepping
      BY <2>5, <3>2 DEF BeforeLook
    <3>4. Now(late[i], "failed", calls'[i])
      BY <2>6, <3>3 DEF BeforeLook
    <3> QED
      BY <3>1, <3>4
  <2>8. CASE ~Fail(i) /\ (EnterReset(i) \/ Iterate(i) \/ CheckStep(i) \/ Finish(i)
                           \/ PrepareSend(i))
    <3>1. late' = late
      BY <2>8 DEF EnterReset, Iterate, CheckStep, Finish, PrepareSend
    <3>2. \/ InTime(i)
          \/ at[i] \in BeforeLook /\ at'[i] \in BeforeLook
      BY <2>1, <2>8 DEF EnterReset, Iterate, CheckStep, Finish, PrepareSend, Goto, GoesOn,
                       BeforeLook
    <3> QED
      BY <2>3, <2>6, <3>1, <3>2
  <2>9. CASE FirstTick(i) \/ NextTick(i) \/ StepComputed(i)
    BY <2>3, <2>9 DEF FirstTick, NextTick, StepComputed
  <2>10. CASE ResetSystem(i)
    <3>1. Write(i, "reset") /\ None(late[i]) /\ at'[i] = "storingReset"
      BY <2>1, <2>5, <2>10 DEF ResetSystem, Writes, Goto
    <3> QED
      BY <2>4, <3>1, KindsOf DEF LateSince, LateReset
  <2>11. CASE StoreReset(i) \/ SaveReset(i)
    <3> DEFINE before == IF at[i] = "storingReset" THEN 1 ELSE 2
               after == IF at[i] = "storingReset" THEN "savingReset" ELSE "top"
    <3>1. /\ Write(i, "reset") /\ at'[i] = after
          /\ at[i] \in {"storingReset", "savingReset"}
      BY <2>1, <2>11 DEF StoreReset, SaveReset, Writes, Goto
    <3>2. CASE None(late[i])
      BY <2>4, <3>1, <3>2, KindsOf DEF LateSince, LateReset, BeforeLook
    <3>3. CASE i \in expired /\ Only(late[i], {"reset"}) /\ late[i]["reset"] <= before
      <4>1. late'[i]["reset"] = late[i]["reset"] + 1 /\ late[i]["reset"] \in Nat
        BY <2>1, <3>1, <3>3, WriteCounts, KindsOf
      <4>2. Only(late'[i], {"reset"})
        BY <2>1, <3>1, <3>3, WriteCounts, KindsOf DEF Only
      <4>3. LateReset(late'[i], after)
        BY <3>1, <3>3, <4>1, <4>2 DEF LateReset, BeforeLook
      <4> QED
        BY <3>1, <3>3, <4>3 DEF LateSince
    <3> QED
      BY <2>1, <3>1, <3>2, <3>3
      DEF LateSince, LateReset, LateTick, LateState, LatePolicy, BeforeLook
  <2>12. CASE Stop(i) \/ EnterStep(i)
    <3>1. /\ None(late[i]) /\ (Write(i, "choice") \/ late' = late)
          /\ at'[i] \in {"final", "stepping"} /\ calls'[i] = calls[i]
      BY <2>1, <2>5, <2>12 DEF Stop, EnterStep, Writes, Goto
    <3>2. CASE None(late'[i])
      BY <3>2
    <3>3. CASE i \in expired /\ Only(late'[i], {"choice"}) /\ late'[i]["choice"] = 1
      <4>1. late'[i]["system"] = 0 /\ late'[i]["messages"] = 0
        BY <3>3, KindsOf DEF Only
      <4>2. Only(late'[i], {"choice", "system", "messages"})
        BY <3>3 DEF Only
      <4>3. calls[i] \in Nat /\ 0 <= calls[i] /\ 0 <= MaxCalls
        BY <2>1, EpisodesAssumption
      <4>4. LateTick(late'[i], at'[i], calls'[i])
        BY <3>1, <3>3, <4>1, <4>2, <4>3 DEF LateTick, BeforeLook
      <4> QED
        BY <3>3, <4>4 DEF LateSince
    <3> QED
      BY <2>4, <3>1, <3>2, <3>3, KindsOf
  <2>13. CASE SystemCall(i) \/ SaveMessages(i)
    <3>1. \/ /\ Write(i, "system") /\ calls'[i] = calls[i] + 1 /\ calls[i] < MaxCalls
             /\ at'[i] = "ticking"
          \/ Write(i, "messages") /\ calls' = calls /\ at'[i] = "computing"
      BY <2>1, <2>13 DEF SystemCall, SaveMessages, Writes, Goto
    <3>2. at[i] \in {"stepping", "ticking"} /\ calls[i] \in 0..MaxCalls /\ MaxCalls \in Nat
      BY <2>1, <2>13, EpisodesAssumption DEF SystemCall, SaveMessages
    <3>3. CASE i \notin expired
      <4>1. None(late[i])
        BY <2>1, <3>3
      <4> QED
        BY <2>4, <3>1, <3>3, <4>1, KindsOf
    <3>4. CASE i \in expired
      <4>1. /\ Only(late[i], {"choice", "system", "messages"})
            /\ late[i]["choice"] <= 1 /\ late[i]["system"] <= calls[i]
            /\ late[i]["messages"] = 0
        <5>1. CASE None(late[i])
          BY <3>2, <5>1, KindsOf DEF None, Only
        <5>2. CASE LateSince(late[i], at[i], calls[i])
          BY <3>2, <5>2
          DEF LateSince, LateReset, LateTick, LateState, LatePolicy, BeforeLook
        <5> QED
          BY <2>1, <5>1, <5>2
      <4>2. late[i]["system"] \in Nat /\ late[i]["choice"] \in Nat
        BY <2>1, KindsOf
      <4>3. CASE Write(i, "system") /\ calls'[i] = calls[i] + 1 /\ calls[i] < MaxCalls
                 /\ at'[i] = "ticking"
        <5>1. /\ late'[i]["system"] = late[i]["system"] + 1
              /\ \A k \in Kinds \ {"system"} : late'[i][k] = late[i][k]
          BY <2>1, <3>4, <4>3, WriteCounts, KindsOf
        <5>2. /\ late'[i]["choice"] = late[i]["choice"]
              /\ late'[i]["messages"] = late[i]["messages"]
              /\ Only(late'[i], {"choice", "system", "messages"})
          BY <4>1, <5>1, KindsOf DEF Only
        <5>3. late'[i]["system"] <= calls'[i] /\ late'[i]["system"] <= MaxCalls
          BY <3>2, <4>1, <4>2, <4>3, <5>1
        <5>4. LateTick(late'[i], at'[i], calls'[i])
          BY <4>1, <4>3, <5>2, <5>3 DEF LateTick
        <5> QED
          BY <3>4, <5>4 DEF LateSince
      <4>4. CASE Write(i, "messages") /\ calls' = calls /\ at'[i] = "computing"
        <5>1. /\ late'[i]["messages"] = late[i]["messages"] + 1
              /\ \A k \in Kinds \ {"messages"} : late'[i][k] = late[i][k]
          BY <2>1, <3>4, <4>4, WriteCounts, KindsOf
        <5>2. /\ late'[i]["choice"] = late[i]["choice"]
              /\ late'[i]["system"] = late[i]["system"]
              /\ Only(late'[i], {"choice", "system", "messages"})
          BY <4>1, <5>1, KindsOf DEF Only
        <5>3. late'[i]["messages"] <= 1 /\ late'[i]["system"] <= MaxCalls
          BY <3>2, <4>1, <4>2, <5>1, <5>2
        <5>4. LateTick(late'[i], at'[i], calls'[i])
          BY <4>1, <4>4, <5>2, <5>3 DEF LateTick
        <5> QED
          BY <3>4, <5>4 DEF LateSince
      <4> QED
        BY <3>1, <4>3, <4>4
    <3> QED
      BY <3>3, <3>4
  <2>14. CASE StoreState(i) \/ Update(i) \/ Learn(i)
    <3>1. /\ None(late[i]) /\ at'[i] \in BeforeLook
          /\ Write(i, "state") \/ Write(i, "policy")
      BY <2>1, <2>5, <2>14 DEF StoreState, Update, Learn, Writes, Goto, BeforeLook
    <3> QED
      BY <2>4, <3>1, KindsOf DEF LateSince, LateState, LatePolicy
  <2> QED
    BY <1>3, <2>7, <2>8, <2>9, <2>10, <2>11, <2>12, <2>13, <2>14 DEF Episode, StepFails
<1>4. ASSUME NEW i \in Ids, Send(i) PROVE LateInSegment'
  <2>1. UNCHANGED <<expired, late, calls>> /\ at \in [Ids -> Places] /\ LateInSegment
    BY <1>4 DEF Send, TypeOK
  <2>2. at' = at \/ (at' = [at EXCEPT ![i] = "ended"] /\ at[i] \in {"sending", "sendingNil"})
    BY <1>4 DEF Send, Goto
  <2>3. at[i] \in {"sending", "sendingNil"} => None(late[i])
    BY <2>1 DEF LateInSegment, LateSince, LateReset, LateTick, LateState, LatePolicy,
               BeforeLook
  <2> HIDE DEF IInv
  <2> QED
    BY <2>1, <2>2, <2>3 DEF LateInSegment
<1> QED
  BY <1>1, <1>2, <1>3, <1>4 DEF Next, Main

\* main takes the only result there is, and a goroutine sends the only one.
LEMMA ReceiveShape ==
  ASSUME IInv, Receive
  PROVE  /\ episode \in Ids /\ 1 \in DOMAIN res[episode]
         /\ traces' = Append(traces, res[episode][1])
         /\ res' = [res EXCEPT ![episode] = <<>>]
<1>1. episode \in Ids /\ res[episode] \in Seq(Results) /\ Len(res[episode]) <= 1
  BY DEF IInv, TypeOK, InLoop, Receive
<1>2. res[episode] # <<>>
  BY DEF Receive
<1>4. /\ Head(res[episode]) = res[episode][1] /\ 1 \in DOMAIN res[episode]
      /\ Tail(res[episode]) = <<>>
  BY <1>1, <1>2, SingleSeq
<1> QED
  BY <1>1, <1>4 DEF Receive

LEMMA SendShape ==
  ASSUME IInv, NEW i \in Ids, Send(i)
  PROVE  \/ UNCHANGED <<at, res>>
         \/ /\ at' = [at EXCEPT ![i] = "ended"]
            /\ \/ at[i] = "sending" /\ res' = [res EXCEPT ![i] = <<Completed(i)>>]
               \/ at[i] = "sendingNil" /\ res' = [res EXCEPT ![i] = <<Nil>>]
<1>1. res[i] = <<>>
  BY DEF IInv, SentLast, Send
<1>2. \A x : Append(<<>>, x) = <<x>>
  OBVIOUS
<1> QED
  BY <1>1, <1>2 DEF Send, Goto

LEMMA AppendTrace ==
  ASSUME IInv, NEW r \in Results, traces' = Append(traces, r), NEW k \in DOMAIN traces'
  PROVE  traces'[k] = r \/ (k \in DOMAIN traces /\ traces'[k] = traces[k])
  BY AppendSeq DEF IInv, TypeOK

LEMMA NextLearned == IInv /\ [Next]_vars => SentIsLearned' /\ RecordedIsLearned'
<1> SUFFICES ASSUME IInv, [Next]_vars PROVE SentIsLearned' /\ RecordedIsLearned'
  OBVIOUS
<1>1. /\ at \in [Ids -> Places] /\ res \in [Ids -> Seq(Results)]
      /\ SentIsLearned /\ RecordedIsLearned
  BY DEF IInv, TypeOK
<1> USE <1>1 DEF SentIsLearned, RecordedIsLearned
<1>2. CASE StartEpisode
  BY <1>2 DEF StartEpisode
<1>3. CASE SkipEpisode \/ Return \/ CountTimeOut \/ Cancel \/ Close \/ Expire
           \/ Interrupt \/ UNCHANGED vars
  BY <1>3 DEF SkipEpisode, Return, CountTimeOut, Cancel, Close, Expire, Interrupt
<1>4. CASE Receive
  <2>1. \A k \in DOMAIN traces' : \/ traces'[k] = res[episode][1]
                                  \/ k \in DOMAIN traces /\ traces'[k] = traces[k]
    BY <1>4, ReceiveShape, AppendTrace
  <2>2. res[episode][1] = Nil \/ res[episode][1].of \in learned
    BY <1>4, ReceiveShape
  <2>3. RecordedIsLearned'
    BY <1>4, <2>1, <2>2 DEF Receive
  <2>4. \A i \in Ids : res'[i] = res[i] \/ res'[i] = <<>>
    BY <1>4, ReceiveShape
  <2> QED
    BY <1>4, <2>3, <2>4 DEF Receive
<1>5. ASSUME NEW i \in Ids, Episode(i) PROVE SentIsLearned' /\ RecordedIsLearned'
  <2>1. /\ \A j \in Ids \ {i} : at'[j] = at[j]
        /\ learned \subseteq learned' /\ UNCHANGED <<res, traces>>
    BY <1>5, EpisodeQuiet DEF IInv
  <2>2. at'[i] \in {"done", "sending"} => i \in learned'
    <3> USE DEF Goto
    <3>1. CASE Fail(i) \/ EnterReset(i) \/ CheckStep(i) \/ Finish(i) \/ Iterate(i)
      BY <3>1 DEF Fail, EnterReset, CheckStep, Finish, Iterate
    <3>2. CASE ResetSystem(i) \/ StoreReset(i) \/ SaveReset(i) \/ StoreState(i)
               \/ Update(i) \/ Learn(i)
      BY <3>2 DEF ResetSystem, StoreReset, SaveReset, StoreState, Update, Learn, Writes
    <3>3. CASE Stop(i) \/ EnterStep(i) \/ SystemCall(i) \/ SaveMessages(i)
      BY <3>3 DEF Stop, EnterStep, SystemCall, SaveMessages, Writes
    <3>4. CASE FirstTick(i) \/ NextTick(i) \/ StepComputed(i) \/ PrepareSend(i)
      BY <3>4 DEF FirstTick, NextTick, StepComputed, PrepareSend, shared
    <3> QED
      BY <1>5, <3>1, <3>2, <3>3, <3>4 DEF Episode, StepFails
  <2> QED
    BY <2>1, <2>2
<1>6. ASSUME NEW i \in Ids, Send(i) PROVE SentIsLearned' /\ RecordedIsLearned'
  <2>1. UNCHANGED <<learned, traces>>
    BY <1>6 DEF Send
  <2>2. CASE UNCHANGED <<at, res>>
    BY <2>1, <2>2
  <2>3. ASSUME at' = [at EXCEPT ![i] = "ended"], NEW r, res' = [res EXCEPT ![i] = <<r>>],
               r = Nil \/ (r.of = i /\ i \in learned)
        PROVE  SentIsLearned' /\ RecordedIsLearned'
    <3>1. \A j \in Ids : res'[j] = IF j = i THEN <<r>> ELSE res[j]
      BY <2>3
    <3>2. \A k \in DOMAIN <<r>> : <<r>>[k] = r
      OBVIOUS
    <3>3. \A j \in Ids : at'[j] \in {"done", "sending"} => at'[j] = at[j]
      BY <2>3
    <3>4. \A j \in Ids : \A k \in DOMAIN res'[j] :
            res'[j][k] = Nil \/ (res'[j][k].of = j /\ j \in learned)
      BY <2>3, <3>1, <3>2
    <3> QED
      BY <2>1, <3>3, <3>4
  <2>4. Completed(i).of = i
    BY DEF Completed
  <2> QED
    BY <1>6, <2>2, <2>3, <2>4, SendShape
<1> QED
  BY <1>2, <1>3, <1>4, <1>5, <1>6 DEF Next, Main

\* main leaves an episode when it has its result or counts it as timed out.
LEMMA NextPast == IInv /\ [Next]_vars => PastAreOver'
<1> SUFFICES ASSUME IInv, [Next]_vars PROVE PastAreOver'
  OBVIOUS
<1>1. /\ at \in [Ids -> Places] /\ episode \in Nat
      /\ PastAreOver /\ Future /\ SentLast
  BY DEF IInv, TypeOK
<1> USE <1>1 DEF PastAreOver
<1>2. CASE StartEpisode
  BY <1>2 DEF StartEpisode
<1>3. CASE SkipEpisode
  BY <1>3 DEF SkipEpisode, Future
<1>4. CASE CountTimeOut
  BY <1>4 DEF CountTimeOut
<1>5. CASE Receive
  BY <1>5, ReceiveShape DEF Receive, SentLast
<1>6. CASE Return \/ Cancel \/ Close \/ Expire \/ Interrupt \/ UNCHANGED vars
  BY <1>6 DEF Return, Cancel, Close, Expire, Interrupt
<1>7. ASSUME NEW i \in Ids, Episode(i) PROVE PastAreOver'
  BY <1>7, EpisodeQuiet DEF IInv
<1>8. ASSUME NEW i \in Ids, Send(i) PROVE PastAreOver'
  BY <1>8 DEF Send, Goto
<1> QED
  BY <1>2, <1>3, <1>4, <1>5, <1>6, <1>7, <1>8 DEF Next, Main

LEMMA OwnAllAppend ==
  ASSUME NEW i \in Ids, NEW t \in Seq(SUBSET Ids), NEW h \in SUBSET Ids,
         OwnAll(i, t), Own(i, h)
  PROVE  OwnAll(i, Append(t, h))
  BY AppendSeq DEF OwnAll

\* The only goroutine that moves, while main waits and no episode before was
\* timed out, is the one main waits for.
LEMMA OnlyCurrentMoves ==
  ASSUME IInv, NEW i \in Ids, Episode(i), main = "waiting", NoneTimedOutBefore(episode)
  PROVE  i = episode
<1>1. at[i] \notin {"none", "ended"}
  BY EpisodeQuiet DEF IInv
<1>2. i \in Int /\ episode \in Int
  BY DEF IInv, TypeOK
<1>3. CASE i < episode
  BY <1>1, <1>3 DEF IInv, PastAreOver, NoneTimedOutBefore
<1>4. CASE i > episode
  BY <1>1, <1>4 DEF IInv, Future
<1> QED
  BY <1>2, <1>3, <1>4

\* What its moves do to what it works on.
LEMMA EpisodeAlone ==
  ASSUME TypeOK, NEW i \in Ids, Episode(i), Alone(i)
  PROVE  Alone(i)'
<1>1. /\ at \in [Ids -> Places] /\ trace \in [Ids -> Seq(SUBSET Ids)]
      /\ state \in [Ids -> SUBSET Ids] /\ base \in [Ids -> SUBSET Ids]
  BY DEF TypeOK
<1> USE <1>1 DEF Goto, Writes, Alone, Running, Stepping, Own
<1>2. CASE Fail(i)
  BY <1>2 DEF Fail, OwnAll
<1>3. CASE ~Fail(i) /\ (EnterReset(i) \/ CheckStep(i) \/ Finish(i) \/ Iterate(i))
  BY <1>3 DEF EnterReset, CheckStep, Finish, Iterate
<1>4. CASE Stop(i) \/ EnterStep(i) \/ PrepareSend(i) \/ Learn(i)
  BY <1>4 DEF Stop, EnterStep, PrepareSend, Learn
<1>5. CASE ResetSystem(i) \/ StoreReset(i) \/ SaveReset(i)
  BY <1>5 DEF ResetSystem, StoreReset, SaveReset, Forget, FreshSystem
<1>6. CASE FirstTick(i) \/ NextTick(i) \/ StepComputed(i)
  BY <1>6 DEF FirstTick, NextTick, StepComputed
<1>8. CASE SystemCall(i)
  <2>1. base'[i] = base[i] \union sys' /\ at'[i] = "ticking"
    BY <1>8 DEF SystemCall
  <2>2. UNCHANGED <<env, saved, state, trace>> /\ sys' = sys \union base[i] \union {i}
    BY <1>8 DEF SystemCall
  <2>3. /\ Own(i, env) /\ Own(i, sys) /\ Own(i, saved) /\ Own(i, base[i])
        /\ OwnAll(i, trace[i])
    BY <1>8 DEF SystemCall
  <2> QED
    BY <2>1, <2>2, <2>3
<1>10. CASE SaveMessages(i)
  BY <1>10 DEF SaveMessages
<1>9. CASE StoreState(i)
  BY <1>9 DEF StoreState, Forget
<1>7. CASE Update(i)
  <2>1. OwnAll(i, Append(trace[i], state[i]))
    BY <1>7, OwnAllAppend DEF Update
  <2> QED
    BY <1>7, <2>1 DEF Update
<1> QED
  BY <1>2, <1>3, <1>4, <1>5, <1>6, <1>7, <1>8, <1>9, <1>10
  DEF Episode, StepFails

LEMMA NextAlone == IInv /\ [Next]_vars => CurrentIsAlone'
<1> SUFFICES ASSUME IInv, [Next]_vars, main' = "waiting",
                    NoneTimedOutBefore(episode)'
             PROVE  /\ (Alone(episode))'
                    /\ \A k \in DOMAIN res'[episode'] : OfOneEpisode(res'[episode'][k])
  BY DEF CurrentIsAlone, Alone
<1>1. /\ at \in [Ids -> Places] /\ res \in [Ids -> Seq(Results)]
      /\ episode \in Nat /\ CurrentIsAlone /\ Future /\ SentLast
  BY DEF IInv, TypeOK
<1>2. main = "waiting" => episode \in Ids
  BY DEF IInv, InLoop
<1> USE <1>1
<1>3. CASE StartEpisode
  <2>1. episode' \in Ids /\ episode' > episode /\ at'[episode'] = "start"
    BY <1>3, EpisodesAssumption DEF StartEpisode
  <2>2. trace'[episode'] = <<>> /\ res'[episode'] = <<>>
    BY <1>3, <2>1 DEF StartEpisode, Future, SentLast
  <2> QED
    BY <2>1, <2>2 DEF Alone, Running, Stepping, OwnAll
<1>4. CASE SkipEpisode \/ Return \/ CountTimeOut \/ Receive \/ Cancel \/ Close
  BY <1>4 DEF SkipEpisode, Return, CountTimeOut, Receive, Cancel, Close
<1>5. CASE Expire \/ Interrupt \/ UNCHANGED vars
  BY <1>5 DEF Expire, Interrupt, CurrentIsAlone, Alone, NoneTimedOutBefore
<1>6. ASSUME NEW i \in Ids, Episode(i)
      PROVE  /\ (Alone(episode))'
             /\ \A k \in DOMAIN res'[episode'] : OfOneEpisode(res'[episode'][k])
  <2>1. UNCHANGED <<main, episode, timedOut, res>>
    BY <1>6, EpisodeQuiet DEF IInv
  <2>2. main = "waiting" /\ NoneTimedOutBefore(episode)
    BY <2>1 DEF NoneTimedOutBefore
  <2>3. i = episode
    BY <1>6, <2>2, OnlyCurrentMoves
  <2>4. Alone(i)
    BY <2>2, <2>3 DEF CurrentIsAlone, Alone
  <2>5. Alone(i)'
    BY <1>6, <2>4, EpisodeAlone DEF IInv
  <2> QED
    BY <2>1, <2>2, <2>3, <2>5 DEF CurrentIsAlone, Alone
<1>7. ASSUME NEW i \in Ids, Send(i)
      PROVE  /\ (Alone(episode))'
             /\ \A k \in DOMAIN res'[episode'] : OfOneEpisode(res'[episode'][k])
  <2>1. UNCHANGED <<main, episode, timedOut, environment, local>>
    BY <1>7 DEF Send
  <2>2. main = "waiting" /\ NoneTimedOutBefore(episode) /\ episode \in Ids
    BY <1>2, <2>1 DEF NoneTimedOutBefore
  <2>3. Alone(episode) /\ \A k \in DOMAIN res[episode] : OfOneEpisode(res[episode][k])
    BY <2>2 DEF CurrentIsAlone, Alone
  <2>4. (Alone(episode))'
    BY <1>7, <2>1, <2>2, <2>3 DEF Send, Goto, Alone, Running, Stepping
  <2>5. OfOneEpisode(Completed(episode)) /\ OfOneEpisode(Nil)
    BY <2>3 DEF Alone, OwnAll, Own, OfOneEpisode, Completed, Nil
  <2>6. \/ res'[episode] = res[episode]
        \/ res'[episode] = <<Completed(episode)>>
        \/ res'[episode] = <<Nil>>
    BY <1>7, <2>2, SendShape
  <2> QED
    BY <2>1, <2>3, <2>4, <2>5, <2>6
<1> QED
  BY <1>3, <1>4, <1>5, <1>6, <1>7 DEF Next, Main

LEMMA NextMixing == IInv /\ [Next]_vars => MixingNeedsTimeOut'
<1> SUFFICES ASSUME IInv, [Next]_vars PROVE MixingNeedsTimeOut'
  OBVIOUS
<1>1. /\ episode \in Nat /\ res \in [Ids -> Seq(Results)]
      /\ MixingNeedsTimeOut /\ CurrentIsAlone /\ SentIsLearned
  BY DEF IInv, TypeOK
<1> USE <1>1
<1>2. CASE Receive
  <2> DEFINE r == res[episode][1]
  <2>1. /\ episode \in Ids /\ 1 \in DOMAIN res[episode]
        /\ main = "waiting" /\ timedOut' = timedOut
        /\ \A k \in DOMAIN traces' :
             traces'[k] = r \/ (k \in DOMAIN traces /\ traces'[k] = traces[k])
    BY <1>2, ReceiveShape, AppendTrace DEF Receive
  <2>2. r = Nil \/ r.of = episode
    BY <2>1 DEF SentIsLearned
  <2>3. OfOneEpisode(Nil)
    BY DEF OfOneEpisode, Nil
  <2>4. NoneTimedOutBefore(episode) => OfOneEpisode(r)
    BY <2>1 DEF CurrentIsAlone
  <2>5. OfOneEpisode(r) \/ \E j \in timedOut : j < r.of
    BY <2>2, <2>3, <2>4 DEF NoneTimedOutBefore
  <2> QED
    BY <2>1, <2>5 DEF MixingNeedsTimeOut
<1>3. CASE ~Receive
  <2>1. traces' = traces /\ timedOut \subseteq timedOut'
    <3>1. CASE StartEpisode \/ SkipEpisode \/ Return \/ CountTimeOut \/ Cancel \/ Close
               \/ Expire \/ Interrupt \/ UNCHANGED vars
      BY <3>1 DEF StartEpisode, SkipEpisode, Return, CountTimeOut, Cancel, Close,
                  Expire, Interrupt
    <3>2. ASSUME NEW i \in Ids, Episode(i) \/ Send(i)
          PROVE  traces' = traces /\ timedOut \subseteq timedOut'
      BY <3>2 DEF Episode, Send
    <3> QED
      BY <1>3, <3>1, <3>2 DEF Next, Main
  <2> QED
    BY <2>1 DEF MixingNeedsTimeOut
<1> QED
  BY <1>2, <1>3

LEMMA Inductive == Spec => []IInv
<1>1. IInv /\ [Next]_vars => IInv'
  BY NextType, NextFuture, NextLate, NextLearned, NextPast, NextAlone, NextMixing
  DEF IInv
<1> QED
  BY <1>1, InitIInv, PTL DEF Spec

-----------------------------------------------------------------------------
\* Every variable keeps its type, no channel ever holds more than the result it
\* has room for, and no trace grows beyond the horizon.
THEOREM TypeCorrect == Spec => []TypeOK
<1>1. IInv => TypeOK
  BY DEF IInv
<1> QED
  BY <1>1, Inductive, PTL

\* However many episodes are late at a time, what each of them writes after its
\* deadline is the rest of one piece of work: of Reset, of one tick with the choice
\* before it and the messages after it, or the one write of StepCtx or the policy.
THEOREM OneSegmentAfterDeadline == Spec => []OneLateSegment
<1>1. IInv => OneLateSegment
  <2> SUFFICES ASSUME IInv, NEW i \in Ids
               PROVE  /\ \E segment \in Segments :
                           {kind \in Kinds : late[i][kind] > 0} \subseteq segment
                      /\ \A kind \in Kinds : late[i][kind] <= WritesOf(kind)
    BY DEF OneLateSegment
  <2>1. late[i] \in [Kinds -> Nat] /\ MaxCalls \in Nat
    BY EpisodesAssumption DEF IInv, TypeOK
  <2>2. None(late[i]) \/ LateSince(late[i], at[i], calls[i])
    BY DEF IInv, LateInSegment
  <2>3. \E segment \in Segments : Only(late[i], segment)
    BY <2>2 DEF Segments, None, Only, LateSince, LateReset, LateTick, LateState, LatePolicy
  <2>4. PICK segment \in Segments : Only(late[i], segment)
    BY <2>3
  <2>5. {kind \in Kinds : late[i][kind] > 0} \subseteq segment
    BY <2>4 DEF Only
  <2>6. ASSUME NEW kind \in Kinds PROVE late[i][kind] <= WritesOf(kind)
    <3>1. CASE late[i][kind] = 0
      <4>1. WritesOf(kind) \in {1, 3, MaxCalls}
        BY DEF WritesOf
      <4> QED
        BY <2>1, <3>1, <4>1
    <3>2. CASE late[i][kind] # 0
      <4>1. LateSince(late[i], at[i], calls[i])
        BY <2>2, <3>2 DEF None
      <4>2. CASE LateReset(late[i], at[i])
        <5>1. kind = "reset" /\ late[i]["reset"] <= 3
          BY <2>1, <3>2, <4>2, KindsOf DEF LateReset, Only
        <5> QED
          BY <5>1 DEF WritesOf
      <4>3. CASE LateTick(late[i], at[i], calls[i])
        <5>1. kind \in {"choice", "system", "messages"}
          BY <3>2, <4>3 DEF LateTick, Only
        <5> QED
          BY <4>3, <5>1 DEF LateTick, WritesOf
      <4>4. CASE LateState(late[i], at[i]) \/ LatePolicy(late[i], at[i])
        <5>1. kind \in {"state", "policy"} /\ late[i][kind] <= 1
          BY <3>2, <4>4 DEF LateState, LatePolicy, Only
        <5> QED
          BY <5>1 DEF WritesOf
      <4> QED
        BY <4>1, <4>2, <4>3, <4>4 DEF LateSince
    <3> QED
      BY <3>1, <3>2
  <2> QED
    BY <2>5, <2>6
<1> QED
  BY <1>1, Inductive, PTL

\* Every trace the experiment keeps was given to the policy.
THEOREM TracesAreLearned == Spec => []RecordedIsLearned
<1>1. IInv => RecordedIsLearned
  BY DEF IInv
<1> QED
  BY <1>1, Inductive, PTL

\* Without timeouts no episode works on the states of another: interrupts and
\* failing steps alone never mix two of them.
THEOREM EpisodesMixOnlyAfterTimeOut == Spec => []MixingNeedsTimeOut
<1>1. IInv => MixingNeedsTimeOut
  BY DEF IInv
<1> QED
  BY <1>1, Inductive, PTL
=============================================================================
