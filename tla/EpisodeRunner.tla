--------------------------- MODULE EpisodeRunner ---------------------------
(***************************************************************************)
(* Experiment.RunWithTimeout and the goroutine it starts for every         *)
(* episode.  The main goroutine waits for the episode's result or for the  *)
(* episode's deadline and then goes on to the next episode; it never waits *)
(* for the goroutine of an episode that is late.  All these goroutines     *)
(* share one environment and one policy, without a lock.                   *)
(*                                                                         *)
(* The environment is a PartitionEnv: a step calls the system under test   *)
(* several times, saves the messages pending in it, and only then stores   *)
(* the partition it has computed; it looks at the deadline in between.     *)
(*                                                                         *)
(* A partition, the system and the saved messages are abstracted to the    *)
(* set of the episodes whose goroutines they derive from.                  *)
(***************************************************************************)
EXTENDS Integers, Sequences

CONSTANTS Episodes,   \* AgentConfig.Episodes
          Horizon,    \* AgentConfig.Horizon
          MaxCalls    \* calls of the system between two looks at the deadline:
                      \* DeliverMessagesCtx, DropMessagesCtx and TickCtx in a
                      \* tick, StopCtx or StartCtx and TickCtx otherwise

ASSUME EpisodesAssumption ==
  Episodes \in Nat /\ Horizon \in Nat /\ MaxCalls \in Nat

VARIABLES main,         \* where the main goroutine is
          episode,      \* the iteration of its loop
          interrupted,  \* ctx.Done: the user has interrupted the program
          expired,      \* the episodes whose toCtx is done
          timedOut,     \* the episodes main has counted as timed out
          traces,       \* agent.traces
          at,           \* where the goroutine of each episode is
          state,        \* its nextState, until the trace has it
          base,         \* what its call of Reset or StepCtx has read
          calls,        \* calls of the system since its last look at the deadline
          trace,        \* its trace: the next states
          res,          \* the buffered channel res of each episode
          closed,       \* the episodes whose channel is closed
          env,          \* environment.CurPartition
          sys,          \* environment.UnderlyingEnv: the system under test
          saved,        \* environment.messages
          learned,      \* the episodes of the UpdateIteration calls
          late,         \* writes of each episode after its deadline, by kind
          crashed       \* a panic outside main: the process is gone

mainVars == <<main, episode, timedOut, traces, closed>>
environment == <<env, sys, saved>>
shared == <<environment, learned, late>>
local == <<state, base, calls, trace>>
vars == <<mainVars, interrupted, expired, at, local, res, shared, crashed>>

Ids == 1..Episodes

\* What a goroutine writes: the system, CurPartition and messages in Reset; the
\* policy in NextAction; the system, messages and CurPartition in StepCtx; and
\* the policy in Update and UpdateIteration.
Kinds == {"reset", "choice", "system", "messages", "state", "policy"}

Empty == <<>>
\* A received *Trace; the nil one belongs to no episode.
Nil == [of |-> 0, steps |-> <<>>]
Completed(i) == [of |-> i, steps |-> trace[i]]

Init == /\ main = "next" /\ episode = 0
        /\ interrupted = FALSE /\ crashed = FALSE
        /\ expired = {} /\ timedOut = {} /\ closed = {} /\ learned = {}
        /\ traces = <<>> /\ env = {} /\ sys = {} /\ saved = {}
        /\ at = [i \in Ids |-> "none"]
        /\ state = [i \in Ids |-> {}] /\ base = [i \in Ids |-> {}]
        /\ calls = [i \in Ids |-> 0]
        /\ trace = [i \in Ids |-> <<>>] /\ res = [i \in Ids |-> Empty]
        /\ late = [i \in Ids |-> [k \in Kinds |-> 0]]

----------------------------------------------------------------------------
(* The main goroutine *)

\* The next iteration: a fresh channel, a fresh deadline and a goroutine.
StartEpisode ==
  /\ main = "next" /\ episode < Episodes /\ ~interrupted
  /\ episode' = episode + 1
  /\ main' = "waiting"
  /\ at' = [at EXCEPT ![episode + 1] = "start"]
  /\ UNCHANGED <<interrupted, expired, timedOut, traces, closed, local, res,
                 shared, crashed>>

\* An interrupted experiment skips its remaining episodes one by one.
SkipEpisode ==
  /\ main = "next" /\ episode < Episodes /\ interrupted
  /\ episode' = episode + 1
  /\ UNCHANGED <<main, interrupted, expired, timedOut, traces, closed, at,
                 local, res, shared, crashed>>

Return ==
  /\ main = "next" /\ episode = Episodes
  /\ main' = "returned"
  /\ UNCHANGED <<episode, interrupted, expired, timedOut, traces, closed, at,
                 local, res, shared, crashed>>

\* select: with both cases ready either is taken.  (Mutant: the deadline is
\* left to the goroutine.)
OnlyGoroutineGivesUp == episode \in expired /\ at[episode] = "ended"

GivesUp == episode \in expired

CountTimeOut ==
  /\ main = "waiting" /\ GivesUp
  /\ timedOut' = timedOut \union {episode}
  /\ main' = "closing"
  /\ UNCHANGED <<episode, interrupted, expired, traces, closed, at, local, res,
                 shared, crashed>>

Receive ==
  /\ main = "waiting" /\ res[episode] # Empty
  /\ traces' = Append(traces, Head(res[episode]))
  /\ res' = [res EXCEPT ![episode] = Tail(@)]
  /\ main' = "closing"
  /\ UNCHANGED <<episode, interrupted, expired, timedOut, closed, at, local,
                 shared, crashed>>

\* toCancel() makes toCtx done too; close(res) is a step of its own, because
\* the episode's goroutine may run between the two.
Cancel ==
  /\ main = "closing"
  /\ expired' = expired \union {episode}
  /\ main' = "cancelled"
  /\ UNCHANGED <<episode, interrupted, timedOut, traces, closed, at, local, res,
                 shared, crashed>>

Close ==
  /\ main = "cancelled"
  /\ closed' = closed \union {episode}
  /\ main' = "next"
  /\ UNCHANGED <<episode, interrupted, expired, timedOut, traces, at, local,
                 res, shared, crashed>>

----------------------------------------------------------------------------
(* The clock and the user *)

Expire ==
  /\ main = "waiting" /\ episode \notin expired
  /\ expired' = expired \union {episode}
  /\ UNCHANGED <<mainVars, interrupted, at, local, res, shared, crashed>>

Interrupt ==
  /\ ~interrupted /\ main # "returned"
  /\ interrupted' = TRUE
  /\ UNCHANGED <<mainVars, expired, at, local, res, shared, crashed>>

----------------------------------------------------------------------------
(* The goroutine of episode i *)

\* The selects on timeOutCtx and on ctx; their default is the whole guard.
\* (Mutant: the context is not looked at.)
Unhurried(i) == i \in Ids

InTime(i) == i \notin expired

GoesOn(i) == InTime(i) /\ ~interrupted

Goto(i, place) == at' = [at EXCEPT ![i] = place]

\* A write to what the goroutines share; late counts those after the deadline.
Write(i, kind) ==
  late' = [late EXCEPT ![i][kind] = @ + IF i \in expired THEN 1 ELSE 0]

Writes(i, kind, place) == Write(i, kind) /\ Goto(i, place)

\* What Reset and StepCtx have read goes when they return.
Forget(i) == base' = [base EXCEPT ![i] = {}] /\ calls' = [calls EXCEPT ![i] = 0]

\* return nil, err
Fail(i) == /\ trace' = [trace EXCEPT ![i] = <<>>]
           /\ state' = [state EXCEPT ![i] = {}]
           /\ Forget(i) /\ Goto(i, "failed")
           /\ UNCHANGED shared

EnterReset(i) ==
  /\ at[i] = "start"
  /\ IF InTime(i) THEN Goto(i, "resetting") /\ UNCHANGED <<local, shared>>
                  ELSE Fail(i)

\* environment.Reset takes no context: it completes however late it is.  It
\* resets the system under test, ...  (Mutant: which keeps what it has.)
KeptSystem(i) == sys \union {i}

FreshSystem(i) == {i}

ResetSystem(i) ==
  /\ at[i] = "resetting"
  /\ sys' = FreshSystem(i)
  /\ base' = [base EXCEPT ![i] = sys']
  /\ Writes(i, "reset", "storingReset")
  /\ UNCHANGED <<env, saved, state, calls, trace, learned>>

\* ... stores the partition of the state it gets, ...
StoreReset(i) ==
  /\ at[i] = "storingReset"
  /\ env' = base[i]
  /\ Writes(i, "reset", "savingReset")
  /\ UNCHANGED <<sys, saved, local, learned>>

\* ... and saves the messages of that state.
SaveReset(i) ==
  /\ at[i] = "savingReset"
  /\ saved' = base[i]
  /\ Forget(i) /\ Writes(i, "reset", "top")
  /\ UNCHANGED <<env, sys, state, trace, learned>>

\* (Mutant: one iteration too many.)
IterationLeft(i) == Len(trace[i]) <= Horizon

Remaining(i) == Len(trace[i]) < Horizon

Iterate(i) ==
  /\ at[i] = "top"
  /\ IF Remaining(i) /\ ~GoesOn(i)
     THEN Fail(i)
     ELSE /\ Goto(i, IF Remaining(i) THEN "choosing" ELSE "final")
          /\ UNCHANGED <<local, shared>>

\* No action is possible, or the policy has none to offer.
Stop(i) ==
  /\ at[i] = "choosing"
  /\ Goto(i, "final")
  /\ Write(i, "choice") \/ UNCHANGED late
  /\ UNCHANGED <<environment, learned, local>>

\* NextAction, which writes to the policy's tables, and StepCtx up to the point
\* where it has copied CurPartition.
EnterStep(i) ==
  /\ at[i] = "choosing"
  /\ base' = [base EXCEPT ![i] = env]
  /\ Writes(i, "choice", "stepping")
  /\ UNCHANGED <<environment, state, calls, trace, learned>>

\* The first tick of a partition action: a look at the deadline, and the
\* messages to schedule are the saved ones.
FirstTick(i) ==
  /\ at[i] = "stepping" /\ InTime(i)
  /\ base' = [base EXCEPT ![i] = @ \union saved]
  /\ Goto(i, "ticking")
  /\ UNCHANGED <<state, calls, trace, shared>>

\* The next one, with a look of its own, schedules what the last one returned.
NextTick(i) ==
  /\ at[i] = "ticking" /\ calls[i] > 0 /\ InTime(i)
  /\ calls' = [calls EXCEPT ![i] = 0]
  /\ UNCHANGED <<at, state, base, trace, shared>>

\* DeliverMessagesCtx, DropMessagesCtx, TickCtx, StopCtx, StartCtx,
\* ReceiveRequestCtx or BecomeByzantine.  Hardly any of them looks at the
\* context; what they do depends on what the step has read.
SystemCall(i) ==
  /\ at[i] \in {"stepping", "ticking"} /\ calls[i] < MaxCalls
  /\ sys' = sys \union base[i] \union {i}
  /\ base' = [base EXCEPT ![i] = @ \union sys']
  /\ calls' = [calls EXCEPT ![i] = @ + 1]
  /\ Writes(i, "system", "ticking")
  /\ UNCHANGED <<env, saved, state, trace, learned>>

\* After the last tick, without a look.
SaveMessages(i) ==
  /\ at[i] = "ticking" /\ calls[i] > 0
  /\ saved' = base[i]
  /\ Writes(i, "messages", "computing")
  /\ UNCHANGED <<env, sys, local, learned>>

Stepping == {"stepping", "ticking", "computing"}

\* A look finds the deadline passed, or a call of the system fails, with
\* everything already written.
StepFails(i) == at[i] \in Stepping /\ Fail(i)

\* The rest of the next state is computed, with another read of CurPartition
\* for its RepeatCount, and StepCtx passes its last look at the deadline ...
StepComputed(i) ==
  /\ at[i] \in Stepping /\ InTime(i)
  /\ base' = [base EXCEPT ![i] = @ \union env]
  /\ Goto(i, "storing")
  /\ UNCHANGED <<state, calls, trace, shared>>

\* ... before it stores what it has computed.
StoreState(i) ==
  /\ at[i] = "storing"
  /\ env' = base[i] \union {i}
  /\ state' = [state EXCEPT ![i] = env']
  /\ Forget(i) /\ Writes(i, "state", "stepped")
  /\ UNCHANGED <<sys, saved, trace, learned>>

CheckStep(i) ==
  /\ at[i] = "stepped"
  /\ IF InTime(i) THEN Goto(i, "updating") /\ UNCHANGED <<local, shared>>
                  ELSE Fail(i)

\* policy.Update and trace.Append
Update(i) ==
  /\ at[i] = "updating"
  /\ trace' = [trace EXCEPT ![i] = Append(@, state[i])]
  /\ Writes(i, "policy", "top")
  /\ state' = [state EXCEPT ![i] = {}]
  /\ UNCHANGED <<base, calls, environment, learned>>

\* (Mutant: an interrupted episode returns its trace without learning it.)
FinishInterrupted(i) ==
  /\ at[i] = "final"
  /\ IF GoesOn(i) THEN Goto(i, "learning") /\ UNCHANGED <<local, shared>>
                  ELSE Goto(i, "done") /\ UNCHANGED <<local, shared>>

Finish(i) ==
  /\ at[i] = "final"
  /\ IF GoesOn(i) THEN Goto(i, "learning") /\ UNCHANGED <<local, shared>>
                  ELSE Fail(i)

\* policy.UpdateIteration, return trace, nil
Learn(i) ==
  /\ at[i] = "learning"
  /\ learned' = learned \union {i}
  /\ Writes(i, "policy", "done")
  /\ UNCHANGED <<environment, local>>

\* A late result is printed, never sent.
PrepareSend(i) ==
  /\ at[i] \in {"done", "failed"}
  /\ Goto(i, IF InTime(i) THEN IF at[i] = "done" THEN "sending" ELSE "sendingNil"
                          ELSE "ended")
  /\ UNCHANGED <<local, shared>>

Episode(i) ==
  /\ \/ EnterReset(i) \/ ResetSystem(i) \/ StoreReset(i) \/ SaveReset(i)
     \/ Iterate(i) \/ Stop(i) \/ EnterStep(i) \/ FirstTick(i) \/ NextTick(i)
     \/ SystemCall(i) \/ SaveMessages(i) \/ StepFails(i) \/ StepComputed(i)
     \/ StoreState(i) \/ CheckStep(i) \/ Update(i) \/ Finish(i) \/ Learn(i)
     \/ PrepareSend(i)
  /\ UNCHANGED <<mainVars, interrupted, expired, res, crashed>>

\* res <- trace: the buffer has room for it, but main may have closed the
\* channel since PrepareSend, and a panic here is not recovered.
Send(i) ==
  /\ at[i] \in {"sending", "sendingNil"}
  /\ IF i \in closed
     THEN crashed' = TRUE /\ UNCHANGED <<at, res>>
     ELSE /\ res' = [res EXCEPT ![i] =
                       Append(@, IF at[i] = "sending" THEN Completed(i) ELSE Nil)]
          /\ Goto(i, "ended")
          /\ UNCHANGED crashed
  /\ UNCHANGED <<mainVars, interrupted, expired, local, shared>>

----------------------------------------------------------------------------
Main == \/ StartEpisode \/ SkipEpisode \/ Return
        \/ CountTimeOut \/ Receive \/ Cancel \/ Close

Next == /\ ~crashed
        /\ \/ Main \/ Expire \/ Interrupt
           \/ \E i \in Ids : Episode(i) \/ Send(i)

\* The main goroutine is scheduled and deadlines pass.  Nothing is assumed of
\* an episode's goroutine, which may hang in the system under test.
Spec == Init /\ [][Next]_vars /\ WF_vars(~crashed /\ Main) /\ WF_vars(~crashed /\ Expire)

----------------------------------------------------------------------------
(* Properties *)

Places == {"none", "start", "resetting", "storingReset", "savingReset", "top",
           "choosing", "stepping", "ticking", "computing", "storing", "stepped",
           "updating", "final", "learning", "done", "failed", "sending",
           "sendingNil", "ended"}

Results == [of : 0..Episodes, steps : Seq(SUBSET Ids)]

\* Every variable keeps its type; in particular a channel never holds more
\* than the one result there is room for, so no sender ever blocks.
TypeOK ==
  /\ main \in {"next", "waiting", "closing", "cancelled", "returned"}
  /\ episode \in 0..Episodes
  /\ interrupted \in BOOLEAN /\ crashed \in BOOLEAN
  /\ expired \subseteq Ids /\ timedOut \subseteq Ids
  /\ closed \subseteq Ids /\ learned \subseteq Ids
  /\ at \in [Ids -> Places]
  /\ late \in [Ids -> [Kinds -> Nat]] /\ calls \in [Ids -> 0..MaxCalls]
  /\ env \subseteq Ids /\ sys \subseteq Ids /\ saved \subseteq Ids
  /\ state \in [Ids -> SUBSET Ids] /\ base \in [Ids -> SUBSET Ids]
  /\ trace \in [Ids -> Seq(SUBSET Ids)]
  /\ res \in [Ids -> Seq(Results)] /\ traces \in Seq(Results)
  /\ \A i \in Ids : Len(trace[i]) <= Horizon /\ Len(res[i]) <= 1

\* A trace that main records is one the policy has learned from: interrupts,
\* deadlines and failures never record a trace the policy was not given at the
\* end of its episode.
RecordedIsLearned ==
  \A k \in DOMAIN traces : traces[k] = Nil \/ traces[k].of \in learned

\* What a goroutine writes without a look at the deadline in between: Reset; an
\* action's choice, the calls of one tick and the saved messages; the partition
\* StepCtx stores; what the policy learns.
Segments == {{"reset"}, {"choice", "system", "messages"}, {"state"}, {"policy"}}

\* Reset makes three writes, and those of one tick call the system
\* MaxCalls times at most.
WritesOf(kind) == CASE kind = "reset"  -> 3
                    [] kind = "system" -> MaxCalls
                    [] OTHER           -> 1

\* However late it is, the goroutine of an episode only finishes the one piece
\* of work it was in when the deadline passed: having reset the environment it
\* takes no step, having ticked the system or saved its messages it stores no
\* partition, and having stored one it teaches the policy nothing.
OneLateSegment ==
  \A i \in Ids :
    /\ \E segment \in Segments : {kind \in Kinds : late[i][kind] > 0} \subseteq segment
    /\ \A kind \in Kinds : late[i][kind] <= WritesOf(kind)

OfOneEpisode(t) == \A k \in DOMAIN t.steps : t.steps[k] \subseteq {t.of}

\* The states of an episode derive from another episode's, through the partition,
\* the system or the saved messages, only if an episode before it was timed out:
\* without timeouts the episodes run one after the other and Reset replaces all
\* three, interrupts and failing steps included.
MixingNeedsTimeOut ==
  \A k \in DOMAIN traces :
    OfOneEpisode(traces[k]) \/ \E i \in timedOut : i < traces[k].of

\* RunWithTimeout returns whatever the system under test does to the
\* goroutines of the episodes, unless one of them takes the process down.
MainReturns == <>(main = "returned" \/ crashed)

\* trace.go:8 says that a Trace is the trace of an episode as triplets (state,
\* action, nextState): its states come from the steps of that episode.
TracesOfOneEpisode == \A k \in DOMAIN traces : OfOneEpisode(traces[k])
=============================================================================
