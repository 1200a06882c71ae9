---------------------------- MODULE PropertyGuided ----------------------------
(***************************************************************************)
(* Monitors, state machines over the steps of a trace (types/monitor.go),  *)
(* and the policy that follows one after another of a list of them         *)
(* (policies/property_guided.go).  Of the Q-tables only whether they exist *)
(* is kept: what they make the policy choose is arbitrary.                 *)
(***************************************************************************)
EXTENDS Naturals, Sequences, FiniteSets

CONSTANT Monitors       \* the properties, a sequence of monitors

\* A monitor: the states marked with MarkSuccess, and the transitions that On
\* adds: from, to, and the predicate that the step's next state must satisfy.
\* There is one from a state to another: the last one added.
NewMonitor == [success |-> {}, on |-> {}]
On(m, from, cond, to) ==
  [m EXCEPT !.on = {t \in @ : t.from # from \/ t.to # to}
                     \union {[from |-> from, cond |-> cond, to |-> to]}]
MarkSuccess(m, state) == [m EXCEPT !.success = @ \union {state}]

ASSUME MonitorAssumption ==
  Monitors \in Seq([success : SUBSET STRING,
                    on : SUBSET [from : STRING, cond : STRING, to : STRING]])

\* Where a step may lead: the transitions are tried in any order.
Moves(m, q, step) ==
  LET to == {t.to : t \in {u \in m.on : u.from = q /\ u.cond \in step.next}}
  IN  IF to = {} THEN {q} ELSE to

\* The states that are no success which a monitor may be in after i steps.
Running(m, trace) ==
  LET f[i \in 0..Len(trace)] ==
        (IF i = 0 THEN {"init"} ELSE UNION {Moves(m, q, trace[i]) : q \in f[i - 1]})
        \ m.success
  IN  f

\* Check: whether a trace satisfies the monitor, and the length of the prefix,
\* in which the step that led to success is missing.
Check(m, trace) ==
  {[ok |-> TRUE, len |-> i - 1] : i \in
     {j \in DOMAIN trace : \E q \in Running(m, trace)[j - 1] :
                             Moves(m, q, trace[j]) \intersect m.success # {}}}
  \union (IF "init" \in m.success THEN {[ok |-> TRUE, len |-> 0]} ELSE {})
  \union (IF Running(m, trace)[Len(trace)] # {} THEN {[ok |-> FALSE, len |-> 0]} ELSE {})

\* No step of the trace satisfies two transitions that lead apart.
Unambiguous(m, trace) ==
  \A i \in DOMAIN trace, t, u \in m.on :
    t.from = u.from /\ {t.cond, u.cond} \subseteq trace[i].next => t.to = u.to

VARIABLES
  currentProp,      \* the property that is followed, 0 for none
  fulfilled,        \* reached: it was, in this episode
  current_trace,
  tables            \* propQTables are there, and not nil

guidedVars == <<currentProp, fulfilled, current_trace, tables>>

GuidedInit ==
  currentProp = 0 /\ fulfilled = FALSE /\ current_trace = <<>> /\ tables = TRUE

Following == currentProp # 0 /\ ~fulfilled

\* NextAction asks the table of the property that is followed.
MayChoose == Following => tables

\* Update with checkReached.
GuidedUpdate(step) ==
  /\ IF Following
     THEN /\ current_trace' = Append(current_trace, step)
          /\ \E c \in Check(Monitors[currentProp], current_trace') : fulfilled' = c.ok
     ELSE UNCHANGED <<current_trace, fulfilled>>
  /\ UNCHANGED <<currentProp, tables>>

\* UpdateIteration updates the table of each property, backwards along the
\* satisfying prefix or the whole trace: whether it may find one that is nil
\* and has a step to update, or not.
Updates(p, trace) == {IF c.ok THEN c.len > 0 ELSE trace # <<>> : c \in Check(Monitors[p], trace)}

MayLearn(trace, well) ==
  IF well THEN tables \/ \A p \in DOMAIN Monitors : FALSE \in Updates(p, trace)
  ELSE ~tables /\ \E p \in DOMAIN Monitors : TRUE \in Updates(p, trace)

\* (Mutant: the current trace is kept.)
KeptTrace == current_trace

EmptyTrace == <<>>

GuidedRestart ==
  /\ currentProp' = IF currentProp = Len(Monitors) THEN 0 ELSE currentProp + 1
  /\ fulfilled' = FALSE
  /\ current_trace' = EmptyTrace
  /\ UNCHANGED tables

\* Reset makes a list of nil tables, and leaves the rest.
GuidedReset ==
  /\ tables' = FALSE
  /\ UNCHANGED <<currentProp, fulfilled, current_trace>>
=============================================================================
