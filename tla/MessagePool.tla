------------------------------ MODULE MessagePool ------------------------------
(***************************************************************************)
(* What an environment whose network is intercepted promises about the     *)
(* messages of an episode: the agent decides the fate of each of them.  A  *)
(* message waits (pending) until the agent has it delivered or dropped,    *)
(* and what was dropped is never received.                                 *)
(*                                                                         *)
(* Two weaker promises: a lossy environment may lose a message that it     *)
(* fails to deliver, and an environment that is not steered also delivers  *)
(* messages by itself, dropped ones included.                              *)
(***************************************************************************)
CONSTANT Message

VARIABLES pending, received, dropped,
          lossy, steered            \* which promise is made

vars == <<pending, received, dropped, lossy, steered>>
promise == <<lossy, steered>>

Init ==
  /\ pending = {} /\ received = {} /\ dropped = {}
  /\ lossy \in BOOLEAN /\ steered \in BOOLEAN

Send(m) ==
  /\ m \notin pending /\ m \notin received /\ m \notin dropped
  /\ pending' = pending \union {m}
  /\ UNCHANGED <<received, dropped, promise>>

\* Also of a message that was received already: it is not a second message.
Deliver(m) ==
  /\ m \in pending \/ ~steered
  /\ received' = received \union {m}
  /\ pending' = pending \ {m}
  /\ UNCHANGED <<dropped, promise>>

Drop(D) ==
  /\ D \subseteq pending
  /\ dropped' = dropped \union D
  /\ pending' = pending \ D
  /\ UNCHANGED <<received, promise>>

Lose(m) ==
  /\ lossy /\ m \in pending
  /\ pending' = pending \ {m}
  /\ UNCHANGED <<received, dropped, promise>>

\* A new episode starts with no messages.
Clear ==
  /\ pending' = {} /\ received' = {} /\ dropped' = {}
  /\ UNCHANGED promise

Next ==
  \/ \E m \in Message : Send(m) \/ Deliver(m) \/ Lose(m)
  \/ \E D \in SUBSET Message : Drop(D)
  \/ Clear

Spec == Init /\ [][Next]_vars

\* A message that waits was not received, and one that the agent dropped is
\* received by nobody.
FateIsFinal ==
  /\ pending \intersect received = {}
  /\ steered => dropped \intersect (pending \union received) = {}
=============================================================================
