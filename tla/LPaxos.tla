------------------------------- MODULE LPaxos -------------------------------
(***************************************************************************)
(* lpaxos: a log-replicating Paxos (algo.go, util.go) in the environment   *)
(* that exposes it to the partition environment (partition_env.go).        *)
(*                                                                         *)
(* The network is a set: messages are kept in a map keyed by their         *)
(* content.  Any message for a replica may be delivered or dropped at any  *)
(* time, which is what a policy can make the partition environment do.     *)
(* Start and Stop do nothing in this environment.                          *)
(***************************************************************************)
EXTENDS Integers, Sequences, FiniteSets

CONSTANTS
  Replicas,      \* LPaxosEnvConfig.Replicas: the nodes are 1..Replicas
  Requests,      \* commands of an episode, numbered from 1
  MaxPhase,      \* bound: no node times out in this phase
  MaxExpiries,   \* bound on the heartbeats and timeouts of an episode
  MaxInTransit   \* bound on the messages in transit

Node == 1..Replicas
Phase == 0..MaxPhase
Command == 1..Requests

ASSUME LPaxosAssumption ==
  /\ Replicas \in Nat \ {0} /\ Requests \in Nat
  /\ MaxPhase \in Nat /\ MaxExpiries \in Nat /\ MaxInTransit \in Nat

VARIABLES
  node,       \* the LPaxosNode of each replica
  outbox,     \* the nodes' pendingMessages, not yet collected by Ready
  messages,   \* e.messages, the messages in transit
  requests,   \* curState.Requests, the commands the clients still hold
  expiries,   \* heartbeats and timeouts so far
  proposed,   \* history: every [phase, log] a leader proposed
  accepted    \* history: every [peer, phase, log] a node accepted

history == <<proposed, accepted>>
vars == <<node, outbox, messages, requests, expiries, history>>

-----------------------------------------------------------------------------
\* Steps of a phase: StepPrepare < StepAck < StepPropose < StepPromise.
StepPrepare == 0
StepAck == 1
StepPropose == 2
StepPromise == 3

\* The leader of a phase, 0 when it is nobody.
GetLeader(p) == (p + 1) % Replicas

Msg(type, p, from, to, last, log) ==
  [type |-> type, phase |-> p, from |-> from, to |-> to, last |-> last, log |-> log]

Broadcast(type, p, from, last, log) ==
  {Msg(type, p, from, to, last, log) : to \in Node}

\* More than n/2 peers, in integer division.  (Mutant: n/2 are enough.)
IsHalf(S) == Cardinality(S) >= Replicas \div 2

IsMajority(S) == Cardinality(S) > Replicas \div 2

\* A new node.  Phase -1 is left at once: NewLPaxosNode ends in phase 0.  A
\* message is tracked after the node moved to its phase, so whatever a
\* tracker holds is of the node's own phase: acks holds the first ack of each
\* peer, promises and phaseChange the peers that are counted.
NewNode ==
  [phase |-> 0, step |-> StepPrepare, last |-> -1, log |-> <<>>, decided |-> 0,
   acks |-> {}, promises |-> {}, phaseChange |-> {}, pending |-> <<>>]

Prepares(p, n) == Broadcast("Prepare", p, n, 0, <<>>)

\* Messages of forwardCommands carry no phase: it stays 0.
Forward(n, to, commands) == {Msg("Command", 0, n, to, 0, commands)}

\* updateToPhase: the state after it, and what it sends.  (Mutant: forwarded
\* commands are not cleared.)
MovedKeepingCommands(s, n, p) ==
  IF p <= s.phase THEN s
  ELSE [s EXCEPT !.phase = p, !.step = StepPrepare,
                 !.acks = {}, !.promises = {}, !.phaseChange = {}]

Moved(s, n, p) ==
  IF p <= s.phase THEN s
  ELSE [s EXCEPT !.phase = p, !.step = StepPrepare,
                 !.acks = {}, !.promises = {}, !.phaseChange = {},
                 !.pending = IF GetLeader(p) = n THEN @ ELSE <<>>]

MovedSends(s, n, p) ==
  IF p <= s.phase THEN {}
  ELSE IF GetLeader(p) = n THEN Prepares(p, n)
  ELSE IF s.pending # <<>> THEN Forward(n, GetLeader(p), s.pending)
  ELSE {}

Init ==
  /\ node = [n \in Node |-> NewNode]
  /\ outbox = UNION {Prepares(0, n) : n \in {n \in Node : GetLeader(0) = n}}
  /\ messages = {}
  /\ requests = [i \in Command |-> i]
  /\ expiries = 0
  /\ proposed = {}
  /\ accepted = {}

Reset ==
  /\ node' = [n \in Node |-> NewNode]
  /\ outbox' = UNION {Prepares(0, n) : n \in {n \in Node : GetLeader(0) = n}}
  /\ messages' = {}
  /\ requests' = [i \in Command |-> i]
  /\ expiries' = 0
  /\ proposed' = {}
  /\ accepted' = {}

-----------------------------------------------------------------------------
\* propose: the logs the leader may start from are those of the acks with the
\* highest Last; of several the order of a map decides.  (Mutant: any ack.)
LatestOfAny(acks) == acks

Latest(acks) == {a \in acks : \A b \in acks : b.last <= a.last}

Proposals(s) ==
  {a.log \o s.pending : a \in Latest(s.acks)}
    \cup IF s.acks = {} THEN {s.pending} ELSE {}

MayPropose(s, n) == GetLeader(s.phase) = n /\ s.step >= StepAck

\* Node n, which is in state s and sends out before, proposes newLog.
ProposeLog(s, n, newLog) == [s EXCEPT !.step = StepPropose, !.pending = <<>>]

ProposeSends(s, n, newLog) ==
  IF newLog = s.log THEN {} ELSE Broadcast("Propose", s.phase, n, 0, newLog)

\* The step of the environment that made node n enter state s and send out:
\* gone is taken out of transit and all messages are collected.
Collected(n, s, out, gone) ==
  /\ node' = [node EXCEPT ![n] = s]
  /\ messages' = (messages \ gone) \cup outbox \cup out
  /\ outbox' = {}
  /\ Cardinality(messages') <= MaxInTransit
  /\ UNCHANGED <<requests, expiries>>

Propose(n, s, out, gone) ==
  \E newLog \in Proposals(s) :
    LET sends == ProposeSends(s, n, newLog)
    IN  /\ Collected(n, ProposeLog(s, n, newLog), out \cup sends, gone)
        /\ proposed' = proposed \cup {[phase |-> m.phase, log |-> m.log] : m \in sends}
        /\ UNCHANGED accepted

Quiet(n, s, out, gone) ==
  Collected(n, s, out, gone) /\ UNCHANGED history

-----------------------------------------------------------------------------
\* Message m of a type is delivered to its receiver n and not too old to be
\* looked at.  (Mutant: an old message is looked at.)
HandledAlways(m, type) == m.type = type /\ m.to \in Node

Handled(m, type) ==
  /\ m.type = type /\ m.to \in Node
  /\ m.phase >= node[m.to].phase

\* What the receiver of m is after it moved to the phase of m.
Receiver(m) == Moved(node[m.to], m.to, m.phase)
MoveOut(m) == MovedSends(node[m.to], m.to, m.phase)

Ignore(m) ==
  /\ m.type # "Command" /\ m.to \in Node
  /\ m.phase < node[m.to].phase
  /\ Quiet(m.to, node[m.to], {}, {m})

Heartbeat(m) ==
  /\ Handled(m, "Heartbeat")
  /\ Quiet(m.to, Receiver(m), MoveOut(m), {m})

PhaseChange(m) ==
  /\ Handled(m, "PhaseChange")
  /\ LET s   == [Receiver(m) EXCEPT !.phaseChange = @ \cup {m.from}]
         out == IF ~IsMajority(s.phaseChange) THEN {}
                ELSE IF GetLeader(m.phase) = m.to THEN Prepares(m.phase, m.to)
                ELSE Broadcast("PhaseChange", m.phase, m.to, s.last, s.log)
     IN  Quiet(m.to, s, MoveOut(m) \cup out, {m})

Prepare(m) ==
  /\ Handled(m, "Prepare")
  /\ LET r == Receiver(m)
         leader == GetLeader(r.phase)
         s == [r EXCEPT !.step = IF leader = m.to THEN StepAck ELSE StepPropose]
     IN  Quiet(m.to, s,
               MoveOut(m) \cup {Msg("Ack", s.phase, m.to, leader, s.last, s.log)}, {m})

\* TrackAck keeps the first ack of a peer in a phase.
TrackAck(acks, m) ==
  IF \E a \in acks : a.peer = m.from THEN acks
  ELSE acks \cup {[peer |-> m.from, last |-> m.last, log |-> m.log]}

Ack(m) ==
  /\ Handled(m, "Ack")
  /\ LET r == Receiver(m)
         s == IF r.step < StepAck THEN r ELSE [r EXCEPT !.acks = TrackAck(@, m)]
     IN  IF s.step = StepAck /\ IsMajority(s.acks) /\ MayPropose(s, m.to)
         THEN Propose(m.to, s, MoveOut(m), {m})
         ELSE Quiet(m.to, s, MoveOut(m), {m})

\* The node accepts the leader's proposal and promises it to everybody.
\* (Mutant: Last is not set.)
AcceptedWithoutLast(s, m) == [s EXCEPT !.log = m.log, !.step = StepPromise]

Accepted(s, m) == [s EXCEPT !.log = m.log, !.last = m.phase, !.step = StepPromise]

Accept(m) ==
  /\ Handled(m, "Propose")
  /\ LET r == Receiver(m)
         s == Accepted(r, m)
     IN  IF m.from # GetLeader(r.phase) THEN Quiet(m.to, r, MoveOut(m), {m})
         ELSE /\ Collected(m.to, s,
                           MoveOut(m) \cup Broadcast("Promise", s.phase, m.to, 0, s.log), {m})
              /\ accepted' = accepted \cup {[peer |-> m.to, phase |-> m.phase, log |-> m.log]}
              /\ UNCHANGED proposed

\* ValidPromises counts every promise of the phase, whatever its log.
Promise(m) ==
  /\ Handled(m, "Promise")
  /\ LET s == [Receiver(m) EXCEPT !.promises = @ \cup {m.from}]
     IN  Quiet(m.to,
               IF IsMajority(s.promises) THEN [s EXCEPT !.decided = Len(s.log)] ELSE s,
               MoveOut(m), {m})

-----------------------------------------------------------------------------
\* The nodes that claim to lead.
Leaders == {n \in Node : GetLeader(node[n].phase) = n}

\* Step of a leader n on a command message, which is of phase 0.
TakeCommands(n, commands, gone) ==
  LET s == [node[n] EXCEPT !.pending = @ \o commands]
  IN  IF node[n].phase > 0 THEN Quiet(n, node[n], {}, gone)
      ELSE IF s.step >= StepPropose /\ MayPropose(s, n) THEN Propose(n, s, {}, gone)
      ELSE Quiet(n, s, {}, gone)

\* Delivering a command: it goes to a claimed leader, and what is deleted is
\* the message with that leader as its receiver.
DeliverCommand(m) ==
  /\ m.type = "Command" /\ m.to \in Node
  /\ \E n \in Leaders : TakeCommands(n, m.log, {[m EXCEPT !.to = n]})

\* ReceiveRequest steps a claimed leader; the request is gone then.  What the
\* node sends stays in its pendingMessages.
ReceiveRequest ==
  /\ requests # <<>>
  /\ \E n \in Leaders :
       LET s == [node[n] EXCEPT !.pending = Append(@, Head(requests))]
       IN  IF node[n].phase > 0 THEN UNCHANGED <<node, outbox, proposed>>
           ELSE IF s.step >= StepPropose
           THEN \E newLog \in Proposals(s) :
                  LET sends == ProposeSends(s, n, newLog)
                  IN  /\ node' = [node EXCEPT ![n] = ProposeLog(s, n, newLog)]
                      /\ outbox' = outbox \cup sends
                      /\ proposed' = proposed \cup
                           {[phase |-> m.phase, log |-> m.log] : m \in sends}
           ELSE node' = [node EXCEPT ![n] = s] /\ UNCHANGED <<outbox, proposed>>
  /\ requests' = Tail(requests)
  /\ UNCHANGED <<messages, expiries, accepted>>

Drop(m) ==
  /\ messages' = messages \ {m}
  /\ UNCHANGED <<node, outbox, requests, expiries, history>>

\* Tick.  Which leaders are due to send a heartbeat and which other nodes have
\* waited too long for one depends on the tick counters, which are left out:
\* any of them may be.
Tick ==
  \E due \in SUBSET Leaders, late \in SUBSET {n \in Node \ Leaders : node[n].phase < MaxPhase} :
    LET beats   == {Broadcast("Heartbeat", node[n].phase, n, 0, <<>>) : n \in due}
        changes == {Broadcast("PhaseChange", node[n].phase + 1, n, node[n].last, node[n].log)
                    : n \in late}
    IN  /\ messages' = messages \cup outbox \cup UNION (beats \cup changes)
        /\ outbox' = {}
        /\ Cardinality(messages') <= MaxInTransit
        /\ expiries' = expiries + Cardinality(due) + Cardinality(late)
        /\ expiries' <= MaxExpiries
        /\ UNCHANGED <<node, requests, history>>

-----------------------------------------------------------------------------
Deliver(m) ==
  \/ Ignore(m) \/ Heartbeat(m) \/ PhaseChange(m) \/ DeliverCommand(m)
  \/ Prepare(m) \/ Ack(m) \/ Accept(m) \/ Promise(m)

Next ==
  \/ Reset \/ Tick \/ ReceiveRequest
  \/ \E m \in messages : Deliver(m) \/ Drop(m)

Spec == Init /\ [][Next]_vars

-----------------------------------------------------------------------------
Entries == Seq(Command)

NodeState ==
  [phase : Phase, step : StepPrepare..StepPromise, last : Phase \cup {-1},
   log : Entries, decided : Nat,
   acks : SUBSET [peer : Node, last : Phase \cup {-1}, log : Entries],
   promises : SUBSET Node, phaseChange : SUBSET Node, pending : Entries]

Messages ==
  [type : {"Prepare", "Ack", "Propose", "Promise", "Command", "Heartbeat", "PhaseChange"},
   phase : Phase, from : Node, to : Node \cup {0}, last : Phase \cup {-1}, log : Entries]

\* Every variable has its type; a tracker holds one ack of a peer, and only a
\* leader holds commands ("Only used by leader", algo.go:56).
TypeOK ==
  /\ node \in [Node -> NodeState]
  /\ \A n \in Node :
       /\ \A a, b \in node[n].acks : a.peer = b.peer => a = b
       /\ node[n].pending # <<>> => n \in Leaders
  /\ outbox \subseteq Messages
  /\ messages \subseteq Messages
  /\ requests \in Entries
  /\ expiries \in 0..MaxExpiries
  /\ proposed \subseteq [phase : Phase, log : Entries]
  /\ accepted \subseteq [peer : Node, phase : Phase, log : Entries]

Quorum(S) == 2 * Cardinality(S) > Replicas

IsPrefixOf(s, t) == Len(s) <= Len(t) /\ SubSeq(t, 1, Len(s)) = s

\* An ack is a promise: the peer has not accepted anything of an earlier phase
\* since, so until it accepts something of the leader's phase its log is still
\* the one the leader knows.
AcksHold ==
  \A n \in Node : \A a \in node[n].acks :
    LET peer == node[a.peer] IN
    /\ peer.phase >= node[n].phase
    /\ peer.last < node[n].phase => peer.last = a.last /\ peer.log = a.log

\* A node counts a promise only of a peer that has accepted a proposal of the
\* node's phase, or of a later one.
PromisesBacked ==
  \A n \in Node : \A q \in node[n].promises : node[q].last >= node[n].phase

\* A leader proposes on the acks of a quorum of its phase, also when a command
\* or a second Prepare makes it propose again.
ProposalsHaveQuorum ==
  \A m \in messages \cup outbox :
    m.type = "Propose" /\ node[m.from].phase = m.phase
      => Quorum({a.peer : a \in node[m.from].acks})

\* What a quorum has accepted in a phase is kept by the proposals of all later
\* phases, as long as no leader makes two different proposals in one phase.
Chosen(p) ==
  Quorum({a.peer : a \in {b \in accepted : b.phase = p.phase /\ b.log = p.log}})

ChosenSurvives ==
  (\A p, q \in proposed : p.phase = q.phase => p = q)
    => \A p, q \in proposed : Chosen(p) /\ q.phase > p.phase => IsPrefixOf(p.log, q.log)

-----------------------------------------------------------------------------
\* The bug that lpaxos/bug.go:8-31 looks for, "At any point the old log is not
\* a prefix of the new log" (line 22), up to what was decided, never happens.
DecidedStays ==
  [][Reset \/ \A n \in Node :
       /\ node'[n].decided >= node[n].decided
       /\ IsPrefixOf(SubSeq(node[n].log, 1, node[n].decided), node'[n].log)]_vars
=============================================================================
