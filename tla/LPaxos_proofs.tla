---------------------------- MODULE LPaxos_proofs ----------------------------
(***************************************************************************)
(* Theorems about LPaxos, for every number of replicas, commands, phases   *)
(* and messages in transit.  The invariant says what an ack, a promise and *)
(* a proposal tell about the node that sent them, wherever they are, and   *)
(* of any two proposals that the later one extends the earlier one unless  *)
(* a quorum has made sure that the earlier one is never chosen.            *)
(***************************************************************************)
EXTENDS LPaxos, SequenceTheorems, FiniteSetTheorems, TLAPS

Peers(acks) == {a.peer : a \in acks}

\* What a node may be: TypeOK's part of it, and that its acks can be counted.
GoodState(n, s) ==
  /\ s \in NodeState
  /\ \A a, b \in s.acks : a.peer = b.peer => a = b
  /\ s.pending # <<>> => GetLeader(s.phase) = n
  /\ IsFiniteSet(s.acks) /\ IsFiniteSet(Peers(s.acks))
  /\ Cardinality(Peers(s.acks)) = Cardinality(s.acks)

Types ==
  /\ node \in [Node -> NodeState]
  /\ \A n \in Node : GoodState(n, node[n])
  /\ outbox \subseteq Messages
  /\ messages \subseteq Messages
  /\ requests \in Entries
  /\ expiries \in 0..MaxExpiries
  /\ proposed \subseteq [phase : Phase, log : Entries]
  /\ accepted \subseteq [peer : Node, phase : Phase, log : Entries]

-----------------------------------------------------------------------------
USE DEF Node, Phase, Command, StepPrepare, StepAck, StepPropose, StepPromise

LEMMA LeaderType ==
  ASSUME NEW p \in Phase PROVE GetLeader(p) \in Node \cup {0}
  BY LPaxosAssumption DEF GetLeader

LEMMA MsgType ==
  ASSUME NEW type \in {"Prepare", "Ack", "Propose", "Promise", "Command", "Heartbeat",
                       "PhaseChange"},
         NEW p \in Phase, NEW from \in Node, NEW to \in Node \cup {0},
         NEW last \in Phase \cup {-1}, NEW log \in Entries
  PROVE  Msg(type, p, from, to, last, log) \in Messages
  BY DEF Msg, Messages

LEMMA BroadcastType ==
  ASSUME NEW type \in {"Prepare", "Ack", "Propose", "Promise", "Command", "Heartbeat",
                       "PhaseChange"},
         NEW p \in Phase, NEW from \in Node,
         NEW last \in Phase \cup {-1}, NEW log \in Entries
  PROVE  Broadcast(type, p, from, last, log) \subseteq Messages
  BY MsgType DEF Broadcast

LEMMA NoEntries == <<>> \in Entries /\ 0 \in Phase
  BY LPaxosAssumption DEF Entries

LEMMA PreparesType ==
  ASSUME NEW p \in Phase, NEW n \in Node PROVE Prepares(p, n) \subseteq Messages
  BY BroadcastType, NoEntries DEF Prepares

LEMMA NewNodeGood ==
  ASSUME NEW n \in Node PROVE GoodState(n, NewNode)
<1>1. NewNode \in NodeState
  BY NoEntries DEF NewNode, NodeState
<1>2. NewNode.acks = {} /\ Peers(NewNode.acks) = {}
  BY DEF NewNode, Peers
<1> QED
  BY <1>1, <1>2, FS_EmptySet DEF GoodState, NewNode

\* Moving to a phase leaves what was accepted alone; nothing is tracked of the
\* new phase.
LEMMA MovedFields ==
  ASSUME NEW n \in Node, NEW s, GoodState(n, s), NEW p \in Phase, p >= s.phase
  PROVE  /\ Moved(s, n, p).phase = p
         /\ Moved(s, n, p).last = s.last /\ Moved(s, n, p).log = s.log
         /\ p = s.phase => Moved(s, n, p) = s
         /\ p > s.phase => /\ Moved(s, n, p).acks = {} /\ Moved(s, n, p).promises = {}
                           /\ Moved(s, n, p).step = StepPrepare
  BY DEF Moved, GoodState, NodeState

LEMMA MovedGood ==
  ASSUME NEW n \in Node, NEW s, GoodState(n, s), NEW p \in Phase
  PROVE  GoodState(n, Moved(s, n, p))
<1>1. CASE p <= s.phase
  BY <1>1 DEF Moved
<1>2. CASE ~(p <= s.phase)
  <2> DEFINE r == Moved(s, n, p)
  <2>1. r = [s EXCEPT !.phase = p, !.step = StepPrepare,
                 !.acks = {}, !.promises = {}, !.phaseChange = {},
                 !.pending = IF GetLeader(p) = n THEN @ ELSE <<>>]
    BY <1>2 DEF Moved
  <2> DEFINE left == IF GetLeader(p) = n THEN s.pending ELSE <<>>
  <2>a. r = [phase |-> p, step |-> StepPrepare, last |-> s.last, log |-> s.log,
             decided |-> s.decided, acks |-> {}, promises |-> {}, phaseChange |-> {},
             pending |-> left]
    BY <2>1 DEF GoodState, NodeState
  <2>b. left \in Entries
    BY NoEntries DEF GoodState, NodeState
  <2>c. s.last \in Phase \cup {-1} /\ s.log \in Entries /\ s.decided \in Nat
    BY DEF GoodState, NodeState
  <2>2. r \in NodeState
    <3> HIDE DEF r, left
    <3> QED
      BY <2>a, <2>b, <2>c DEF NodeState
  <2>3. r.acks = {} /\ Peers(r.acks) = {} /\ (r.pending # <<>> => GetLeader(r.phase) = n)
    BY <2>1 DEF GoodState, NodeState, Peers
  <2> QED
    BY <2>2, <2>3, FS_EmptySet DEF GoodState
<1> QED
  BY <1>1, <1>2

LEMMA MovedSendsType ==
  ASSUME NEW n \in Node, NEW s, GoodState(n, s), NEW p \in Phase
  PROVE  /\ MovedSends(s, n, p) \subseteq Messages
         /\ \A m \in MovedSends(s, n, p) : m.type \in {"Prepare", "Command"}
<1>1. /\ Prepares(p, n) \subseteq Messages
      /\ \A m \in Prepares(p, n) : m.type \in {"Prepare", "Command"}
  BY PreparesType DEF Prepares, Broadcast, Msg
<1>2. s.pending \in Entries
  BY DEF GoodState, NodeState
<1>3. /\ Forward(n, GetLeader(p), s.pending) \subseteq Messages
      /\ \A m \in Forward(n, GetLeader(p), s.pending) : m.type \in {"Prepare", "Command"}
  <2>1. Msg("Command", 0, n, GetLeader(p), 0, s.pending) \in Messages
    BY <1>2, LeaderType, MsgType, NoEntries
  <2> QED
    BY <2>1 DEF Forward, Msg
<1> QED
  BY <1>1, <1>3 DEF MovedSends

\* The first ack of a peer is added, whatever else it says.
LEMMA TrackAckGood ==
  ASSUME NEW n \in Node, NEW s, GoodState(n, s), NEW m \in Messages
  PROVE  /\ GoodState(n, [s EXCEPT !.acks = TrackAck(s.acks, m)])
         /\ s.acks \subseteq TrackAck(s.acks, m)
         /\ \A a \in TrackAck(s.acks, m) :
              a \in s.acks \/ a = [peer |-> m.from, last |-> m.last, log |-> m.log]
         /\ IsMajority(s.acks) => IsMajority(TrackAck(s.acks, m))
<1> DEFINE x == [peer |-> m.from, last |-> m.last, log |-> m.log]
           t == [s EXCEPT !.acks = TrackAck(s.acks, m)]
<1>0. s \in NodeState /\ Cardinality(s.acks) \in Nat
  BY FS_CardinalityType DEF GoodState
<1>1. CASE \E a \in s.acks : a.peer = m.from
  <2>1. TrackAck(s.acks, m) = s.acks
    BY <1>1 DEF TrackAck
  <2>2. t = s
    BY <1>0, <2>1 DEF NodeState
  <2> QED
    BY <2>1, <2>2
<1>2. CASE ~\E a \in s.acks : a.peer = m.from
  <2>1. TrackAck(s.acks, m) = s.acks \cup {x}
    BY <1>2 DEF TrackAck
  <2>2. x \in [peer : Node, last : Phase \cup {-1}, log : Entries] /\ x.peer = m.from
    BY DEF Messages
  <2>a. s.acks \cup {x} \in SUBSET [peer : Node, last : Phase \cup {-1}, log : Entries]
    BY <1>0, <2>2 DEF NodeState
  <2>3. t \in NodeState /\ t.acks = s.acks \cup {x} /\ t.pending = s.pending /\ t.phase = s.phase
    <3> HIDE DEF x
    <3> QED
      BY <1>0, <2>1, <2>a DEF NodeState
  <2>4. Peers(t.acks) = Peers(s.acks) \cup {m.from}
    <3> HIDE DEF x, t
    <3> QED
      BY <2>2, <2>3 DEF Peers
  <2>5. x \notin s.acks /\ m.from \notin Peers(s.acks)
    BY <1>2, <2>2 DEF Peers
  <2>6. /\ IsFiniteSet(t.acks) /\ Cardinality(t.acks) = Cardinality(s.acks) + 1
        /\ IsFiniteSet(Peers(t.acks))
        /\ Cardinality(Peers(t.acks)) = Cardinality(Peers(s.acks)) + 1
    <3>1. IsFiniteSet(s.acks) /\ IsFiniteSet(Peers(s.acks))
      BY DEF GoodState
    <3>2. /\ IsFiniteSet(s.acks \cup {x})
          /\ Cardinality(s.acks \cup {x}) = Cardinality(s.acks) + 1
      BY <2>5, <3>1, FS_AddElement
    <3>3. /\ IsFiniteSet(Peers(s.acks) \cup {m.from})
          /\ Cardinality(Peers(s.acks) \cup {m.from}) = Cardinality(Peers(s.acks)) + 1
      BY <2>5, <3>1, FS_AddElement
    <3> HIDE DEF x, t
    <3> QED
      BY <2>3, <2>4, <3>2, <3>3
  <2>7. \A a, b \in t.acks : a.peer = b.peer => a = b
    BY <1>2, <2>2, <2>3 DEF GoodState
  <2>8. GoodState(n, t)
    BY <2>3, <2>6, <2>7 DEF GoodState
  <2>9. IsMajority(s.acks) => IsMajority(s.acks \cup {x})
    <3>1. Cardinality(s.acks \cup {x}) = Cardinality(s.acks) + 1
      BY <2>3, <2>6
    <3> HIDE DEF x, t
    <3> QED
      BY <1>0, <3>1, LPaxosAssumption DEF IsMajority
  <2> QED
    BY <2>1, <2>8, <2>9
<1> QED
  BY <1>1, <1>2

\* The peers of more than half of the acks are a quorum.
LEMMA MajorityOfPeers ==
  ASSUME NEW n \in Node, NEW s, GoodState(n, s), IsMajority(s.acks)
  PROVE  /\ Quorum(Peers(s.acks)) /\ Peers(s.acks) \in SUBSET Node
         /\ s.acks # {}
<1>1. Cardinality(s.acks) \in Nat /\ Cardinality(s.acks) > Replicas \div 2
  BY FS_CardinalityType DEF GoodState, IsMajority
<1>2. 2 * Cardinality(s.acks) > Replicas /\ Cardinality(s.acks) > 0
  BY <1>1, LPaxosAssumption
<1>3. s.acks # {}
  BY <1>2, FS_EmptySet
<1> QED
  BY <1>2, <1>3 DEF Quorum, GoodState, NodeState, Peers

-----------------------------------------------------------------------------
(* The invariant *)

Value(p, log) == [phase |-> p, log |-> log]
Vote(a, p, log) == [peer |-> a, phase |-> p, log |-> log]

\* What an ack of peer a in phase p tells, which says last and log: a is in
\* that phase at least, has accepted the log in phase last, nothing between
\* the two, and is as it says until it accepts in phase p or later.
AckFact(a, p, last, log) ==
  /\ a \in Node /\ node[a].phase >= p /\ last <= p
  /\ last >= 0 => Vote(a, last, log) \in accepted
  /\ \A x \in accepted : x.peer = a /\ x.phase < p => x.phase <= last
  /\ node[a].last < p => node[a].last = last /\ node[a].log = log

\* What a node in state s relies on: its acks and its promises tell the truth,
\* and a leader that has proposed has the acks of a quorum.
NodeFact(n, s) ==
  /\ \A a \in s.acks : AckFact(a.peer, s.phase, a.last, a.log)
  /\ \A q \in s.promises : node[q].last >= s.phase
  /\ GetLeader(s.phase) = n /\ s.step >= StepPropose => IsMajority(s.acks)

\* The log of a node is what it accepted last.
OwnLog(n) ==
  /\ node[n].last <= node[n].phase
  /\ node[n].last >= 0 => Vote(n, node[n].last, node[n].log) \in accepted
  /\ \A x \in accepted : x.peer = n => x.phase <= node[n].last

ProposeFact(m) ==
  /\ Value(m.phase, m.log) \in proposed
  /\ m.from = GetLeader(m.phase)
  /\ node[m.from].phase >= m.phase
  /\ node[m.from].phase = m.phase => IsMajority(node[m.from].acks)

MessageFact(m) ==
  /\ m.type = "Ack" => AckFact(m.from, m.phase, m.last, m.log)
  /\ m.type = "Promise" => node[m.from].last >= m.phase
  /\ m.type = "Propose" => ProposeFact(m)

Nodes == \A n \in Node : NodeFact(n, node[n]) /\ OwnLog(n)
Mail == \A m \in messages \cup outbox : MessageFact(m)

\* A quorum has reached the phase of every proposal.
Backed ==
  \A q \in proposed : \E Q \in SUBSET Node :
    Quorum(Q) /\ \A a \in Q : node[a].phase >= q.phase

AcceptedProposed == \A x \in accepted : Value(x.phase, x.log) \in proposed

\* A quorum has not accepted c and has left its phase.
Blocked(c) ==
  \E Q \in SUBSET Node :
    Quorum(Q) /\ \A a \in Q : node[a].phase > c.phase /\ Vote(a, c.phase, c.log) \notin accepted

OneProposal == \A p, q \in proposed : p.phase = q.phase => p = q

\* A later proposal extends an earlier one that may still be chosen.
Kept ==
  OneProposal =>
    \A c, p \in proposed : p.phase > c.phase => IsPrefixOf(c.log, p.log) \/ Blocked(c)

IInv == Types /\ Nodes /\ Mail /\ Backed /\ AcceptedProposed /\ Kept

-----------------------------------------------------------------------------
(* How a step changes a node *)

\* What is said in the messages that node n sends in state s.
OutFact(n, s, m) ==
  /\ m.type = "Ack" => m.from = n /\ m.phase = s.phase /\ m.last = s.last /\ m.log = s.log
  /\ m.type = "Promise" => m.from = n /\ m.phase = s.phase /\ s.last = s.phase
  /\ m.type = "Propose" => /\ m.from = n /\ m.phase = s.phase
                          /\ GetLeader(s.phase) = n /\ IsMajority(s.acks)
                          /\ Value(m.phase, m.log) \in proposed'

Change(n, s, out) ==
  /\ GoodState(n, s) /\ NodeFact(n, s)
  /\ node' = [node EXCEPT ![n] = s]
  /\ s.phase >= node[n].phase
  /\ s.phase = node[n].phase /\ IsMajority(node[n].acks) => IsMajority(s.acks)
  /\ out \subseteq Messages /\ \A m \in out : OutFact(n, s, m)
  /\ messages' \cup outbox' \subseteq messages \cup outbox \cup out
  /\ requests' \in Entries /\ expiries' \in 0..MaxExpiries

KeepsLog(n, s) == s.last = node[n].last /\ s.log = node[n].log /\ accepted' = accepted

Accepts(n, s) ==
  /\ s.last = s.phase /\ Value(s.phase, s.log) \in proposed
  /\ accepted' = accepted \cup {Vote(n, s.phase, s.log)}
  /\ proposed' = proposed

Proposes(n, s) ==
  /\ KeepsLog(n, s)
  /\ \/ proposed' = proposed
     \/ /\ IsMajority(s.acks)
        /\ \E log \in Entries, a \in s.acks :
             /\ \A b \in s.acks : b.last <= a.last
             /\ IsPrefixOf(a.log, log)
             /\ proposed' = proposed \cup {Value(s.phase, log)}

LEMMA StateFields ==
  ASSUME NEW n \in Node, NEW s, GoodState(n, s)
  PROVE  /\ s.phase \in Phase /\ s.last \in Phase \cup {-1} /\ s.log \in Entries
         /\ s.phase \in Int /\ s.last \in Int /\ s.last >= -1
         /\ s.acks \subseteq [peer : Node, last : Phase \cup {-1}, log : Entries]
         /\ s.promises \subseteq Node
  BY LPaxosAssumption DEF GoodState, NodeState

LEMMA ChangeTypes ==
  ASSUME Types, NEW n \in Node, NEW s, NEW out, Change(n, s, out),
         Accepts(n, s) \/ Proposes(n, s)
  PROVE  Types'
<1>1. s \in NodeState /\ GoodState(n, s)
  BY DEF Change, GoodState
<1>2. /\ node' \in [Node -> NodeState]
      /\ \A k \in Node : node'[k] = IF k = n THEN s ELSE node[k]
  BY <1>1 DEF Change, Types
<1>3. \A k \in Node : GoodState(k, node'[k])
  BY <1>1, <1>2 DEF Types
<1>4. messages' \subseteq Messages /\ outbox' \subseteq Messages
  BY DEF Change, Types
<1>5. s.phase \in Phase /\ s.log \in Entries
  BY <1>1, StateFields
<1>6. accepted' \subseteq [peer : Node, phase : Phase, log : Entries]
  <2>1. Vote(n, s.phase, s.log) \in [peer : Node, phase : Phase, log : Entries]
    BY <1>5 DEF Vote
  <2> QED
    BY <2>1 DEF Types, Accepts, Proposes, KeepsLog
<1>7. proposed' \subseteq [phase : Phase, log : Entries]
  <2>1. \A log \in Entries : Value(s.phase, log) \in [phase : Phase, log : Entries]
    BY <1>5 DEF Value
  <2> QED
    BY <2>1 DEF Types, Accepts, Proposes
<1>8. requests' \in Entries /\ expiries' \in 0..MaxExpiries
  BY DEF Change
<1> QED
  BY <1>2, <1>3, <1>4, <1>6, <1>7, <1>8 DEF Types

\* An ack goes on telling the truth.
LEMMA AckFactStays ==
  ASSUME Types, NEW n \in Node, OwnLog(n), NEW s, NEW out, Change(n, s, out),
         Accepts(n, s) \/ KeepsLog(n, s),
         NEW a, NEW p \in Phase, NEW last \in Phase \cup {-1}, NEW log,
         AckFact(a, p, last, log)
  PROVE  AckFact(a, p, last, log)'
<1>0. node[n].phase \in Int /\ s.phase \in Int /\ p \in Int /\ last \in Int
      /\ node[n].last \in Int
  BY StateFields, LPaxosAssumption DEF Types, Change
<1>1. \A k \in Node : node'[k] = IF k = n THEN s ELSE node[k]
  BY DEF Change, Types
<1>2. s.phase >= node[n].phase
  BY DEF Change
<1>3. accepted \subseteq accepted'
  BY DEF Accepts, KeepsLog
<1>4. \A x \in accepted' : x.peer = a /\ x.phase < p => x.phase <= last
  <2>1. CASE KeepsLog(n, s)
    BY <2>1 DEF KeepsLog, AckFact
  <2>2. CASE Accepts(n, s)
    <3>1. ASSUME a = n PROVE ~(s.phase < p)
      BY <1>0, <1>2, <3>1 DEF AckFact
    <3>2. Vote(n, s.phase, s.log).peer = n /\ Vote(n, s.phase, s.log).phase = s.phase
      BY DEF Vote
    <3> QED
      BY <2>2, <3>1, <3>2 DEF Accepts, AckFact
  <2> QED
    BY <2>1, <2>2
<1>5. node'[a].phase >= p
  BY <1>0, <1>1, <1>2 DEF AckFact
<1>6. node'[a].last < p => node'[a].last = last /\ node'[a].log = log
  <2>1. CASE a # n \/ KeepsLog(n, s)
    BY <1>1, <2>1 DEF AckFact, KeepsLog
  <2>2. CASE a = n /\ Accepts(n, s)
    BY <1>0, <1>1, <1>5, <2>2 DEF Accepts
  <2> QED
    BY <2>1, <2>2
<1> QED
  BY <1>3, <1>4, <1>5, <1>6 DEF AckFact

\* No node forgets what it accepted last.
LEMMA LastGrows ==
  ASSUME Types, NEW n \in Node, OwnLog(n), NEW s, NEW out, Change(n, s, out),
         Accepts(n, s) \/ KeepsLog(n, s), NEW q \in Node
  PROVE  /\ node[q].last \in Int /\ node'[q].last \in Int
         /\ node'[q].last >= node[q].last
<1>1. node[q].last \in Int /\ node[n].phase \in Int /\ node[n].last \in Int
  BY StateFields DEF Types
<1>2. s.last \in Int /\ s.phase \in Int
  BY StateFields DEF Change
<1>3. node'[q] = IF q = n THEN s ELSE node[q]
  BY DEF Change, Types
<1>4. s.last >= node[n].last
  BY <1>1, <1>2 DEF Change, Accepts, KeepsLog, OwnLog
<1> QED
  BY <1>1, <1>2, <1>3, <1>4

LEMMA ChangeNodes ==
  ASSUME Types, Nodes, NEW n \in Node, NEW s, NEW out, Change(n, s, out),
         Accepts(n, s) \/ KeepsLog(n, s)
  PROVE  Nodes'
<1>0. OwnLog(n)
  BY DEF Nodes
<1>1. \A k \in Node : node'[k] = IF k = n THEN s ELSE node[k]
  BY DEF Change, Types
<1>2. ASSUME NEW k \in Node, NEW t, NodeFact(k, t), GoodState(k, t) PROVE NodeFact(k, t)'
  <2>0. t.phase \in Phase /\ t.phase \in Int /\ t.promises \subseteq Node
        /\ t.acks \subseteq [peer : Node, last : Phase \cup {-1}, log : Entries]
    BY <1>2, StateFields
  <2>1. ASSUME NEW a \in t.acks PROVE AckFact(a.peer, t.phase, a.last, a.log)'
    <3>1. AckFact(a.peer, t.phase, a.last, a.log) /\ a.last \in Phase \cup {-1}
      BY <1>2, <2>0 DEF NodeFact
    <3> QED
      BY <1>0, <2>0, <3>1, AckFactStays
  <2>2. ASSUME NEW q \in t.promises PROVE node'[q].last >= t.phase
    <3>1. node[q].last >= t.phase /\ q \in Node
      BY <1>2, <2>0 DEF NodeFact
    <3>2. node[q].last \in Int /\ node'[q].last \in Int /\ node'[q].last >= node[q].last
      BY <1>0, <3>1, LastGrows
    <3> QED
      BY <2>0, <3>1, <3>2
  <2> QED
    BY <1>2, <2>1, <2>2 DEF NodeFact
<1>3. ASSUME NEW k \in Node PROVE NodeFact(k, node[k])' /\ OwnLog(k)'
  <2>1. CASE k # n
    <3>1. NodeFact(k, node[k])'
      <4>1. NodeFact(k, node[k]) /\ GoodState(k, node[k])
        BY DEF Nodes, Types
      <4>2. node'[k] = node[k]
        BY <1>1, <2>1
      <4> QED
        BY <1>2, <4>1, <4>2
    <3>2. \A x \in accepted' : x.peer = k => x \in accepted
      BY <2>1 DEF Accepts, KeepsLog, Vote
    <3>3. accepted \subseteq accepted'
      BY DEF Accepts, KeepsLog
    <3>4. OwnLog(k)'
      BY <1>1, <2>1, <3>2, <3>3 DEF OwnLog, Nodes
    <3> QED
      BY <3>1, <3>4
  <2>2. CASE k = n
    <3>1. NodeFact(n, s) /\ GoodState(n, s) /\ node'[n] = s
      BY <1>1 DEF Change
    <3>2. NodeFact(k, node[k])'
      BY <1>2, <2>2, <3>1
    <3>3. OwnLog(n)'
      <4>0. /\ s.phase \in Int /\ s.last \in Int /\ node[n].phase \in Int
            /\ node[n].last \in Int /\ s.phase >= node[n].phase
        BY <3>1, StateFields DEF Types, Change
      <4>1. CASE KeepsLog(n, s)
        BY <1>0, <3>1, <4>0, <4>1 DEF KeepsLog, OwnLog
      <4>2. CASE Accepts(n, s)
        <5>1. s.last = s.phase
          BY <4>2 DEF Accepts
        <5>2. ASSUME NEW x \in accepted', x.peer = n PROVE x.phase <= s.last
          <6>1. CASE x \in accepted
            <7>1. x.phase <= node[n].last /\ node[n].last <= node[n].phase
              BY <1>0, <5>2, <6>1 DEF OwnLog
            <7>2. x.phase \in Int
              BY <6>1, LPaxosAssumption DEF Types
            <7> QED
              BY <4>0, <5>1, <7>1, <7>2
          <6>2. CASE x = Vote(n, s.phase, s.log)
            BY <4>0, <5>1, <6>2 DEF Vote
          <6> QED
            BY <4>2, <6>1, <6>2 DEF Accepts
        <5>3. Vote(n, s.last, s.log) \in accepted'
          BY <4>2, <5>1 DEF Accepts
        <5> QED
          BY <3>1, <4>0, <5>1, <5>2, <5>3 DEF OwnLog
      <4> QED
        BY <4>1, <4>2
    <3> QED
      BY <2>2, <3>2, <3>3
  <2> QED
    BY <2>1, <2>2
<1> QED
  BY <1>3 DEF Nodes

LEMMA ChangeMail ==
  ASSUME Types, Nodes, Mail, NEW n \in Node, NEW s, NEW out, Change(n, s, out),
         Accepts(n, s) \/ Proposes(n, s), Nodes'
  PROVE  Mail'
<1>0. OwnLog(n) /\ (Accepts(n, s) \/ KeepsLog(n, s))
  BY DEF Nodes, Proposes
<1>1. \A k \in Node : node'[k] = IF k = n THEN s ELSE node[k]
  BY DEF Change, Types
<1>2. proposed \subseteq proposed'
  BY DEF Accepts, Proposes
<1>3. /\ s.phase \in Int /\ s.phase \in Phase /\ node[n].phase \in Int
      /\ s.phase >= node[n].phase
      /\ s.phase = node[n].phase /\ IsMajority(node[n].acks) => IsMajority(s.acks)
  BY StateFields DEF Change, Types
<1>4. ASSUME NEW m \in messages \cup outbox PROVE MessageFact(m)'
  <2>0. /\ m.from \in Node /\ m.phase \in Phase /\ m.phase \in Int
        /\ m.last \in Phase \cup {-1} /\ MessageFact(m)
    BY LPaxosAssumption DEF Types, Messages, Mail
  <2>1. m.type = "Ack" => AckFact(m.from, m.phase, m.last, m.log)'
    BY <1>0, <2>0, AckFactStays DEF MessageFact
  <2>2. m.type = "Promise" => node'[m.from].last >= m.phase
    <3>1. /\ node[m.from].last \in Int /\ node'[m.from].last \in Int
          /\ node'[m.from].last >= node[m.from].last
      BY <1>0, <2>0, LastGrows
    <3> QED
      BY <2>0, <3>1 DEF MessageFact
  <2>3. ASSUME m.type = "Propose" PROVE ProposeFact(m)'
    <3>1. ProposeFact(m)
      BY <2>0, <2>3 DEF MessageFact
    <3>2. CASE m.from = n
      BY <1>1, <1>2, <1>3, <2>0, <3>1, <3>2 DEF ProposeFact
    <3>3. CASE m.from # n
      BY <1>1, <1>2, <2>0, <3>1, <3>3 DEF ProposeFact
    <3> QED
      BY <3>2, <3>3
  <2> QED
    BY <2>1, <2>2, <2>3 DEF MessageFact
<1>5. ASSUME NEW m \in out PROVE MessageFact(m)'
  <2>0. OutFact(n, s, m) /\ node'[n] = s
    BY <1>1 DEF Change
  <2>1. ASSUME m.type = "Ack" PROVE AckFact(m.from, m.phase, m.last, m.log)'
    <3>1. m.from = n /\ m.phase = s.phase /\ m.last = s.last /\ m.log = s.log
      BY <2>0, <2>1 DEF OutFact
    <3>2. OwnLog(n)'
      BY DEF Nodes
    <3>3. /\ s.last <= s.phase
          /\ s.last >= 0 => Vote(n, s.last, s.log) \in accepted'
          /\ \A x \in accepted' : x.peer = n => x.phase <= s.last
      BY <2>0, <3>2 DEF OwnLog
    <3> QED
      BY <1>3, <2>0, <3>1, <3>3 DEF AckFact
  <2>2. m.type = "Promise" => node'[m.from].last >= m.phase
    BY <1>3, <2>0 DEF OutFact
  <2>3. m.type = "Propose" => ProposeFact(m)'
    BY <1>3, <2>0 DEF OutFact, ProposeFact
  <2> QED
    BY <2>1, <2>2, <2>3 DEF MessageFact
<1>6. messages' \cup outbox' \subseteq messages \cup outbox \cup out
  BY DEF Change
<1> QED
  BY <1>4, <1>5, <1>6 DEF Mail

-----------------------------------------------------------------------------
(* Prefixes *)

LEMMA PrefixPointwise ==
  ASSUME NEW s \in Entries, NEW t \in Entries
  PROVE  IsPrefixOf(s, t) <=> Len(s) <= Len(t) /\ \A i \in 1..Len(s) : t[i] = s[i]
<1>1. Len(s) \in Nat /\ Len(t) \in Nat
  BY LenProperties DEF Entries
<1>2. CASE Len(s) <= Len(t)
  <2> DEFINE u == SubSeq(t, 1, Len(s))
  <2>1. \A i \in 1..Len(s) : t[i] \in Command
    <3>1. \A i \in 1..Len(s) : i \in 1..Len(t)
      BY <1>1, <1>2
    <3>2. t \in Seq(Command)
      BY DEF Entries
    <3> QED
      BY <3>1, <3>2, ElementOfSeq
  <2>2. /\ u \in Seq(Command) /\ Len(u) = Len(s)
        /\ \A i \in 1..Len(s) : u[i] = t[i]
    <3>1. /\ u \in Seq(Command)
          /\ Len(u) = IF 1 <= Len(s) THEN Len(s) - 1 + 1 ELSE 0
          /\ \A i \in 1..(Len(s) - 1 + 1) : u[i] = t[1 + i - 1]
      BY <1>1, <2>1, SubSeqProperties
    <3> HIDE DEF u
    <3> QED
      BY <1>1, <3>1
  <2> HIDE DEF u
  <2>3. ASSUME \A i \in 1..Len(s) : t[i] = s[i] PROVE u = s
    BY <2>2, <2>3, SeqEqual DEF Entries
  <2>4. IsPrefixOf(s, t) <=> u = s
    BY <1>2 DEF IsPrefixOf, u
  <2> QED
    BY <1>2, <2>2, <2>3, <2>4
<1>3. CASE ~(Len(s) <= Len(t))
  BY <1>3 DEF IsPrefixOf
<1> QED
  BY <1>2, <1>3

LEMMA PrefixTransitive ==
  ASSUME NEW s \in Entries, NEW t \in Entries, NEW u \in Entries,
         IsPrefixOf(s, t), IsPrefixOf(t, u)
  PROVE  IsPrefixOf(s, u)
<1>1. Len(s) \in Nat /\ Len(t) \in Nat /\ Len(u) \in Nat
  BY LenProperties DEF Entries
<1> QED
  BY <1>1, PrefixPointwise

LEMMA PrefixOfConcat ==
  ASSUME NEW s \in Entries, NEW t \in Entries
  PROVE  s \o t \in Entries /\ IsPrefixOf(s, s \o t) /\ IsPrefixOf(s, s)
<1>1. Len(s) \in Nat /\ Len(t) \in Nat
  BY LenProperties DEF Entries
<1>2. /\ s \o t \in Entries /\ Len(s \o t) = Len(s) + Len(t)
      /\ \A i \in 1..Len(s) + Len(t) : (s \o t)[i] = IF i <= Len(s) THEN s[i] ELSE t[i - Len(s)]
  BY ConcatProperties DEF Entries
<1>3. \A i \in 1..Len(s) : (s \o t)[i] = s[i]
  BY <1>1, <1>2
<1>4. Len(s) <= Len(s \o t)
  BY <1>1, <1>2
<1>5. IsPrefixOf(s, s)
  BY <1>1, PrefixPointwise
<1>6. IsPrefixOf(s, s \o t)
  <2> DEFINE u == s \o t
  <2> HIDE DEF u
  <2>1. u \in Entries /\ Len(s) <= Len(u) /\ \A i \in 1..Len(s) : u[i] = s[i]
    BY <1>2, <1>3, <1>4 DEF u
  <2>2. IsPrefixOf(s, u)
    BY <2>1, PrefixPointwise
  <2> QED
    BY <2>2 DEF u
<1> QED
  BY <1>2, <1>5, <1>6

-----------------------------------------------------------------------------
(* What was proposed and accepted *)

LEMMA ValueFields ==
  ASSUME NEW p, NEW log
  PROVE  Value(p, log).phase = p /\ Value(p, log).log = log
  BY DEF Value

LEMMA ProposedFields ==
  ASSUME Types, NEW c \in proposed
  PROVE  /\ c.phase \in Phase /\ c.phase \in Int /\ c.phase >= 0 /\ c.log \in Entries
         /\ c = Value(c.phase, c.log)
  BY LPaxosAssumption DEF Types, Value

LEMMA PhasesGrow ==
  ASSUME Types, NEW n \in Node, NEW s, NEW out, Change(n, s, out)
  PROVE  \A k \in Node : /\ node[k].phase \in Int /\ node'[k].phase \in Int
                         /\ node'[k].phase >= node[k].phase
<1>1. \A k \in Node : node'[k] = IF k = n THEN s ELSE node[k]
  BY DEF Change, Types
<1>2. s.phase \in Int /\ s.phase >= node[n].phase
  BY StateFields DEF Change
<1>3. \A k \in Node : node[k].phase \in Int
  BY StateFields DEF Types
<1> QED
  BY <1>1, <1>2, <1>3

\* What a quorum has made impossible stays so.
LEMMA BlockedStays ==
  ASSUME Types, NEW n \in Node, NEW s, NEW out, Change(n, s, out),
         Accepts(n, s) \/ KeepsLog(n, s), NEW c \in proposed, Blocked(c)
  PROVE  Blocked(c)'
<1>1. PICK Q \in SUBSET Node :
        Quorum(Q) /\ \A a \in Q : node[a].phase > c.phase /\ Vote(a, c.phase, c.log) \notin accepted
  BY DEF Blocked
<1>2. c.phase \in Int /\ s.phase \in Int /\ s.phase >= node[n].phase /\ node[n].phase \in Int
  BY ProposedFields, StateFields DEF Change, Types
<1>3. ASSUME NEW a \in Q PROVE node'[a].phase > c.phase /\ Vote(a, c.phase, c.log) \notin accepted'
  <2>1. node'[a].phase > c.phase
    BY <1>1, <1>2, PhasesGrow
  <2>2. CASE Accepts(n, s)
    <3>1. ASSUME Vote(a, c.phase, c.log) = Vote(n, s.phase, s.log) PROVE FALSE
      <4>1. a = n /\ c.phase = s.phase
        BY <3>1 DEF Vote
      <4> QED
        BY <1>1, <1>2, <4>1
    <3> QED
      BY <1>1, <2>1, <2>2, <3>1 DEF Accepts
  <2>3. CASE KeepsLog(n, s)
    BY <1>1, <2>1, <2>3 DEF KeepsLog
  <2> QED
    BY <2>2, <2>3
<1> QED
  BY <1>1, <1>3 DEF Blocked

LEMMA ChangeAccepted ==
  ASSUME Types, AcceptedProposed, NEW n \in Node, NEW s,
         Accepts(n, s) \/ Proposes(n, s)
  PROVE  AcceptedProposed'
<1>1. Vote(n, s.phase, s.log).phase = s.phase /\ Vote(n, s.phase, s.log).log = s.log
  BY DEF Vote
<1> QED
  BY <1>1 DEF AcceptedProposed, Accepts, Proposes, KeepsLog

\* The peers of the acks that a leader proposes on have reached its phase.
LEMMA AcksReached ==
  ASSUME Types, NEW n \in Node, NEW s, GoodState(n, s), NodeFact(n, s)
  PROVE  \A a \in Peers(s.acks) : node[a].phase >= s.phase
  BY DEF Peers, NodeFact, AckFact

LEMMA ChangeBacked ==
  ASSUME Types, Backed, NEW n \in Node, NEW s, NEW out, Change(n, s, out),
         Accepts(n, s) \/ Proposes(n, s)
  PROVE  Backed'
<1>0. GoodState(n, s) /\ NodeFact(n, s) /\ s.phase \in Int
  BY StateFields DEF Change
<1>1. ASSUME NEW q, q.phase \in Int, NEW Q \in SUBSET Node, Quorum(Q),
             \A a \in Q : node[a].phase >= q.phase
      PROVE  \E R \in SUBSET Node : Quorum(R) /\ \A a \in R : node'[a].phase >= q.phase
  <2>1. \A a \in Q : node'[a].phase >= q.phase
    BY <1>1, PhasesGrow
  <2> QED
    BY <1>1, <2>1
<1>2. ASSUME NEW q \in proposed
      PROVE  \E R \in SUBSET Node : Quorum(R) /\ \A a \in R : node'[a].phase >= q.phase
  BY <1>1, ProposedFields DEF Backed
<1>3. ASSUME NEW log, IsMajority(s.acks)
      PROVE  \E R \in SUBSET Node :
               Quorum(R) /\ \A a \in R : node'[a].phase >= Value(s.phase, log).phase
  <2>1. /\ Quorum(Peers(s.acks)) /\ Peers(s.acks) \in SUBSET Node
        /\ \A a \in Peers(s.acks) : node[a].phase >= s.phase
    BY <1>0, <1>3, MajorityOfPeers, AcksReached
  <2> QED
    BY <1>0, <1>1, <2>1, ValueFields
<1> QED
  BY <1>2, <1>3 DEF Backed, Accepts, Proposes

\* The heart of it: a proposal on the acks of a quorum extends what may have
\* been chosen in any earlier phase.
LEMMA ProposalExtends ==
  ASSUME Types, Backed, AcceptedProposed, Kept, OneProposal,
         NEW n \in Node, NEW s, GoodState(n, s), NodeFact(n, s), IsMajority(s.acks),
         NEW log \in Entries, NEW a \in s.acks, \A b \in s.acks : b.last <= a.last,
         IsPrefixOf(a.log, log),
         \A v \in proposed : v.phase = s.phase => v = Value(s.phase, log),
         Value(s.phase, log) \notin proposed,
         NEW c \in proposed, s.phase > c.phase
  PROVE  IsPrefixOf(c.log, log) \/ Blocked(c)
<1>0. /\ c.phase \in Int /\ c.phase >= 0 /\ c.log \in Entries /\ c = Value(c.phase, c.log)
      /\ s.phase \in Int
      /\ \A b \in s.acks : b.last \in Int /\ b.log \in Entries
      /\ \A b \in s.acks : AckFact(b.peer, s.phase, b.last, b.log)
  BY ProposedFields, StateFields, LPaxosAssumption DEF NodeFact
<1>1. Quorum(Peers(s.acks)) /\ Peers(s.acks) \in SUBSET Node
  BY MajorityOfPeers
<1>2. CASE \A b \in s.acks : Vote(b.peer, c.phase, c.log) \notin accepted
  <2>1. \A q \in Peers(s.acks) : node[q].phase >= s.phase /\ node[q].phase \in Int
    BY <1>1, AcksReached, StateFields DEF Types
  <2>2. \A q \in Peers(s.acks) : Vote(q, c.phase, c.log) \notin accepted
    BY <1>2 DEF Peers
  <2>3. \A q \in Peers(s.acks) : node[q].phase > c.phase
    BY <1>0, <2>1
  <2> QED
    BY <1>1, <2>2, <2>3 DEF Blocked
<1>3. CASE \E b \in s.acks : Vote(b.peer, c.phase, c.log) \in accepted
  <2>1. PICK b \in s.acks : Vote(b.peer, c.phase, c.log) \in accepted
    BY <1>3
  <2>2. c.phase <= b.last
    <3>1. Vote(b.peer, c.phase, c.log).peer = b.peer /\ Vote(b.peer, c.phase, c.log).phase = c.phase
      BY DEF Vote
    <3> QED
      BY <1>0, <2>1, <3>1 DEF AckFact
  <2>3. a.last >= c.phase /\ a.last <= s.phase
    BY <1>0, <2>2 DEF AckFact
  <2>4. Value(a.last, a.log) \in proposed
    <3>1. Vote(a.peer, a.last, a.log) \in accepted
      BY <1>0, <2>3 DEF AckFact
    <3>2. Vote(a.peer, a.last, a.log).phase = a.last /\ Vote(a.peer, a.last, a.log).log = a.log
      BY DEF Vote
    <3> QED
      BY <3>1, <3>2 DEF AcceptedProposed
  <2>5. a.last # s.phase
    BY <2>4, ValueFields
  <2>6. CASE a.last = c.phase
    <3>1. c.log = a.log
      BY <2>4, <2>6, ValueFields DEF OneProposal
    <3> QED
      BY <3>1
  <2>7. CASE a.last > c.phase
    <3>1. IsPrefixOf(c.log, a.log) \/ Blocked(c)
      BY <2>4, <2>7, ValueFields DEF Kept
    <3> QED
      BY <1>0, <3>1, PrefixTransitive
  <2> QED
    BY <1>0, <2>3, <2>6, <2>7
<1> QED
  BY <1>2, <1>3

LEMMA ChangeKept ==
  ASSUME Types, Backed, AcceptedProposed, Kept,
         NEW n \in Node, NEW s, NEW out, Change(n, s, out),
         Accepts(n, s) \/ Proposes(n, s)
  PROVE  Kept'
<1> SUFFICES ASSUME OneProposal', NEW c \in proposed', NEW p \in proposed',
                    p.phase > c.phase
             PROVE  IsPrefixOf(c.log, p.log) \/ Blocked(c)'
  BY DEF Kept
<1>0. Accepts(n, s) \/ KeepsLog(n, s)
  BY DEF Proposes
<1>1. OneProposal
  BY DEF OneProposal, Accepts, Proposes
<1>2. CASE c \in proposed /\ p \in proposed
  <2>1. IsPrefixOf(c.log, p.log) \/ Blocked(c)
    BY <1>1, <1>2 DEF Kept
  <2> QED
    BY <1>0, <1>2, <2>1, BlockedStays
<1>3. CASE ~(c \in proposed /\ p \in proposed)
  <2>1. PICK log \in Entries, a \in s.acks :
          /\ IsMajority(s.acks) /\ \A b \in s.acks : b.last <= a.last
          /\ IsPrefixOf(a.log, log)
          /\ proposed' = proposed \cup {Value(s.phase, log)}
    BY <1>3 DEF Accepts, Proposes
  <2>2. accepted' = accepted
    BY <1>3 DEF Accepts, Proposes, KeepsLog
  <2>3. /\ s.phase \in Int /\ GoodState(n, s) /\ NodeFact(n, s)
        /\ Value(s.phase, log).phase = s.phase /\ Value(s.phase, log).log = log
    BY StateFields, ValueFields DEF Change
  <2>4. CASE c \notin proposed
    <3>1. c = Value(s.phase, log) /\ p \in proposed
      BY <2>1, <2>3, <2>4
    <3>2. PICK Q \in SUBSET Node : Quorum(Q) /\ \A q \in Q : node[q].phase >= p.phase
      BY <3>1 DEF Backed
    <3>3. \A q \in Q : node'[q].phase > c.phase
      BY <2>3, <3>1, <3>2, ProposedFields, PhasesGrow
    <3>4. \A q \in Q : Vote(q, c.phase, c.log) \notin accepted'
      <4>1. \A q : /\ Vote(q, c.phase, c.log).phase = c.phase
                   /\ Vote(q, c.phase, c.log).log = c.log
        BY DEF Vote
      <4>2. Value(c.phase, c.log) \notin proposed
        BY <2>3, <2>4, <3>1
      <4> QED
        BY <2>2, <4>1, <4>2 DEF AcceptedProposed
    <3> QED
      BY <3>2, <3>3, <3>4 DEF Blocked
  <2>5. CASE c \in proposed
    <3>1. p = Value(s.phase, log) /\ p \notin proposed
      BY <1>3, <2>1, <2>5
    <3>2. \A v \in proposed : v.phase = s.phase => v = Value(s.phase, log)
      BY <2>1, <2>3 DEF OneProposal
    <3>3. IsPrefixOf(c.log, log) \/ Blocked(c)
      BY <1>1, <2>1, <2>3, <2>5, <3>1, <3>2, ProposalExtends
    <3> QED
      BY <1>0, <2>3, <2>5, <3>1, <3>3, BlockedStays
  <2> QED
    BY <2>4, <2>5
<1> QED
  BY <1>2, <1>3

LEMMA ChangeKeeps ==
  ASSUME IInv, NEW n \in Node, NEW s, NEW out, Change(n, s, out),
         Accepts(n, s) \/ Proposes(n, s)
  PROVE  IInv'
<1> USE DEF IInv
<1>1. Accepts(n, s) \/ KeepsLog(n, s)
  BY DEF Proposes
<1>2. Types' /\ Nodes'
  BY <1>1, ChangeTypes, ChangeNodes
<1>3. Mail' /\ Backed' /\ AcceptedProposed' /\ Kept'
  BY <1>2, ChangeMail, ChangeBacked, ChangeAccepted, ChangeKept
<1> QED
  BY <1>2, <1>3

-----------------------------------------------------------------------------
(* The actions *)

LEMMA InitIInv == Init => IInv
<1> SUFFICES ASSUME Init PROVE IInv
  OBVIOUS
<1>0. /\ proposed = {} /\ accepted = {} /\ messages = {} /\ expiries = 0
      /\ node = [n \in Node |-> NewNode]
  BY DEF Init
<1>1. /\ outbox \subseteq Messages
      /\ \A m \in outbox : m.type = "Prepare"
  BY PreparesType, NoEntries DEF Init, Prepares, Broadcast, Msg
<1>2. \A n \in Node : GoodState(n, node[n]) /\ node[n] \in NodeState
  BY <1>0, NewNodeGood DEF GoodState
<1>3. requests \in Entries
  <2>1. [i \in 1..Requests |-> i] \in Seq(1..Requests)
    BY LPaxosAssumption
  <2> QED
    BY <2>1 DEF Init, Entries
<1>4. Types
  BY <1>0, <1>1, <1>2, <1>3, LPaxosAssumption DEF Types
<1>5. Nodes
  BY <1>0 DEF Nodes, NodeFact, OwnLog, NewNode
<1>6. Mail
  BY <1>0, <1>1 DEF Mail, MessageFact
<1>7. Backed /\ AcceptedProposed /\ Kept
  BY <1>0 DEF Backed, AcceptedProposed, Kept
<1> QED
  BY <1>4, <1>5, <1>6, <1>7 DEF IInv

\* Messages that say nothing about their sender.
Plain(out) ==
  out \subseteq Messages /\ \A m \in out : m.type \notin {"Ack", "Promise", "Propose"}

\* A step of node n that does not touch its log nor the history.
LEMMA QuietKeeps ==
  ASSUME IInv, NEW n \in Node, NEW s, GoodState(n, s), NodeFact(n, s),
         node' = [node EXCEPT ![n] = s],
         s.phase >= node[n].phase, s.last = node[n].last, s.log = node[n].log,
         s.phase = node[n].phase /\ IsMajority(node[n].acks) => IsMajority(s.acks),
         NEW out, out \subseteq Messages, \A m \in out : OutFact(n, s, m),
         messages' \cup outbox' \subseteq messages \cup outbox \cup out,
         requests' \in Entries, expiries' \in 0..MaxExpiries, UNCHANGED history
  PROVE  IInv'
<1>1. Change(n, s, out)
  BY DEF Change
<1>2. Proposes(n, s)
  BY DEF Proposes, KeepsLog, history
<1> QED
  BY <1>1, <1>2, ChangeKeeps

\* The same of the environment alone.
LEMMA EnvironmentKeeps ==
  ASSUME IInv, UNCHANGED <<node, history>>, NEW out, Plain(out),
         messages' \cup outbox' \subseteq messages \cup outbox \cup out,
         requests' \in Entries, expiries' \in 0..MaxExpiries
  PROVE  IInv'
<1>1. PICK n \in Node : TRUE
  BY LPaxosAssumption
<1> DEFINE s == node[n]
<1>2. GoodState(n, s) /\ NodeFact(n, s) /\ s.phase \in Int
  BY StateFields DEF IInv, Types, Nodes
<1>3. node' = [node EXCEPT ![n] = s]
  BY DEF IInv, Types
<1>4. out \subseteq Messages /\ \A m \in out : OutFact(n, s, m)
  BY DEF Plain, OutFact
<1>5. s.phase >= node[n].phase /\ s.last = node[n].last /\ s.log = node[n].log
      /\ s.acks = node[n].acks
  BY <1>2
<1>6. UNCHANGED history
  OBVIOUS
<1> HIDE DEF s
<1> QED
  BY <1>2, <1>3, <1>4, <1>5, <1>6, QuietKeeps

LEMMA QuietAction ==
  ASSUME IInv, NEW n \in Node, NEW s, GoodState(n, s), NodeFact(n, s),
         s.phase >= node[n].phase, s.last = node[n].last, s.log = node[n].log,
         s.phase = node[n].phase /\ IsMajority(node[n].acks) => IsMajority(s.acks),
         NEW out, out \subseteq Messages, \A m \in out : OutFact(n, s, m),
         NEW gone, Quiet(n, s, out, gone)
  PROVE  IInv'
<1>1. /\ messages' = (messages \ gone) \cup outbox \cup out /\ outbox' = {}
      /\ node' = [node EXCEPT ![n] = s] /\ UNCHANGED <<requests, expiries>>
      /\ UNCHANGED history
  BY DEF Quiet, Collected
<1>2. messages' \cup outbox' \subseteq messages \cup outbox \cup out
  BY <1>1
<1>3. requests' \in Entries /\ expiries' \in 0..MaxExpiries
  BY <1>1 DEF IInv, Types
<1> QED
  BY <1>1, <1>2, <1>3, QuietKeeps

LEMMA ProposeLogFields ==
  ASSUME NEW s \in NodeState, NEW n, NEW newLog,
         NEW t, t = ProposeLog(s, n, newLog)
  PROVE  /\ t \in NodeState /\ t.phase = s.phase /\ t.last = s.last /\ t.log = s.log
         /\ t.acks = s.acks /\ t.promises = s.promises /\ t.pending = <<>>
<1> DEFINE e == <<>>
           k == StepPropose
<1> HIDE DEF e, k
<1>1. t = [s EXCEPT !.step = k, !.pending = e]
  BY DEF ProposeLog, e, k
<1>2. t = [phase |-> s.phase, step |-> k, last |-> s.last, log |-> s.log,
           decided |-> s.decided, acks |-> s.acks, promises |-> s.promises,
           phaseChange |-> s.phaseChange, pending |-> e]
  BY <1>1 DEF NodeState
<1>3. k \in StepPrepare..StepPromise /\ e \in Entries
  BY NoEntries DEF k, e
<1>4. /\ s.phaseChange \in SUBSET Node /\ s.promises \in SUBSET Node
      /\ s.decided \in Nat /\ s.last \in Phase \cup {-1} /\ s.log \in Entries
      /\ s.acks \in SUBSET [peer : Node, last : Phase \cup {-1}, log : Entries]
      /\ s.phase \in Phase
  BY DEF NodeState
<1>5. /\ t \in NodeState /\ t.phase = s.phase /\ t.last = s.last /\ t.log = s.log
      /\ t.acks = s.acks /\ t.promises = s.promises /\ t.pending = e
  BY <1>2, <1>3, <1>4 DEF NodeState
<1> QED
  BY <1>5 DEF e

\* A leader with a quorum of acks proposes.
LEMMA ProposeKeeps ==
  ASSUME IInv, NEW n \in Node, NEW s, GoodState(n, s), NodeFact(n, s),
         s.phase >= node[n].phase, s.last = node[n].last, s.log = node[n].log,
         GetLeader(s.phase) = n, IsMajority(s.acks),
         NEW newLog \in Proposals(s),
         node' = [node EXCEPT ![n] = ProposeLog(s, n, newLog)],
         NEW out, Plain(out),
         messages' \cup outbox'
           \subseteq messages \cup outbox \cup out \cup ProposeSends(s, n, newLog),
         proposed' = proposed \cup
                       {[phase |-> m.phase, log |-> m.log] : m \in ProposeSends(s, n, newLog)},
         accepted' = accepted,
         requests' \in Entries, expiries' \in 0..MaxExpiries
  PROVE  IInv'
<1> DEFINE t == ProposeLog(s, n, newLog)
           sends == ProposeSends(s, n, newLog)
<1>0. /\ s \in NodeState /\ s.phase \in Phase /\ s.phase \in Int /\ s.pending \in Entries
      /\ s.acks \subseteq [peer : Node, last : Phase \cup {-1}, log : Entries]
  BY StateFields DEF GoodState, NodeState
<1>1. /\ t \in NodeState /\ t.phase = s.phase /\ t.last = s.last /\ t.log = s.log
      /\ t.acks = s.acks /\ t.promises = s.promises /\ t.pending = <<>>
  BY <1>0, ProposeLogFields
<1>2. GoodState(n, t)
  BY <1>1 DEF GoodState
<1>3. NodeFact(n, t)
  BY <1>1 DEF NodeFact
<1>4. PICK a \in s.acks : newLog = a.log \o s.pending /\ \A b \in s.acks : b.last <= a.last
  <2>1. s.acks # {}
    BY MajorityOfPeers
  <2> QED
    BY <2>1 DEF Proposals, Latest
<1>5. newLog \in Entries /\ IsPrefixOf(a.log, newLog)
  BY <1>0, <1>4, PrefixOfConcat
<1>6. /\ sends \subseteq Messages
      /\ \A m \in sends : m.type = "Propose" /\ m.phase = s.phase /\ m.from = n /\ m.log = newLog
  <2>1. Broadcast("Propose", s.phase, n, 0, newLog) \subseteq Messages
    BY <1>0, <1>5, BroadcastType, NoEntries
  <2> QED
    BY <2>1 DEF ProposeSends, Broadcast, Msg
<1>7. \A m \in sends : [phase |-> m.phase, log |-> m.log] = Value(s.phase, newLog)
  BY <1>6 DEF Value
<1>8. \/ proposed' = proposed /\ sends = {}
      \/ proposed' = proposed \cup {Value(s.phase, newLog)}
  BY <1>7
<1> HIDE DEF t, sends
<1>9. Proposes(n, t)
  BY <1>1, <1>4, <1>5, <1>8 DEF Proposes, KeepsLog
<1>10. \A m \in out \cup sends : OutFact(n, t, m)
  <2>1. ASSUME NEW m \in sends PROVE OutFact(n, t, m)
    <3>1. Value(s.phase, newLog) \in proposed'
      BY <1>8, <2>1
    <3> QED
      BY <1>1, <1>6, <3>1 DEF OutFact
  <2>2. ASSUME NEW m \in out PROVE OutFact(n, t, m)
    BY DEF Plain, OutFact
  <2> QED
    BY <2>1, <2>2
<1>11. Change(n, t, out \cup sends)
  <2>1. out \cup sends \subseteq Messages
    BY <1>6 DEF Plain
  <2>2. messages' \cup outbox' \subseteq messages \cup outbox \cup (out \cup sends)
    BY DEF sends
  <2>3. node' = [node EXCEPT ![n] = t]
    BY DEF t
  <2> QED
    BY <1>1, <1>2, <1>3, <1>10, <2>1, <2>2, <2>3 DEF Change
<1> QED
  BY <1>2, <1>9, <1>11, ChangeKeeps

\* A node in state t that has the acks of a node in state s.
LEMMA SameAcksGood ==
  ASSUME NEW n \in Node, NEW s, GoodState(n, s), NEW t, t \in NodeState,
         t.phase = s.phase, t.acks = s.acks, t.pending = s.pending
  PROVE  GoodState(n, t)
  BY DEF GoodState

\* The receiver of a message that is not too old, when it has moved.
LEMMA ReceiverFacts ==
  ASSUME IInv, NEW m \in messages, m.to \in Node, m.phase >= node[m.to].phase
  PROVE  LET n == m.to
             r == Receiver(m)
         IN  /\ m \in Messages /\ m.phase \in Phase /\ m.from \in Node
             /\ GoodState(n, r) /\ r \in NodeState /\ NodeFact(n, r)
             /\ r.phase = m.phase /\ r.last = node[n].last /\ r.log = node[n].log
             /\ r.phase >= node[n].phase
             /\ r.phase = node[n].phase => r = node[n]
             /\ r.phase = node[n].phase /\ IsMajority(node[n].acks) => IsMajority(r.acks)
             /\ Plain(MoveOut(m))
<1> DEFINE n == m.to
           r == Receiver(m)
<1>1. m \in Messages /\ m.phase \in Phase /\ m.from \in Node
  BY DEF IInv, Types, Messages
<1>2. GoodState(n, node[n]) /\ NodeFact(n, node[n])
  BY DEF IInv, Types, Nodes
<1>3. /\ r.phase = m.phase /\ r.last = node[n].last /\ r.log = node[n].log
      /\ m.phase = node[n].phase => r = node[n]
      /\ m.phase > node[n].phase => r.acks = {} /\ r.promises = {} /\ r.step = StepPrepare
  BY <1>1, <1>2, MovedFields DEF Receiver
<1>4. GoodState(n, r)
  BY <1>1, <1>2, MovedGood DEF Receiver
<1>5. Plain(MoveOut(m))
  BY <1>1, <1>2, MovedSendsType DEF MoveOut, Plain
<1>6. node[n].phase \in Int /\ m.phase \in Int
  BY <1>1, <1>2, StateFields, LPaxosAssumption
<1> HIDE DEF r
<1>7. NodeFact(n, r)
  <2>1. CASE m.phase = node[n].phase
    BY <1>2, <1>3, <2>1
  <2>2. CASE m.phase > node[n].phase
    BY <1>3, <2>2 DEF NodeFact
  <2> QED
    BY <1>6, <2>1, <2>2
<1>8. r \in NodeState
  BY <1>4 DEF GoodState
<1>9. r.phase >= node[n].phase /\ (r.phase = node[n].phase => r = node[n])
  BY <1>3
<1> QED
  BY <1>1, <1>3, <1>4, <1>5, <1>7, <1>8, <1>9 DEF r

LEMMA IgnoreKeeps ==
  ASSUME IInv, NEW m \in messages, Ignore(m) PROVE IInv'
<1> DEFINE n == m.to
           s == node[n]
<1>1. n \in Node /\ Quiet(n, s, {}, {m})
  BY DEF Ignore
<1>2. GoodState(n, s) /\ NodeFact(n, s) /\ s.phase \in Int
  BY <1>1, StateFields DEF IInv, Types, Nodes
<1>3. s.phase >= node[n].phase /\ s.last = node[n].last /\ s.log = node[n].log
      /\ s.acks = node[n].acks
  BY <1>2
<1> HIDE DEF s, n
<1> QED
  BY <1>1, <1>2, <1>3, QuietAction

LEMMA HeartbeatKeeps ==
  ASSUME IInv, NEW m \in messages, Heartbeat(m) PROVE IInv'
<1> DEFINE n == m.to
           r == Receiver(m)
<1>1. n \in Node /\ m.phase >= node[n].phase /\ Quiet(n, r, MoveOut(m), {m})
  BY DEF Heartbeat, Handled
<1>2. /\ GoodState(n, r) /\ NodeFact(n, r) /\ r.phase >= node[n].phase
      /\ r.last = node[n].last /\ r.log = node[n].log
      /\ r.phase = node[n].phase /\ IsMajority(node[n].acks) => IsMajority(r.acks)
      /\ Plain(MoveOut(m))
  BY <1>1, ReceiverFacts
<1> HIDE DEF r, n
<1>3. MoveOut(m) \subseteq Messages /\ \A x \in MoveOut(m) : OutFact(n, r, x)
  BY <1>2 DEF Plain, OutFact
<1> QED
  BY <1>1, <1>2, <1>3, QuietAction

LEMMA PhaseChangeFields ==
  ASSUME NEW r \in NodeState, NEW q \in Node
  PROVE  LET s == [r EXCEPT !.phaseChange = @ \cup {q}]
         IN  /\ s \in NodeState /\ s.phase = r.phase /\ s.last = r.last /\ s.log = r.log
             /\ s.acks = r.acks /\ s.promises = r.promises /\ s.pending = r.pending
             /\ s.step = r.step
  BY DEF NodeState

LEMMA PhaseChangeKeeps ==
  ASSUME IInv, NEW m \in messages, PhaseChange(m) PROVE IInv'
<1> DEFINE n == m.to
           r == Receiver(m)
           s == [r EXCEPT !.phaseChange = @ \cup {m.from}]
           out == IF ~IsMajority(s.phaseChange) THEN {}
                  ELSE IF GetLeader(m.phase) = m.to THEN Prepares(m.phase, m.to)
                  ELSE Broadcast("PhaseChange", m.phase, m.to, s.last, s.log)
<1>1. n \in Node /\ m.phase >= node[n].phase /\ Quiet(n, s, MoveOut(m) \cup out, {m})
  BY DEF PhaseChange, Handled
<1>2. /\ GoodState(n, r) /\ NodeFact(n, r) /\ r.phase >= node[n].phase /\ r \in NodeState
      /\ r.last = node[n].last /\ r.log = node[n].log /\ m.from \in Node /\ m.phase \in Phase
      /\ r.phase = node[n].phase /\ IsMajority(node[n].acks) => IsMajority(r.acks)
      /\ Plain(MoveOut(m))
  BY <1>1, ReceiverFacts
<1> HIDE DEF r
<1>3. /\ s \in NodeState /\ s.phase = r.phase /\ s.last = r.last /\ s.log = r.log
      /\ s.acks = r.acks /\ s.promises = r.promises /\ s.pending = r.pending /\ s.step = r.step
  BY <1>2, PhaseChangeFields
<1> HIDE DEF s
<1>4. GoodState(n, s) /\ NodeFact(n, s)
  BY <1>1, <1>2, <1>3, SameAcksGood DEF NodeFact
<1>5. Plain(out)
  <2>1. s.last \in Phase \cup {-1} /\ s.log \in Entries
    BY <1>3 DEF NodeState
  <2>2. Plain(Prepares(m.phase, n))
    BY <1>1, <1>2, PreparesType DEF Plain, Prepares, Broadcast, Msg
  <2>3. Plain(Broadcast("PhaseChange", m.phase, n, s.last, s.log))
    BY <1>1, <1>2, <2>1, BroadcastType DEF Plain, Broadcast, Msg
  <2> QED
    BY <2>2, <2>3 DEF Plain
<1> HIDE DEF out
<1>6. /\ MoveOut(m) \cup out \subseteq Messages
      /\ \A x \in MoveOut(m) \cup out : OutFact(n, s, x)
  BY <1>2, <1>5 DEF Plain, OutFact
<1> HIDE DEF n
<1> QED
  BY <1>1, <1>2, <1>3, <1>4, <1>6, QuietAction

LEMMA StepFields ==
  ASSUME NEW r \in NodeState, NEW k \in StepPrepare..StepPromise
  PROVE  LET s == [r EXCEPT !.step = k]
         IN  /\ s \in NodeState /\ s.phase = r.phase /\ s.last = r.last /\ s.log = r.log
             /\ s.acks = r.acks /\ s.promises = r.promises /\ s.pending = r.pending
             /\ s.step = k
  BY DEF NodeState

LEMMA PrepareKeeps ==
  ASSUME IInv, NEW m \in messages, Prepare(m) PROVE IInv'
<1> DEFINE n == m.to
           r == Receiver(m)
           leader == GetLeader(r.phase)
           k == IF leader = n THEN StepAck ELSE StepPropose
           s == [r EXCEPT !.step = k]
           ack == Msg("Ack", s.phase, n, leader, s.last, s.log)
<1>1. n \in Node /\ m.phase >= node[n].phase /\ Quiet(n, s, MoveOut(m) \cup {ack}, {m})
  BY DEF Prepare, Handled
<1>2. /\ GoodState(n, r) /\ NodeFact(n, r) /\ r.phase >= node[n].phase /\ r \in NodeState
      /\ r.last = node[n].last /\ r.log = node[n].log /\ r.phase \in Phase
      /\ r.phase = node[n].phase /\ IsMajority(node[n].acks) => IsMajority(r.acks)
      /\ Plain(MoveOut(m))
  BY <1>1, ReceiverFacts
<1> HIDE DEF r
<1>3. k \in StepPrepare..StepPromise /\ (leader = n => k < StepPropose)
  OBVIOUS
<1> HIDE DEF k
<1>4. /\ s \in NodeState /\ s.phase = r.phase /\ s.last = r.last /\ s.log = r.log
      /\ s.acks = r.acks /\ s.promises = r.promises /\ s.pending = r.pending /\ s.step = k
  BY <1>2, <1>3, StepFields
<1> HIDE DEF s
<1>5. GoodState(n, s)
  BY <1>1, <1>2, <1>4, SameAcksGood
<1>6. NodeFact(n, s)
  BY <1>2, <1>3, <1>4 DEF NodeFact
<1>7. ack \in Messages
  <2>1. s.phase \in Phase /\ s.last \in Phase \cup {-1} /\ s.log \in Entries
    BY <1>4 DEF NodeState
  <2>2. leader \in Node \cup {0}
    BY <1>2, LeaderType
  <2> HIDE DEF leader
  <2> QED
    BY <1>1, <2>1, <2>2, MsgType
<1>8. OutFact(n, s, ack)
  BY DEF OutFact, Msg
<1> HIDE DEF ack
<1>9. /\ MoveOut(m) \cup {ack} \subseteq Messages
      /\ \A x \in MoveOut(m) \cup {ack} : OutFact(n, s, x)
  BY <1>2, <1>7, <1>8 DEF Plain, OutFact
<1> HIDE DEF n
<1> QED
  BY <1>1, <1>2, <1>4, <1>5, <1>6, <1>9, QuietAction

\* The receiver of an ack when it has counted it.
LEMMA AckedFacts ==
  ASSUME IInv, NEW n \in Node, NEW r, GoodState(n, r), NodeFact(n, r),
         NEW m \in messages, m.type = "Ack", m.phase = r.phase,
         NEW s, s = r \/ s = [r EXCEPT !.acks = TrackAck(@, m)]
  PROVE  /\ GoodState(n, s) /\ NodeFact(n, s) /\ s.phase = r.phase
         /\ s.last = r.last /\ s.log = r.log
         /\ IsMajority(r.acks) => IsMajority(s.acks)
<1>1. CASE s = r
  BY <1>1
<1>2. CASE s = [r EXCEPT !.acks = TrackAck(r.acks, m)]
  <2>0. m \in Messages /\ AckFact(m.from, m.phase, m.last, m.log) /\ r \in NodeState
    BY DEF IInv, Types, Mail, MessageFact, GoodState
  <2>1. /\ GoodState(n, s)
        /\ \A a \in TrackAck(r.acks, m) :
             a \in r.acks \/ a = [peer |-> m.from, last |-> m.last, log |-> m.log]
        /\ IsMajority(r.acks) => IsMajority(TrackAck(r.acks, m))
    BY <1>2, <2>0, TrackAckGood
  <2>2. /\ s.phase = r.phase /\ s.last = r.last /\ s.log = r.log /\ s.step = r.step
        /\ s.promises = r.promises /\ s.acks = TrackAck(r.acks, m)
    BY <1>2, <2>0 DEF NodeState
  <2>3. ASSUME NEW a \in s.acks PROVE AckFact(a.peer, s.phase, a.last, a.log)
    <3>1. CASE a \in r.acks
      BY <2>2, <3>1 DEF NodeFact
    <3>2. CASE a = [peer |-> m.from, last |-> m.last, log |-> m.log]
      BY <2>0, <2>2, <3>2
    <3> QED
      BY <2>1, <2>2, <3>1, <3>2
  <2>4. NodeFact(n, s)
    BY <2>1, <2>2, <2>3 DEF NodeFact
  <2> QED
    BY <2>1, <2>2, <2>4
<1> QED
  BY <1>1, <1>2

\* Propose of a node that has collected the messages of the step.
LEMMA ProposeAction ==
  ASSUME IInv, NEW n \in Node, NEW s, GoodState(n, s), NodeFact(n, s),
         s.phase >= node[n].phase, s.last = node[n].last, s.log = node[n].log,
         GetLeader(s.phase) = n, IsMajority(s.acks),
         NEW out, Plain(out), NEW gone, Propose(n, s, out, gone)
  PROVE  IInv'
<1>1. PICK newLog \in Proposals(s) :
        /\ Collected(n, ProposeLog(s, n, newLog), out \cup ProposeSends(s, n, newLog), gone)
        /\ proposed' = proposed \cup
             {[phase |-> m.phase, log |-> m.log] : m \in ProposeSends(s, n, newLog)}
        /\ accepted' = accepted
  BY DEF Propose
<1>2. /\ node' = [node EXCEPT ![n] = ProposeLog(s, n, newLog)]
      /\ messages' \cup outbox'
           \subseteq messages \cup outbox \cup out \cup ProposeSends(s, n, newLog)
      /\ UNCHANGED <<requests, expiries>>
  BY <1>1 DEF Collected
<1>3. requests' \in Entries /\ expiries' \in 0..MaxExpiries
  BY <1>2 DEF IInv, Types
<1> QED
  BY <1>1, <1>2, <1>3, ProposeKeeps

LEMMA AckKeeps ==
  ASSUME IInv, NEW m \in messages, Ack(m) PROVE IInv'
<1> DEFINE n == m.to
           r == Receiver(m)
           s == IF r.step < StepAck THEN r ELSE [r EXCEPT !.acks = TrackAck(@, m)]
<1>1. /\ n \in Node /\ m.phase >= node[n].phase /\ m.type = "Ack"
      /\ IF s.step = StepAck /\ IsMajority(s.acks) /\ MayPropose(s, n)
         THEN Propose(n, s, MoveOut(m), {m}) ELSE Quiet(n, s, MoveOut(m), {m})
  BY DEF Ack, Handled
<1>2. /\ GoodState(n, r) /\ NodeFact(n, r) /\ r.phase >= node[n].phase
      /\ r.last = node[n].last /\ r.log = node[n].log /\ r.phase = m.phase
      /\ r.phase = node[n].phase /\ IsMajority(node[n].acks) => IsMajority(r.acks)
      /\ Plain(MoveOut(m))
  BY <1>1, ReceiverFacts
<1> HIDE DEF r
<1>3. s = r \/ s = [r EXCEPT !.acks = TrackAck(@, m)]
  OBVIOUS
<1> HIDE DEF s
<1>4. /\ GoodState(n, s) /\ NodeFact(n, s) /\ s.phase = r.phase
      /\ s.last = r.last /\ s.log = r.log
      /\ IsMajority(r.acks) => IsMajority(s.acks)
  BY <1>1, <1>2, <1>3, AckedFacts
<1>5. MoveOut(m) \subseteq Messages /\ \A x \in MoveOut(m) : OutFact(n, s, x)
  BY <1>2 DEF Plain, OutFact
<1>6. CASE Quiet(n, s, MoveOut(m), {m})
  <2> HIDE DEF n
  <2> QED
    BY <1>1, <1>2, <1>4, <1>5, <1>6, QuietAction
<1>7. CASE Propose(n, s, MoveOut(m), {m}) /\ IsMajority(s.acks) /\ MayPropose(s, n)
  <2>1. GetLeader(s.phase) = n
    BY <1>7 DEF MayPropose
  <2> HIDE DEF n
  <2> QED
    BY <1>1, <1>2, <1>4, <1>7, <2>1, ProposeAction
<1> QED
  BY <1>1, <1>6, <1>7

LEMMA AcceptedFields ==
  ASSUME NEW r \in NodeState, NEW m \in Messages, NEW s, s = Accepted(r, m)
  PROVE  /\ s \in NodeState /\ s.phase = r.phase /\ s.last = m.phase /\ s.log = m.log
         /\ s.acks = r.acks /\ s.promises = r.promises /\ s.pending = r.pending
         /\ s.step = StepPromise
<1> DEFINE k == StepPromise
<1>1. m.phase \in Phase /\ m.log \in Entries /\ k \in StepPrepare..StepPromise
  BY DEF Messages
<1> HIDE DEF k
<1>2. s = [phase |-> r.phase, step |-> k, last |-> m.phase, log |-> m.log,
           decided |-> r.decided, acks |-> r.acks, promises |-> r.promises,
           phaseChange |-> r.phaseChange, pending |-> r.pending]
  BY DEF Accepted, NodeState, k
<1>3. /\ r.phaseChange \in SUBSET Node /\ r.promises \in SUBSET Node
      /\ r.decided \in Nat /\ r.phase \in Phase /\ r.pending \in Entries
      /\ r.acks \in SUBSET [peer : Node, last : Phase \cup {-1}, log : Entries]
  BY DEF NodeState
<1>4. /\ s \in NodeState /\ s.phase = r.phase /\ s.last = m.phase /\ s.log = m.log
      /\ s.acks = r.acks /\ s.promises = r.promises /\ s.pending = r.pending
      /\ s.step = k
  BY <1>1, <1>2, <1>3 DEF NodeState
<1> QED
  BY <1>4 DEF k

LEMMA AcceptKeeps ==
  ASSUME IInv, NEW m \in messages, Accept(m) PROVE IInv'
<1> DEFINE n == m.to
           r == Receiver(m)
           s == Accepted(r, m)
           promises == Broadcast("Promise", s.phase, n, 0, s.log)
<1>1. n \in Node /\ m.phase >= node[n].phase /\ m.type = "Propose"
  BY DEF Accept, Handled
<1>2. /\ GoodState(n, r) /\ NodeFact(n, r) /\ r.phase >= node[n].phase /\ r \in NodeState
      /\ r.last = node[n].last /\ r.log = node[n].log /\ r.phase = m.phase
      /\ r.phase \in Phase /\ r.phase \in Int /\ node[n].phase \in Int
      /\ r.phase = node[n].phase => r = node[n]
      /\ r.phase = node[n].phase /\ IsMajority(node[n].acks) => IsMajority(r.acks)
      /\ Plain(MoveOut(m)) /\ m \in Messages
  BY <1>1, ReceiverFacts, StateFields, LPaxosAssumption DEF IInv, Types
<1>3. \/ Quiet(n, r, MoveOut(m), {m})
      \/ /\ m.from = GetLeader(r.phase)
         /\ Collected(n, s, MoveOut(m) \cup promises, {m})
         /\ accepted' = accepted \cup {[peer |-> n, phase |-> m.phase, log |-> m.log]}
         /\ UNCHANGED proposed
  BY DEF Accept
<1> HIDE DEF r
<1>4. CASE Quiet(n, r, MoveOut(m), {m})
  <2>1. MoveOut(m) \subseteq Messages /\ \A x \in MoveOut(m) : OutFact(n, r, x)
    BY <1>2 DEF Plain, OutFact
  <2> HIDE DEF n
  <2> QED
    BY <1>1, <1>2, <1>4, <2>1, QuietAction
<1>5. CASE /\ m.from = GetLeader(r.phase)
           /\ Collected(n, s, MoveOut(m) \cup promises, {m})
           /\ accepted' = accepted \cup {[peer |-> n, phase |-> m.phase, log |-> m.log]}
           /\ UNCHANGED proposed
  <2>1. /\ s \in NodeState /\ s.phase = r.phase /\ s.last = m.phase /\ s.log = m.log
        /\ s.acks = r.acks /\ s.promises = r.promises /\ s.pending = r.pending
        /\ s.step = StepPromise
    BY <1>2, AcceptedFields
  <2> HIDE DEF s
  <2>2. ProposeFact(m)
    BY <1>1 DEF IInv, Mail, MessageFact
  <2>3. GoodState(n, s)
    BY <1>1, <1>2, <2>1, SameAcksGood
  <2>4. NodeFact(n, s)
    <3>1. GetLeader(s.phase) = n => IsMajority(s.acks)
      BY <1>2, <1>5, <2>1, <2>2 DEF ProposeFact
    <3> QED
      BY <1>2, <2>1, <3>1 DEF NodeFact
  <2>5. promises \subseteq Messages /\ \A x \in promises : OutFact(n, s, x)
    <3>1. s.phase \in Phase /\ s.log \in Entries
      BY <2>1 DEF NodeState
    <3>2. promises \subseteq Messages
      BY <1>1, <3>1, BroadcastType, NoEntries
    <3>3. \A x \in promises : x.type = "Promise" /\ x.from = n /\ x.phase = s.phase
      BY DEF Broadcast, Msg
    <3>4. s.last = s.phase
      BY <1>2, <2>1
    <3> QED
      BY <3>2, <3>3, <3>4 DEF OutFact
  <2> HIDE DEF promises
  <2>6. /\ MoveOut(m) \cup promises \subseteq Messages
        /\ \A x \in MoveOut(m) \cup promises : OutFact(n, s, x)
    BY <1>2, <2>5 DEF Plain, OutFact
  <2>7. Change(n, s, MoveOut(m) \cup promises)
    <3>1. /\ node' = [node EXCEPT ![n] = s]
          /\ messages' \cup outbox' \subseteq messages \cup outbox \cup (MoveOut(m) \cup promises)
          /\ UNCHANGED <<requests, expiries>>
      BY <1>5 DEF Collected
    <3>2. requests' \in Entries /\ expiries' \in 0..MaxExpiries
      BY <3>1 DEF IInv, Types
    <3> QED
      BY <1>2, <2>1, <2>3, <2>4, <2>6, <3>1, <3>2 DEF Change
  <2>8. Accepts(n, s)
    BY <1>2, <1>5, <2>1, <2>2 DEF Accepts, ProposeFact, Vote
  <2> QED
    BY <1>1, <2>7, <2>8, ChangeKeeps
<1> QED
  BY <1>3, <1>4, <1>5

LEMMA PromisedFields ==
  ASSUME NEW r \in NodeState, NEW q \in Node,
         NEW s, s = [r EXCEPT !.promises = @ \cup {q}]
  PROVE  /\ s \in NodeState /\ s.phase = r.phase /\ s.last = r.last /\ s.log = r.log
         /\ s.acks = r.acks /\ s.pending = r.pending /\ s.step = r.step
         /\ s.promises = r.promises \cup {q}
  BY DEF NodeState

LEMMA DecidedFields ==
  ASSUME NEW r \in NodeState, NEW s, s = [r EXCEPT !.decided = Len(r.log)]
  PROVE  /\ s \in NodeState /\ s.phase = r.phase /\ s.last = r.last /\ s.log = r.log
         /\ s.acks = r.acks /\ s.pending = r.pending /\ s.step = r.step
         /\ s.promises = r.promises
<1> DEFINE k == Len(r.log)
<1>1. k \in Nat
  BY LenProperties DEF NodeState, Entries
<1> HIDE DEF k
<1>2. s = [r EXCEPT !.decided = k]
  BY DEF k
<1> QED
  BY <1>1, <1>2 DEF NodeState

LEMMA PromiseKeeps ==
  ASSUME IInv, NEW m \in messages, Promise(m) PROVE IInv'
<1> DEFINE n == m.to
           r == Receiver(m)
           s == [r EXCEPT !.promises = @ \cup {m.from}]
           t == IF IsMajority(s.promises) THEN [s EXCEPT !.decided = Len(s.log)] ELSE s
<1>1. /\ n \in Node /\ m.phase >= node[n].phase /\ m.type = "Promise"
      /\ Quiet(n, t, MoveOut(m), {m})
  BY DEF Promise, Handled
<1>2. /\ GoodState(n, r) /\ NodeFact(n, r) /\ r.phase >= node[n].phase /\ r \in NodeState
      /\ r.last = node[n].last /\ r.log = node[n].log /\ m.from \in Node
      /\ r.phase = m.phase
      /\ r.phase = node[n].phase /\ IsMajority(node[n].acks) => IsMajority(r.acks)
      /\ Plain(MoveOut(m))
  BY <1>1, ReceiverFacts
<1> HIDE DEF r
<1>3. /\ s \in NodeState /\ s.phase = r.phase /\ s.last = r.last /\ s.log = r.log
      /\ s.acks = r.acks /\ s.pending = r.pending /\ s.step = r.step
      /\ s.promises = r.promises \cup {m.from}
  BY <1>2, PromisedFields
<1>4. t = s \/ t = [s EXCEPT !.decided = Len(s.log)]
  OBVIOUS
<1> HIDE DEF s, t
<1>5. /\ t \in NodeState /\ t.phase = r.phase /\ t.last = r.last /\ t.log = r.log
      /\ t.acks = r.acks /\ t.pending = r.pending /\ t.step = r.step
      /\ t.promises = r.promises \cup {m.from}
  BY <1>3, <1>4, DecidedFields
<1>6. GoodState(n, t)
  BY <1>1, <1>2, <1>5, SameAcksGood
<1>7. NodeFact(n, t)
  <2>1. node[m.from].last >= m.phase
    BY <1>1 DEF IInv, Mail, MessageFact
  <2> QED
    BY <1>2, <1>5, <2>1 DEF NodeFact
<1>8. MoveOut(m) \subseteq Messages /\ \A x \in MoveOut(m) : OutFact(n, t, x)
  BY <1>2 DEF Plain, OutFact
<1> HIDE DEF n
<1> QED
  BY <1>1, <1>2, <1>5, <1>6, <1>7, <1>8, QuietAction

-----------------------------------------------------------------------------
(* Commands *)

\* A leader that has taken commands.
LEMMA PendingFacts ==
  ASSUME IInv, NEW n \in Leaders, NEW commands \in Entries,
         NEW s, s = [node[n] EXCEPT !.pending = commands]
  PROVE  /\ n \in Node /\ GetLeader(s.phase) = n
         /\ GoodState(n, s) /\ NodeFact(n, s)
         /\ s.phase >= node[n].phase /\ s.last = node[n].last /\ s.log = node[n].log
         /\ s.acks = node[n].acks /\ s.phase = node[n].phase /\ s.step = node[n].step
<1>1. /\ n \in Node /\ GetLeader(node[n].phase) = n
      /\ GoodState(n, node[n]) /\ NodeFact(n, node[n]) /\ node[n] \in NodeState
  BY DEF Leaders, IInv, Types, Nodes, GoodState
<1>2. /\ s \in NodeState /\ s.phase = node[n].phase /\ s.last = node[n].last
      /\ s.log = node[n].log /\ s.acks = node[n].acks /\ s.promises = node[n].promises
      /\ s.step = node[n].step
  BY <1>1 DEF NodeState
<1>3. GoodState(n, s)
  BY <1>1, <1>2 DEF GoodState
<1>4. NodeFact(n, s)
  BY <1>1, <1>2 DEF NodeFact
<1>5. s.phase >= node[n].phase
  BY <1>1, <1>2, StateFields
<1> QED
  BY <1>1, <1>2, <1>3, <1>4, <1>5

\* A leader that waits for no acks has the acks of a quorum.
LEMMA WaitingLeader ==
  ASSUME NEW n \in Node, NEW s, NodeFact(n, s), s.step >= StepPropose, GetLeader(s.phase) = n
  PROVE  IsMajority(s.acks)
  BY DEF NodeFact

LEMMA DeliverCommandKeeps ==
  ASSUME IInv, NEW m \in messages, DeliverCommand(m) PROVE IInv'
<1>1. PICK n \in Leaders : TakeCommands(n, m.log, {[m EXCEPT !.to = n]})
  BY DEF DeliverCommand
<1> DEFINE gone == {[m EXCEPT !.to = n]}
           commands == node[n].pending \o m.log
           s == [node[n] EXCEPT !.pending = @ \o m.log]
<1>2. \/ Quiet(n, node[n], {}, gone)
      \/ s.step >= StepPropose /\ MayPropose(s, n) /\ Propose(n, s, {}, gone)
      \/ Quiet(n, s, {}, gone)
  BY <1>1 DEF TakeCommands
<1>3. commands \in Entries
  <2>1. n \in Node /\ node[n].pending \in Seq(Command) /\ m.log \in Seq(Command)
    BY DEF Leaders, IInv, Types, NodeState, Messages, Entries
  <2> QED
    BY <2>1, ConcatProperties DEF Entries
<1>4. s = [node[n] EXCEPT !.pending = commands]
  OBVIOUS
<1> HIDE DEF s, commands, gone
<1>5. /\ n \in Node /\ GetLeader(s.phase) = n
      /\ GoodState(n, s) /\ NodeFact(n, s)
      /\ s.phase >= node[n].phase /\ s.last = node[n].last /\ s.log = node[n].log
      /\ s.acks = node[n].acks
  BY <1>3, <1>4, PendingFacts
<1>6. Plain({}) /\ {} \subseteq Messages /\ \A t : \A x \in {} : OutFact(n, t, x)
  BY DEF Plain
<1>7. CASE Quiet(n, node[n], {}, gone)
  <2> DEFINE t == node[n]
  <2>1. GoodState(n, t) /\ NodeFact(n, t) /\ t.phase \in Int
    BY <1>5, StateFields DEF IInv, Types, Nodes
  <2>2. t.phase >= node[n].phase /\ t.last = node[n].last /\ t.log = node[n].log
        /\ t.acks = node[n].acks
    BY <2>1
  <2>3. Quiet(n, t, {}, gone)
    BY <1>7
  <2> HIDE DEF t
  <2> QED
    BY <1>5, <1>6, <2>1, <2>2, <2>3, QuietAction
<1>8. CASE s.step >= StepPropose /\ MayPropose(s, n) /\ Propose(n, s, {}, gone)
  <2>1. IsMajority(s.acks)
    BY <1>5, <1>8, WaitingLeader
  <2> QED
    BY <1>5, <1>6, <1>8, <2>1, ProposeAction
<1>9. CASE Quiet(n, s, {}, gone)
  BY <1>5, <1>6, <1>9, QuietAction
<1> QED
  BY <1>2, <1>7, <1>8, <1>9

LEMMA ReceiveRequestKeeps ==
  ASSUME IInv, ReceiveRequest PROVE IInv'
<1> DEFINE S(n) == [node[n] EXCEPT !.pending = Append(@, Head(requests))]
<1>1. /\ requests # <<>> /\ requests' = Tail(requests)
      /\ UNCHANGED <<messages, expiries, accepted>>
  BY DEF ReceiveRequest
<1>2. PICK n \in Leaders :
        \/ UNCHANGED <<node, outbox, proposed>>
        \/ /\ S(n).step >= StepPropose
           /\ \E newLog \in Proposals(S(n)) :
                LET sends == ProposeSends(S(n), n, newLog)
                IN  /\ node' = [node EXCEPT ![n] = ProposeLog(S(n), n, newLog)]
                    /\ outbox' = outbox \cup sends
                    /\ proposed' = proposed \cup
                         {[phase |-> m.phase, log |-> m.log] : m \in sends}
        \/ node' = [node EXCEPT ![n] = S(n)] /\ UNCHANGED <<outbox, proposed>>
  BY DEF ReceiveRequest
<1> DEFINE commands == Append(node[n].pending, Head(requests))
           s == S(n)
<1>3. commands \in Entries /\ requests' \in Entries /\ expiries' \in 0..MaxExpiries
  <2>1. n \in Node /\ node[n].pending \in Seq(Command) /\ requests \in Seq(Command)
    BY DEF Leaders, IInv, Types, NodeState, Entries
  <2>2. Head(requests) \in Command /\ Tail(requests) \in Seq(Command)
    BY <1>1, <2>1, HeadTailProperties
  <2>3. commands \in Seq(Command)
    BY <2>1, <2>2, AppendProperties
  <2> QED
    BY <1>1, <2>2, <2>3 DEF Entries, IInv, Types
<1>4. s = [node[n] EXCEPT !.pending = commands]
  OBVIOUS
<1>5. \/ UNCHANGED <<node, outbox, proposed>>
      \/ /\ s.step >= StepPropose
         /\ \E newLog \in Proposals(s) :
              /\ node' = [node EXCEPT ![n] = ProposeLog(s, n, newLog)]
              /\ outbox' = outbox \cup ProposeSends(s, n, newLog)
              /\ proposed' = proposed \cup
                   {[phase |-> m.phase, log |-> m.log] : m \in ProposeSends(s, n, newLog)}
      \/ node' = [node EXCEPT ![n] = s] /\ UNCHANGED <<outbox, proposed>>
  BY <1>2
<1> HIDE DEF s, commands
<1>6. /\ n \in Node /\ GetLeader(s.phase) = n
      /\ GoodState(n, s) /\ NodeFact(n, s)
      /\ s.phase >= node[n].phase /\ s.last = node[n].last /\ s.log = node[n].log
      /\ s.acks = node[n].acks
  BY <1>3, <1>4, PendingFacts
<1>7. Plain({}) /\ {} \subseteq Messages /\ \A x \in {} : OutFact(n, s, x)
  BY DEF Plain
<1>8. CASE UNCHANGED <<node, outbox, proposed>>
  <2>1. messages' \cup outbox' \subseteq messages \cup outbox \cup {}
    BY <1>1, <1>8
  <2>2. UNCHANGED <<node, history>>
    BY <1>1, <1>8 DEF history
  <2> QED
    BY <1>3, <1>7, <2>1, <2>2, EnvironmentKeeps
<1>9. CASE /\ s.step >= StepPropose
           /\ \E newLog \in Proposals(s) :
                /\ node' = [node EXCEPT ![n] = ProposeLog(s, n, newLog)]
                /\ outbox' = outbox \cup ProposeSends(s, n, newLog)
                /\ proposed' = proposed \cup
                     {[phase |-> m.phase, log |-> m.log] : m \in ProposeSends(s, n, newLog)}
  <2>1. PICK newLog \in Proposals(s) :
          /\ node' = [node EXCEPT ![n] = ProposeLog(s, n, newLog)]
          /\ outbox' = outbox \cup ProposeSends(s, n, newLog)
          /\ proposed' = proposed \cup
               {[phase |-> m.phase, log |-> m.log] : m \in ProposeSends(s, n, newLog)}
    BY <1>9
  <2>2. IsMajority(s.acks)
    BY <1>6, <1>9, WaitingLeader
  <2>3. messages' \cup outbox'
          \subseteq messages \cup outbox \cup {} \cup ProposeSends(s, n, newLog)
    BY <1>1, <2>1
  <2>4. accepted' = accepted
    BY <1>1
  <2> QED
    BY <1>3, <1>6, <1>7, <2>1, <2>2, <2>3, <2>4, ProposeKeeps
<1>10. CASE node' = [node EXCEPT ![n] = s] /\ UNCHANGED <<outbox, proposed>>
  <2> DEFINE out == {}
  <2>1. /\ messages' \cup outbox' \subseteq messages \cup outbox \cup out
        /\ UNCHANGED history
    BY <1>1, <1>10 DEF history
  <2>2. node' = [node EXCEPT ![n] = s]
    BY <1>10
  <2>3. out \subseteq Messages /\ \A m \in out : OutFact(n, s, m)
    OBVIOUS
  <2> HIDE DEF out, S
  <2>4. Change(n, s, out)
    BY <1>3, <1>6, <2>1, <2>2, <2>3 DEF Change
  <2>5. Proposes(n, s)
    BY <1>6, <2>1 DEF Proposes, KeepsLog, history
  <2> QED
    BY <1>6, <2>4, <2>5, ChangeKeeps
<1> QED
  BY <1>5, <1>8, <1>9, <1>10

-----------------------------------------------------------------------------
(* The environment, and every step *)

LEMMA DropKeeps ==
  ASSUME IInv, NEW m \in messages, Drop(m) PROVE IInv'
<1>1. messages' \cup outbox' \subseteq messages \cup outbox \cup {}
  BY DEF Drop
<1>2. UNCHANGED <<node, history>> /\ requests' \in Entries /\ expiries' \in 0..MaxExpiries
  BY DEF Drop, IInv, Types
<1>3. Plain({})
  BY DEF Plain
<1> QED
  BY <1>1, <1>2, <1>3, EnvironmentKeeps

LEMMA FiniteNodes ==
  /\ IsFiniteSet(Node) /\ Cardinality(Node) = Replicas
  /\ \A S \in SUBSET Node : IsFiniteSet(S) /\ Cardinality(S) \in Nat
<1>1. IsFiniteSet(1..Replicas) /\ Cardinality(1..Replicas) = Replicas
  BY FS_Interval, LPaxosAssumption
<1>2. \A S \in SUBSET Node : IsFiniteSet(S)
  BY <1>1, FS_Subset
<1> QED
  BY <1>1, <1>2, FS_CardinalityType

LEMMA TickKeeps == ASSUME IInv, Tick PROVE IInv'
<1> DEFINE Beats(due) == {Broadcast("Heartbeat", node[n].phase, n, 0, <<>>) : n \in due}
           Changes(late) == {Broadcast("PhaseChange", node[n].phase + 1, n, node[n].last, node[n].log)
                             : n \in late}
<1>1. PICK due \in SUBSET Leaders,
           late \in SUBSET {n \in Node \ Leaders : node[n].phase < MaxPhase} :
        /\ messages' = messages \cup outbox \cup UNION (Beats(due) \cup Changes(late))
        /\ outbox' = {}
        /\ expiries' = expiries + Cardinality(due) + Cardinality(late)
        /\ expiries' <= MaxExpiries
        /\ UNCHANGED <<node, requests, history>>
  BY DEF Tick
<1> DEFINE out == UNION (Beats(due) \cup Changes(late))
<1>2. due \in SUBSET Node /\ late \in SUBSET Node /\ \A n \in late : node[n].phase < MaxPhase
  BY DEF Leaders
<1>3. \A n \in Node : /\ node[n].phase \in Phase /\ node[n].last \in Phase \cup {-1}
                      /\ node[n].log \in Entries
  BY StateFields DEF IInv, Types
<1>4. \A n \in due : Plain(Broadcast("Heartbeat", node[n].phase, n, 0, <<>>))
  <2>1. ASSUME NEW n \in due PROVE Plain(Broadcast("Heartbeat", node[n].phase, n, 0, <<>>))
    BY <1>2, <1>3, BroadcastType, NoEntries DEF Plain, Broadcast, Msg
  <2> QED
    BY <2>1
<1>5. \A n \in late :
        Plain(Broadcast("PhaseChange", node[n].phase + 1, n, node[n].last, node[n].log))
  <2>1. ASSUME NEW n \in late
        PROVE  Plain(Broadcast("PhaseChange", node[n].phase + 1, n, node[n].last, node[n].log))
    <3>1. node[n].phase + 1 \in Phase
      BY <1>2, <1>3, LPaxosAssumption
    <3> QED
      BY <1>2, <1>3, <3>1, BroadcastType DEF Plain, Broadcast, Msg
  <2> QED
    BY <2>1
<1>6. Plain(out)
  <2>1. \A B \in Beats(due) \cup Changes(late) : Plain(B)
    BY <1>4, <1>5
  <2> HIDE DEF Beats, Changes
  <2> QED
    BY <2>1 DEF Plain
<1>7. messages' \cup outbox' \subseteq messages \cup outbox \cup out
  BY <1>1
<1>8. expiries' \in 0..MaxExpiries
  <2>1. Cardinality(due) \in Nat /\ Cardinality(late) \in Nat
    BY <1>2, FiniteNodes
  <2>2. expiries \in Nat
    BY DEF IInv, Types
  <2> QED
    BY <1>1, <2>1, <2>2, LPaxosAssumption
<1>9. UNCHANGED <<node, history>> /\ requests' \in Entries
  BY <1>1 DEF IInv, Types
<1> HIDE DEF out
<1> QED
  BY <1>6, <1>7, <1>8, <1>9, EnvironmentKeeps

LEMMA DeliverKeeps ==
  ASSUME IInv, NEW m \in messages, Deliver(m) PROVE IInv'
  BY IgnoreKeeps, HeartbeatKeeps, PhaseChangeKeeps, DeliverCommandKeeps, PrepareKeeps,
     AckKeeps, AcceptKeeps, PromiseKeeps DEF Deliver

\* The variables of the invariant, unchanged.
LEMMA StutterKeeps == ASSUME IInv, UNCHANGED vars PROVE IInv'
<1>1. messages' \cup outbox' \subseteq messages \cup outbox \cup {}
  BY DEF vars
<1>2. UNCHANGED <<node, history>> /\ requests' \in Entries /\ expiries' \in 0..MaxExpiries
  BY DEF vars, IInv, Types
<1>3. Plain({})
  BY DEF Plain
<1> QED
  BY <1>1, <1>2, <1>3, EnvironmentKeeps

LEMMA ResetStarts == Reset => Init'
  BY DEF Reset, Init

LEMMA InvariantIInv == Spec => []IInv
<1>1. IInv /\ [Next]_vars => IInv' \/ Reset
  BY TickKeeps, ReceiveRequestKeeps, DeliverKeeps, DropKeeps, StutterKeeps DEF Next
<1> QED
  BY <1>1, InitIInv, ResetStarts, PTL DEF Spec

-----------------------------------------------------------------------------
(* The properties of the run lpaxos, for every value of the constants *)

\* Every variable keeps its type, a tracker holds one ack of a peer, and only a
\* leader holds commands.
THEOREM TypeCorrect == Spec => []TypeOK
<1>1. IInv => TypeOK
  <2> SUFFICES ASSUME IInv PROVE TypeOK
    OBVIOUS
  <2>1. ASSUME NEW n \in Node
        PROVE  /\ \A a, b \in node[n].acks : a.peer = b.peer => a = b
               /\ node[n].pending # <<>> => n \in Leaders
    BY DEF IInv, Types, GoodState, Leaders
  <2> QED
    BY <2>1 DEF IInv, Types, TypeOK
<1> QED
  BY <1>1, InvariantIInv, PTL

\* An ack that a leader holds stays a promise of its peer until the peer accepts
\* a proposal of the leader's phase.
THEOREM AcksAreKept == Spec => []AcksHold
<1>1. IInv => AcksHold
  <2> SUFFICES ASSUME IInv, NEW n \in Node, NEW a \in node[n].acks
               PROVE  /\ node[a.peer].phase >= node[n].phase
                      /\ node[a.peer].last < node[n].phase
                           => node[a.peer].last = a.last /\ node[a.peer].log = a.log
    BY DEF AcksHold
  <2>1. AckFact(a.peer, node[n].phase, a.last, a.log)
    BY DEF IInv, Nodes, NodeFact
  <2> QED
    BY <2>1 DEF AckFact
<1> QED
  BY <1>1, InvariantIInv, PTL

\* A promise that a node counts is of a peer that accepted in that phase or
\* later.
THEOREM PromisesAreBacked == Spec => []PromisesBacked
<1>1. IInv => PromisesBacked
  BY DEF IInv, Nodes, NodeFact, PromisesBacked
<1> QED
  BY <1>1, InvariantIInv, PTL

\* The sender of a proposal holds the acks of a quorum while it is in the phase
\* of the proposal.
THEOREM ProposalsAreBacked == Spec => []ProposalsHaveQuorum
<1>1. IInv => ProposalsHaveQuorum
  <2> SUFFICES ASSUME IInv, NEW m \in messages \cup outbox, m.type = "Propose",
                      node[m.from].phase = m.phase
               PROVE  Quorum({a.peer : a \in node[m.from].acks})
    BY DEF ProposalsHaveQuorum
  <2>1. m.from \in Node /\ IsMajority(node[m.from].acks) /\ GoodState(m.from, node[m.from])
    BY DEF IInv, Types, Mail, MessageFact, ProposeFact, Messages
  <2> QED
    BY <2>1, MajorityOfPeers DEF Peers
<1> QED
  BY <1>1, InvariantIInv, PTL

LEMMA QuorumsMeet ==
  ASSUME NEW Q \in SUBSET Node, NEW R \in SUBSET Node, Quorum(Q), Quorum(R)
  PROVE  Q \cap R # {}
<1>1. /\ IsFiniteSet(Node) /\ Cardinality(Node) = Replicas
      /\ Cardinality(Q) \in Nat /\ Cardinality(R) \in Nat
  BY FiniteNodes
<1>2. Cardinality(Q) + Cardinality(R) > Cardinality(Node)
  BY <1>1, LPaxosAssumption DEF Quorum
<1> QED
  BY <1>1, <1>2, FS_MajoritiesIntersect

\* What a quorum has accepted is a prefix of what is proposed in later phases,
\* as long as no two proposals of one phase differ.
THEOREM ChosenIsKept == Spec => []ChosenSurvives
<1>1. IInv => ChosenSurvives
  <2> SUFFICES ASSUME IInv, OneProposal, NEW p \in proposed, NEW q \in proposed,
                      Chosen(p), q.phase > p.phase
               PROVE  IsPrefixOf(p.log, q.log)
    BY DEF ChosenSurvives, OneProposal
  <2>1. IsPrefixOf(p.log, q.log) \/ Blocked(p)
    BY DEF IInv, Kept
  <2>2. ASSUME Blocked(p) PROVE FALSE
    <3> DEFINE A == {a.peer : a \in {b \in accepted : b.phase = p.phase /\ b.log = p.log}}
    <3>1. Quorum(A) /\ A \in SUBSET Node
      BY DEF Chosen, IInv, Types
    <3>2. PICK Q \in SUBSET Node :
            Quorum(Q) /\ \A a \in Q : Vote(a, p.phase, p.log) \notin accepted
      BY <2>2 DEF Blocked
    <3>3. PICK a \in Q : a \in A
      <4> HIDE DEF A
      <4> QED
        BY <3>1, <3>2, QuorumsMeet
    <3>4. Vote(a, p.phase, p.log) \in accepted
      BY <3>3 DEF IInv, Types, Vote
    <3> QED
      BY <3>2, <3>3, <3>4
  <2> QED
    BY <2>1, <2>2
<1> QED
  BY <1>1, InvariantIInv, PTL
=============================================================================
