------------------------------- MODULE RSL_proofs -------------------------------
(***************************************************************************)
(* Theorems about RSL, for any number of nodes, commands and ballots.      *)
(***************************************************************************)
EXTENDS RSL, SequenceTheorems, FiniteSetTheorems, WellFoundedInduction, TLAPS

-----------------------------------------------------------------------------
(* What a node is, whatever it has been through *)

Sound(s) ==
  /\ s \in NodeState
  /\ Len(s.proposalQ) <= MaxCachedLength
  /\ \A r, q \in s.remote : r.node = q.node => r = q
  /\ s.accepted.ballot.num <= s.prepared.num
  /\ s.election # Overflowed
  /\ s.state \notin {Initializing, Inactive} => s.election = Finite

States == {Inactive, StablePrimary, StableSecondary, Initializing, Preparing}

LEMMA Constants ==
  /\ MaxBallot \in Nat /\ NumCommands \in Nat /\ MaxCachedLength \in Nat
  /\ NoBallot \in Ballots /\ NoProposal \in Proposals /\ NoBallot.num = 0
  BY RSLAssumption DEF NoBallot, NoProposal, Proposal, Ballots, Proposals, Commands

LEMMA BallotFields ==
  ASSUME NEW b \in Ballots
  PROVE  b.num \in 0..MaxBallot /\ b.num \in Nat /\ b.num <= MaxBallot /\ b.node \in Node \union {Nobody}
  BY RSLAssumption DEF Ballots

LEMMA ProposalFields ==
  ASSUME NEW p \in Proposals
  PROVE  p.ballot \in Ballots /\ p.decree \in Nat /\ p.command \in Commands
  BY DEF Proposals

LEMMA MessageFields ==
  ASSUME NEW m \in Message
  PROVE  /\ m.from \in Node /\ m.to \in Node /\ m.accept \in BOOLEAN
         /\ m.ballot \in Ballots /\ m.decree \in Nat /\ m.command \in Commands
         /\ m.proposalBallot \in Ballots /\ m.proposals \in Seq(Proposals)
  BY DEF Message

LEMMA StateFields ==
  ASSUME NEW s \in NodeState
  PROVE  /\ s.id \in Node /\ s.accepted \in Proposals /\ s.prepared \in Ballots
         /\ s.freshest \in Proposals /\ s.state \in States
         /\ s.log \in Seq(Proposals) /\ s.decided \in Seq(Commands)
         /\ s.commandQ \in Seq(Commands \ {0}) /\ s.proposalQ \in Seq(Proposals)
         /\ s.ready \in BOOLEAN /\ s.election \in {Unset, Finite, Overflowed}
         /\ s.remote \in SUBSET [node : Node, num : 0..MaxBallot, decree : Nat]
         /\ s.learningFrom \in Node \union {Nobody} /\ s.out \in SUBSET Message
         /\ s.executed \in SUBSET [decree : Nat, command : Commands]
  BY DEF NodeState, States

-----------------------------------------------------------------------------
(* The helpers *)

\* A new message, before its fields are set.
LEMMA NewMessage ==
  ASSUME NEW s \in NodeState, NEW to,
         NEW type \in {"StatusReq", "StatusResp", "PrepareReq", "PrepareResp", "AcceptReq",
                       "AcceptResp", "FetchReq", "FetchResp"}
  PROVE  \A n \in Node : [Msg(type, s, to) EXCEPT !.to = n] \in Message
<1>1. ASSUME NEW n \in Node PROVE [Msg(type, s, to) EXCEPT !.to = n] \in Message
  <2>2. <<>> \in Seq(Proposals) /\ 0 \in Commands /\ NoBallot \in Ballots
    BY Constants, EmptySeq DEF Commands
  <2> QED
    BY <2>2, StateFields DEF Msg, Message
<1> QED
  BY <1>1

LEMMA SendSound ==
  ASSUME NEW s, Sound(s), NEW m \in Message
  PROVE  Sound(Send(s, m))
  BY DEF Sound, Send, NodeState

LEMMA BroadcastSound ==
  ASSUME NEW s, Sound(s), NEW m, \A n \in Node : [m EXCEPT !.to = n] \in Message
  PROVE  Sound(Broadcast(s, m))
<1> DEFINE out == s.out \cup {[m EXCEPT !.to = n] : n \in Node \ {s.id}}
<1>1. out \in SUBSET Message
  BY StateFields DEF Sound
<1> HIDE DEF out
<1>2. Broadcast(s, m) = [s EXCEPT !.out = out]
  BY DEF Broadcast, out
<1> QED
  BY <1>1, <1>2 DEF Sound, NodeState

LEMMA StabilizeSound ==
  ASSUME NEW s, Sound(s), s.election = Finite, NEW role \in {StablePrimary, StableSecondary}
  PROVE  Sound(Stabilize(s, role))
  BY DEF Sound, Stabilize, NodeState

LEMMA InitializeSound ==
  ASSUME NEW s, Sound(s) PROVE Sound(Initialize(s))
<1> DEFINE t == [s EXCEPT !.state = Initializing, !.remote = {}]
           m == Msg("StatusReq", s, Nobody)
<1>1. Sound(t)
  BY DEF Sound, NodeState
<1>2. \A n \in Node : [m EXCEPT !.to = n] \in Message
  BY NewMessage DEF Sound, m
<1> HIDE DEF t, m
<1>3. Initialize(s) = Broadcast(t, m)
  BY DEF Initialize, t, m
<1> QED
  BY <1>1, <1>2, <1>3, BroadcastSound

LEMMA ExecuteSound ==
  ASSUME NEW s, Sound(s), NEW p \in Proposals
  PROVE  Sound(Execute(s, p))
<1>1. Append(s.decided, p.command) \in Seq(Commands)
  BY StateFields, ProposalFields, AppendProperties DEF Sound
<1>2. [decree |-> p.decree, command |-> p.command] \in [decree : Nat, command : Commands]
  BY ProposalFields
<1> QED
  BY <1>1, <1>2 DEF Sound, Execute, NodeState

\* A node that has a timer may log a proposal.
LEMMA LogProposalSound ==
  ASSUME NEW s, Sound(s), s.election = Finite, NEW p \in Proposals
  PROVE  Sound(LogProposal(s, p)) /\ LogProposal(s, p).election = Finite
<1> DEFINE log == Append(s.log, p)
           t == [s EXCEPT !.log = log, !.accepted = p]
           u == [t EXCEPT !.prepared = p.ballot]
           v == [u EXCEPT !.election = Finite]
<1>1. log \in Seq(Proposals)
  BY StateFields, AppendProperties DEF Sound
<1> HIDE DEF log
<1>2. p.ballot \in Ballots /\ p.ballot.num \in Nat /\ s.prepared.num \in Nat
  BY ProposalFields, BallotFields, StateFields DEF Sound
<1>3. CASE p.ballot.num > s.prepared.num
  <2>1. v \in NodeState
    BY <1>1, <1>2 DEF Sound, NodeState
  <2>0. /\ v.election = Finite /\ v.accepted.ballot = v.prepared /\ v.prepared.num \in Nat
        /\ v.proposalQ = s.proposalQ /\ v.remote = s.remote
    BY <1>2 DEF Sound, NodeState
  <2>2. u.election = Finite
    BY DEF Sound, NodeState
  <2>3. LogProposal(s, p) = v
    BY <1>3, <2>2 DEF LogProposal, Postponed, log, Unset, Finite
  <2> QED
    BY <2>0, <2>1, <2>3 DEF Sound, Finite, Overflowed
<1>4. CASE ~(p.ballot.num > s.prepared.num)
  <2>1. t \in NodeState
    BY <1>1, <1>2 DEF Sound, NodeState
  <2>0. /\ t.election = Finite /\ t.accepted = p /\ t.prepared = s.prepared
        /\ t.proposalQ = s.proposalQ /\ t.remote = s.remote
    BY DEF Sound, NodeState
  <2>2. LogProposal(s, p) = t
    BY <1>4 DEF LogProposal, log
  <2> QED
    BY <1>2, <1>4, <2>0, <2>1, <2>2 DEF Sound, Finite, Overflowed
<1> QED
  BY <1>3, <1>4

\* A message whose fields are set.
LEMMA SetMessage ==
  ASSUME NEW m \in Message, NEW b \in Ballots, NEW d \in Nat
  PROVE  /\ [m EXCEPT !.ballot = b, !.decree = d] \in Message
         /\ \A a \in BOOLEAN : [m EXCEPT !.accept = a, !.ballot = b, !.decree = d] \in Message
         /\ \A c \in Commands : [m EXCEPT !.ballot = b, !.decree = d, !.command = c] \in Message
  BY DEF Message

LEMMA NewMessageTo ==
  ASSUME NEW s, Sound(s), NEW to \in Node,
         NEW type \in {"StatusReq", "StatusResp", "PrepareReq", "PrepareResp", "AcceptReq",
                       "AcceptResp", "FetchReq", "FetchResp"}
  PROVE  Msg(type, s, to) \in Message
<1>1. <<>> \in Seq(Proposals) /\ 0 \in Commands /\ NoBallot \in Ballots /\ s \in NodeState
  BY Constants, EmptySeq DEF Commands, Sound
<1> QED
  BY <1>1, StateFields DEF Msg, Message

LEMMA RefuseSound ==
  ASSUME NEW s, Sound(s), NEW m \in Message, NEW type \in {"PrepareResp", "AcceptResp"}
  PROVE  Sound(Refuse(s, m, type))
<1>1. Msg(type, s, m.from) \in Message
  BY MessageFields, NewMessageTo
<1>2. s.prepared \in Ballots /\ s.accepted.decree \in Nat
  BY StateFields, ProposalFields DEF Sound
<1>3. [Msg(type, s, m.from) EXCEPT !.ballot = s.prepared, !.decree = s.accepted.decree] \in Message
  BY <1>1, <1>2, SetMessage
<1> QED
  BY <1>3, SendSound DEF Refuse

LEMMA LearnVotesSound ==
  ASSUME NEW s, Sound(s), NEW n \in Node
  PROVE  Sound(LearnVotes(s, n)) /\ LearnVotes(s, n).state = s.state
<1> DEFINE x == [Msg("FetchReq", s, n) EXCEPT !.ballot = s.accepted.ballot,
                                              !.decree = s.accepted.decree]
           t == Send(s, x)
           u == [t EXCEPT !.learningFrom = n]
<1>1. Msg("FetchReq", s, n) \in Message
  BY NewMessageTo
<1>2. s.accepted.ballot \in Ballots /\ s.accepted.decree \in Nat
  BY StateFields, ProposalFields DEF Sound
<1>3. x \in Message
  BY <1>1, <1>2, SetMessage
<1> HIDE DEF x
<1>4. Sound(t) /\ t.state = s.state
  <2>1. t.state = s.state
    BY DEF Send, Sound, NodeState
  <2> QED
    BY <1>3, <2>1, SendSound
<1> HIDE DEF t
<1>5. Sound(u) /\ u.state = t.state
  BY <1>4 DEF Sound, NodeState
<1>6. LearnVotes(s, n) = u
  BY DEF LearnVotes, t, x
<1> QED
  BY <1>4, <1>5, <1>6

\* To prepare, the ballot must fit the bound.
LEMMA PrepareSound ==
  ASSUME NEW s, Sound(s), s.state # Inactive, Prepare(s).prepared.num <= MaxBallot
  PROVE  Sound(Prepare(s))
<1> DEFINE b == IF s.state = Initializing
                THEN [num |-> s.prepared.num + 1, node |-> s.id] ELSE s.prepared
           e == IF s.state = Initializing THEN Finite ELSE s.election
           t == [s EXCEPT !.state = Preparing, !.prepared = b, !.remote = {},
                          !.freshest = s.accepted, !.election = e]
           m == [Msg("PrepareReq", s, Nobody) EXCEPT !.ballot = b, !.decree = s.accepted.decree]
<1>0. /\ s.prepared \in Ballots /\ s.prepared.num \in Nat /\ s.id \in Node
      /\ s.accepted \in Proposals /\ s.accepted.decree \in Nat /\ s.accepted.ballot.num \in Nat
      /\ s.accepted.ballot.num <= s.prepared.num
      /\ s.state \notin {Initializing, Inactive} => s.election = Finite
  BY StateFields, ProposalFields, BallotFields DEF Sound
<1>1. /\ b.num \in Nat /\ b.num >= s.prepared.num /\ b.node \in Node \union {Nobody}
      /\ b = [num |-> b.num, node |-> b.node] /\ e = Finite
  BY <1>0, BallotFields DEF Ballots
<1> HIDE DEF b, e
<1>2. Prepare(s) = Broadcast(t, m)
  BY DEF Prepare, b, e
<1>3. Broadcast(t, m).prepared = t.prepared /\ t.prepared = b
  BY DEF Broadcast, Sound, NodeState
<1>4. b \in Ballots
  <2>1. b.num \in 0..MaxBallot
    BY <1>1, <1>2, <1>3, Constants
  <2> QED
    BY <1>1, <2>1 DEF Ballots
<1>5. t \in NodeState
  BY <1>0, <1>1, <1>4 DEF Sound, NodeState
<1>6. /\ t.proposalQ = s.proposalQ /\ t.remote = {} /\ t.accepted = s.accepted
      /\ t.election = Finite /\ t.prepared = b
  BY <1>1 DEF Sound, NodeState
<1> HIDE DEF t
<1>7. Sound(t)
  <2>1. t.accepted.ballot.num <= t.prepared.num
    BY <1>0, <1>1, <1>6
  <2> QED
    BY <1>5, <1>6, <2>1 DEF Sound, Finite, Overflowed
<1>8. \A n \in Node : [m EXCEPT !.to = n] \in Message
  <2>1. ASSUME NEW n \in Node PROVE [m EXCEPT !.to = n] \in Message
    <3>1. [Msg("PrepareReq", s, Nobody) EXCEPT !.to = n] \in Message
      BY NewMessage DEF Sound
    <3>2. [[Msg("PrepareReq", s, Nobody) EXCEPT !.to = n] EXCEPT !.ballot = b, !.decree = s.accepted.decree]
            \in Message
      BY <1>0, <1>4, <3>1, SetMessage
    <3>3. [[Msg("PrepareReq", s, Nobody) EXCEPT !.to = n] EXCEPT !.ballot = b, !.decree = s.accepted.decree]
            = [m EXCEPT !.to = n]
      BY DEF Msg
    <3> QED
      BY <3>2, <3>3
  <2> QED
    BY <2>1
<1> QED
  BY <1>2, <1>7, <1>8, BroadcastSound

\* The request that follows a proposal.
LEMMA RequestSound ==
  ASSUME NEW s, Sound(s), NEW t, Sound(t), NEW p \in Proposals
  PROVE  Sound(Broadcast(t, Request(s, p)))
<1>1. ASSUME NEW n \in Node PROVE [Request(s, p) EXCEPT !.to = n] \in Message
  <2>1. [Msg("AcceptReq", s, Nobody) EXCEPT !.to = n] \in Message
    BY NewMessage DEF Sound
  <2>2. [[Msg("AcceptReq", s, Nobody) EXCEPT !.to = n] EXCEPT
           !.ballot = p.ballot, !.decree = p.decree, !.command = p.command] \in Message
    BY <2>1, ProposalFields, SetMessage
  <2>3. [[Msg("AcceptReq", s, Nobody) EXCEPT !.to = n] EXCEPT
           !.ballot = p.ballot, !.decree = p.decree, !.command = p.command]
          = [Request(s, p) EXCEPT !.to = n]
    BY DEF Msg, Request
  <2> QED
    BY <2>2, <2>3
<1> QED
  BY <1>1, BroadcastSound

LEMMA BroadcastKeeps ==
  ASSUME NEW s \in NodeState, NEW m
  PROVE  /\ Broadcast(s, m).election = s.election /\ Broadcast(s, m).state = s.state
         /\ Broadcast(s, m).accepted = s.accepted /\ Broadcast(s, m).prepared = s.prepared
  BY DEF Broadcast, NodeState

LEMMA ProposeSound ==
  ASSUME NEW s, Sound(s), MaySend(s), s.commandQ # <<>> PROVE Sound(Propose(s))
<1> DEFINE p == Proposal(s.accepted.ballot, s.accepted.decree + 1, Head(s.commandQ))
           q == Tail(s.commandQ)
           t == [s EXCEPT !.remote = {}, !.commandQ = q, !.ready = FALSE]
           u == Broadcast(t, Request(s, p))
<1>1. Head(s.commandQ) \in Commands \ {0} /\ q \in Seq(Commands \ {0})
  BY StateFields, HeadTailProperties DEF Sound
<1>2. s.accepted.ballot \in Ballots /\ s.accepted.decree \in Nat
  BY StateFields, ProposalFields DEF Sound
<1>3. p \in Proposals
  BY <1>1, <1>2 DEF Proposal, Proposals
<1>4. Propose(s) = LogProposal(u, p)
  BY DEF Propose
<1> HIDE DEF p, q
<1>5. Sound(t) /\ t.election = s.election
  BY <1>1 DEF Sound, NodeState
<1> HIDE DEF t
<1>6. s.election = Finite
  BY DEF MaySend, Sound, StablePrimary, Initializing, Inactive
<1>7. Sound(u) /\ u.election = Finite
  BY <1>3, <1>5, <1>6, RequestSound, BroadcastKeeps DEF Sound
<1> HIDE DEF u
<1> QED
  BY <1>3, <1>4, <1>7, LogProposalSound

LEMMA RepeatSound ==
  ASSUME NEW s, Sound(s) PROVE Sound(Repeat(s))
<1> DEFINE t == [s EXCEPT !.remote = {}]
<1>1. Sound(t)
  BY DEF Sound, NodeState
<1>2. s.accepted \in Proposals
  BY StateFields DEF Sound
<1>3. Repeat(s) = Broadcast(t, Request(s, s.accepted))
  BY DEF Repeat
<1> HIDE DEF t
<1> QED
  BY <1>1, <1>2, <1>3, RequestSound

LEMMA HeardSound ==
  ASSUME NEW s, Sound(s), NEW m \in Message, NEW b \in Ballots
  PROVE  Sound(Heard(s, m, b))
<1> DEFINE x == [node |-> m.from, num |-> b.num, decree |-> m.decree]
           remote == {r \in s.remote : r.node # m.from} \cup {x}
<1>1. x \in [node : Node, num : 0..MaxBallot, decree : Nat] /\ x.node = m.from
  BY MessageFields, BallotFields
<1>2. remote \in SUBSET [node : Node, num : 0..MaxBallot, decree : Nat]
  BY <1>1, StateFields DEF Sound
<1>3. Heard(s, m, b) = [s EXCEPT !.remote = remote]
  BY DEF Heard
<1> HIDE DEF x
<1>4. \A r, q \in remote : r.node = q.node => r = q
  BY <1>1 DEF Sound
<1> HIDE DEF remote
<1> QED
  BY <1>2, <1>3, <1>4 DEF Sound, NodeState

LEMMA HeardKeeps ==
  ASSUME NEW s \in NodeState, NEW m, NEW b
  PROVE  /\ Heard(s, m, b).state = s.state /\ Heard(s, m, b).election = s.election
         /\ Heard(s, m, b).accepted = s.accepted /\ Heard(s, m, b).prepared = s.prepared
         /\ Heard(s, m, b).freshest = s.freshest /\ Heard(s, m, b).id = s.id
  BY DEF Heard, NodeState

-----------------------------------------------------------------------------
(* The handlers that take no sequence of proposals *)

LEMMA StatusRequestSound ==
  ASSUME NEW s, Sound(s), NEW m \in Message PROVE Sound(AfterStatusRequest(s, m))
<1>1. Msg("StatusResp", s, m.from) \in Message
  BY MessageFields, NewMessageTo
<1>2. s.accepted.ballot \in Ballots /\ s.accepted.decree \in Nat
  BY StateFields, ProposalFields DEF Sound
<1>3. [Msg("StatusResp", s, m.from) EXCEPT !.ballot = s.accepted.ballot,
                                           !.decree = s.accepted.decree] \in Message
  BY <1>1, <1>2, SetMessage
<1> QED
  BY <1>3, SendSound DEF AfterStatusRequest

LEMMA ElectOrFollowSound ==
  ASSUME NEW s, Sound(s), s.state # Inactive, NEW t \in ElectOrFollow(s),
         t.prepared.num <= MaxBallot
  PROVE  Sound(t)
<1> DEFINE e == IF s.election = Unset THEN Finite ELSE s.election
           u == [s EXCEPT !.election = e]
<1>1. e = Finite
  BY StateFields DEF Sound
<1> HIDE DEF e
<1>2. Sound(u) /\ u.election = Finite /\ u.state = s.state
  BY <1>1 DEF Sound, NodeState, Finite, Overflowed
<1>3. t = Prepare(u) \/ t = Stabilize(u, StableSecondary)
  BY DEF ElectOrFollow, e
<1> HIDE DEF u
<1>4. CASE t = Prepare(u)
  BY <1>2, <1>4, PrepareSound
<1>5. CASE t = Stabilize(u, StableSecondary)
  BY <1>2, <1>5, StabilizeSound
<1> QED
  BY <1>3, <1>4, <1>5

LEMMA StatusResponseSound ==
  ASSUME NEW s, Sound(s), s.state # Inactive, NEW m \in Message,
         NEW u \in AfterStatusResponse(s, m), u.prepared.num <= MaxBallot
  PROVE  Sound(u)
<1> DEFINE t == Heard(s, m, m.ballot)
<1>1. Sound(t) /\ t.state = s.state
  BY MessageFields, HeardSound, HeardKeeps DEF Sound
<1>2. \/ u \in {s, t} \/ u = LearnVotes(s, m.from)
      \/ \E r \in t.remote : u = LearnVotes(t, r.node)
      \/ u \in ElectOrFollow(t)
  BY DEF AfterStatusResponse, Ahead, Newer
<1> HIDE DEF t
<1>3. CASE u = LearnVotes(s, m.from)
  BY <1>3, MessageFields, LearnVotesSound
<1>4. CASE \E r \in t.remote : u = LearnVotes(t, r.node)
  <2>1. PICK r \in t.remote : u = LearnVotes(t, r.node)
    BY <1>4
  <2>2. r.node \in Node
    BY <1>1, StateFields DEF Sound
  <2> QED
    BY <1>1, <2>1, <2>2, LearnVotesSound
<1>5. CASE u \in ElectOrFollow(t)
  BY <1>1, <1>5, ElectOrFollowSound
<1> QED
  BY <1>1, <1>2, <1>3, <1>4, <1>5

\* A node that has a timer prepares another's ballot.
LEMMA PostponedSound ==
  ASSUME NEW s, Sound(s), s.election = Finite, NEW b \in Ballots, b.num > s.prepared.num
  PROVE  /\ Sound(Postponed([s EXCEPT !.prepared = b]))
         /\ Postponed([s EXCEPT !.prepared = b]).election = Finite
<1> DEFINE t == [s EXCEPT !.prepared = b]
           u == [t EXCEPT !.election = Finite]
<1>1. /\ b.num \in Nat /\ s.prepared.num \in Nat /\ s.accepted.ballot.num \in Nat
      /\ s.accepted.ballot.num <= s.prepared.num
  BY StateFields, ProposalFields, BallotFields DEF Sound
<1>2. Postponed(t) = u
  BY DEF Postponed, Sound, NodeState, Unset, Finite
<1>3. u \in NodeState
  BY DEF Sound, NodeState
<1>4. /\ u.election = Finite /\ u.prepared = b /\ u.accepted = s.accepted
      /\ u.proposalQ = s.proposalQ /\ u.remote = s.remote
  BY DEF Sound, NodeState
<1> HIDE DEF u
<1>5. u.accepted.ballot.num <= u.prepared.num
  BY <1>1, <1>4
<1>6. Sound(u)
  BY <1>3, <1>4, <1>5 DEF Sound, Finite, Overflowed
<1> QED
  BY <1>2, <1>4, <1>6

LEMMA PrepareRequestSound ==
  ASSUME NEW s, Sound(s), s.state # Inactive, NEW m \in Message
  PROVE  Sound(AfterPrepareRequest(s, m))
<1> DEFINE x == [Msg("PrepareResp", s, m.from) EXCEPT
                   !.accept = TRUE, !.ballot = m.ballot,
                   !.proposalBallot = s.accepted.ballot,
                   !.decree = s.accepted.decree, !.command = s.accepted.command]
           u == Postponed([s EXCEPT !.prepared = m.ballot])
           t == IF Promises(s, m) THEN Send(u, x) ELSE s
<1>1. x \in Message
  <2>1. Msg("PrepareResp", s, m.from) \in Message
    BY MessageFields, NewMessageTo
  <2>2. /\ s.accepted.ballot \in Ballots /\ s.accepted.decree \in Nat
        /\ s.accepted.command \in Commands /\ m.ballot \in Ballots
    BY StateFields, ProposalFields, MessageFields DEF Sound
  <2> QED
    BY <2>1, <2>2 DEF Message
<1> HIDE DEF x
<1>2. AfterPrepareRequest(s, m) \in
        {Refuse(s, m, "PrepareResp"), s} \union
        (IF s.state = Initializing THEN {} ELSE {Initialize(t), Stabilize(t, StableSecondary)})
  BY DEF AfterPrepareRequest, x
<1>3. ASSUME s.state # Initializing PROVE Sound(t) /\ t.election = Finite
  <2>1. s.election = Finite
    BY <1>3 DEF Sound
  <2>2. CASE Promises(s, m)
    <3>1. Sound(u) /\ u.election = Finite
      BY <2>1, <2>2, MessageFields, PostponedSound DEF Promises
    <3> HIDE DEF u
    <3>2. Sound(Send(u, x)) /\ Send(u, x).election = Finite
      BY <1>1, <3>1, SendSound DEF Send, Sound, NodeState
    <3> QED
      BY <2>2, <3>2
  <2>3. CASE ~Promises(s, m)
    BY <2>1, <2>3
  <2> QED
    BY <2>2, <2>3
<1> HIDE DEF t
<1>4. Sound(Refuse(s, m, "PrepareResp"))
  BY RefuseSound
<1>5. s.state # Initializing => Sound(Initialize(t)) /\ Sound(Stabilize(t, StableSecondary))
  BY <1>3, InitializeSound, StabilizeSound
<1> QED
  BY <1>2, <1>4, <1>5

LEMMA PrepareResponseSound ==
  ASSUME NEW s, Sound(s), NEW m \in Message
  PROVE  Sound(AfterPrepareResponse(s, m))
<1> DEFINE f == Freshest(s, m)
           r == [s EXCEPT !.freshest = f]
           t == Heard(r, m, m.proposalBallot)
           p == [t.freshest EXCEPT !.ballot = s.prepared]
           q == [t EXCEPT !.freshest = p]
           b == Broadcast(q, Request(s, p))
           u == LogProposal(b, p)
           v == [u EXCEPT !.ready = FALSE]
<1>1. CASE s.state # Preparing
  BY <1>1 DEF AfterPrepareResponse
<1>2. CASE s.state = Preparing
  <2>1. s.election = Finite
    BY <1>2 DEF Sound, Preparing, Initializing, Inactive
  <2>2. f \in Proposals
    <3>1. Proposal(m.proposalBallot, m.decree, m.command) \in Proposals
      BY MessageFields DEF Proposal, Proposals
    <3>2. s.freshest \in Proposals
      BY StateFields DEF Sound
    <3>3. Freshest(s, m) \in {s.freshest, Proposal(m.proposalBallot, m.decree, m.command)}
      BY DEF Freshest
    <3> QED
      BY <3>1, <3>2, <3>3
  <2>3. AfterPrepareResponse(s, m) \in {s, t, Stabilize(v, StablePrimary)}
    BY DEF AfterPrepareResponse
  <2> HIDE DEF f
  <2>4. Sound(r) /\ r.election = Finite /\ r.freshest = f
    BY <2>1, <2>2 DEF Sound, NodeState
  <2> HIDE DEF r
  <2>5. Sound(t) /\ t.election = Finite /\ t.freshest = f
    BY <2>4, MessageFields, HeardSound, HeardKeeps DEF Sound
  <2> HIDE DEF t
  <2>6. p \in Proposals
    BY <2>2, <2>5, StateFields DEF Proposals, Sound
  <2> HIDE DEF p
  <2>q. Sound(q) /\ q.election = Finite
    BY <2>5, <2>6 DEF Sound, NodeState
  <2> HIDE DEF q
  <2>7. Sound(b) /\ b.election = Finite
    BY <2>q, <2>6, RequestSound, BroadcastKeeps DEF Sound
  <2> HIDE DEF b
  <2>8. Sound(u) /\ u.election = Finite
    BY <2>6, <2>7, LogProposalSound
  <2> HIDE DEF u
  <2>9. Sound(v) /\ v.election = Finite
    BY <2>8 DEF Sound, NodeState
  <2> HIDE DEF v
  <2>10. Sound(Stabilize(v, StablePrimary))
    BY <2>9, StabilizeSound
  <2> QED
    BY <2>3, <2>5, <2>10
<1> QED
  BY <1>1, <1>2

LEMMA AcceptSound ==
  ASSUME NEW s, Sound(s), s.election = Finite, NEW m \in Message
  PROVE  Sound(Accept(s, m))
<1> DEFINE e == Execute(s, s.accepted)
           f == [e EXCEPT !.election = Finite]
           t == IF m.decree = s.accepted.decree + 1 THEN f ELSE s
           p == Proposal(m.ballot, m.decree, m.command)
           u == LogProposal(t, p)
           x == [Msg("AcceptResp", s, m.from) EXCEPT
                   !.accept = TRUE, !.ballot = m.ballot, !.decree = m.decree]
           v == Send(u, x)
<1>1. p \in Proposals
  BY MessageFields DEF Proposal, Proposals
<1>2. x \in Message
  BY MessageFields, NewMessageTo, SetMessage
<1>3. Accept(s, m) = Stabilize(v, StableSecondary)
  BY DEF Accept
<1> HIDE DEF p, x
<1>4. Sound(e)
  BY StateFields, ExecuteSound DEF Sound
<1> HIDE DEF e
<1>5. Sound(f) /\ f.election = Finite
  BY <1>4 DEF Sound, NodeState, Finite, Overflowed
<1> HIDE DEF f
<1>6. Sound(t) /\ t.election = Finite
  BY <1>5
<1> HIDE DEF t
<1>7. Sound(u) /\ u.election = Finite
  BY <1>1, <1>6, LogProposalSound
<1> HIDE DEF u
<1>8. Sound(v) /\ v.election = Finite
  BY <1>2, <1>7, SendSound DEF Send, Sound, NodeState
<1> HIDE DEF v
<1> QED
  BY <1>3, <1>8, StabilizeSound

LEMMA CacheSound ==
  ASSUME NEW s, Sound(s), NEW m \in Message PROVE Sound(Cache(s, m))
<1> DEFINE p == Proposal(m.ballot, m.decree, m.command)
           kept == Append(Kept(s), p)
           one == <<p>>
<1>1. p \in Proposals
  BY MessageFields DEF Proposal, Proposals
<1>2. Cache(s, m) \in {[s EXCEPT !.proposalQ = one], Refuse(s, m, "AcceptResp"), s,
                       [s EXCEPT !.proposalQ = kept]}
  BY DEF Cache
<1> HIDE DEF p
<1>3. one \in Seq(Proposals) /\ Len(one) <= MaxCachedLength
  <2>1. one \in Seq(Proposals) /\ Len(one) = 1
    BY <1>1
  <2> QED
    BY <2>1, RSLAssumption
<1>4. kept \in Seq(Proposals) /\ Len(kept) <= MaxCachedLength
  <2>1. /\ s.proposalQ \in Seq(Proposals) /\ Len(s.proposalQ) \in Nat
        /\ Len(s.proposalQ) <= MaxCachedLength
    BY StateFields, LenProperties DEF Sound
  <2>2. Kept(s) \in Seq(Proposals) /\ Len(Kept(s)) \in Nat /\ Len(Kept(s)) + 1 <= MaxCachedLength
    BY <2>1, EmptySeq, RSLAssumption DEF Kept
  <2>3. kept \in Seq(Proposals) /\ Len(kept) = Len(Kept(s)) + 1
    BY <1>1, <2>2, AppendProperties
  <2> QED
    BY <2>2, <2>3
<1> HIDE DEF kept, one
<1>5. Sound([s EXCEPT !.proposalQ = one]) /\ Sound([s EXCEPT !.proposalQ = kept])
  BY <1>3, <1>4 DEF Sound, NodeState
<1>6. Sound(Refuse(s, m, "AcceptResp"))
  BY RefuseSound
<1> QED
  BY <1>2, <1>5, <1>6

LEMMA AcceptRequestSound ==
  ASSUME NEW s, Sound(s), s.state # Inactive, NEW m \in Message
  PROVE  Sound(AfterAcceptRequest(s, m))
<1>1. CASE s.state = Initializing
  <2>1. AfterAcceptRequest(s, m) \in {s, Cache(s, m)}
    BY <1>1 DEF AfterAcceptRequest
  <2> QED
    BY <2>1, CacheSound
<1>2. CASE s.state # Initializing
  <2>1. s.election = Finite
    BY <1>2 DEF Sound
  <2>2. AfterAcceptRequest(s, m) \in
          {s, Refuse(s, m, "AcceptResp"), Accept(s, m), Initialize(s)}
    BY <1>2 DEF AfterAcceptRequest
  <2> QED
    BY <2>1, <2>2, RefuseSound, AcceptSound, InitializeSound
<1> QED
  BY <1>1, <1>2

LEMMA NotAcceptSound ==
  ASSUME NEW s, Sound(s), s.state # Inactive, NEW m \in Message
  PROVE  Sound(AfterNotAccept(s, m))
<1> DEFINE t == Postponed([s EXCEPT !.prepared = m.ballot])
<1>1. CASE s.state = Initializing
  BY <1>1 DEF AfterNotAccept
<1>2. CASE s.state # Initializing /\ m.ballot.num > s.prepared.num
  <2>1. s.election = Finite
    BY <1>2 DEF Sound
  <2>2. Sound(t) /\ t.election = Finite
    BY <1>2, <2>1, MessageFields, PostponedSound
  <2>3. AfterNotAccept(s, m) \in {s, Initialize(s), Stabilize(t, StableSecondary)}
    BY DEF AfterNotAccept
  <2> HIDE DEF t
  <2> QED
    BY <2>2, <2>3, InitializeSound, StabilizeSound
<1>3. CASE s.state # Initializing /\ ~(m.ballot.num > s.prepared.num)
  <2>1. AfterNotAccept(s, m) \in {s, Initialize(s)}
    BY <1>3 DEF AfterNotAccept
  <2> QED
    BY <2>1, InitializeSound
<1> QED
  BY <1>1, <1>2, <1>3

LEMMA AcceptResponseSound ==
  ASSUME NEW s, Sound(s), NEW m \in Message PROVE Sound(AfterAcceptResponse(s, m))
<1> DEFINE t == Heard(s, m, m.ballot)
           e == Execute(t, s.accepted)
<1>1. Sound(t)
  BY MessageFields, HeardSound
<1>2. AfterAcceptResponse(s, m) \in {s, t, [e EXCEPT !.ready = TRUE]}
  BY DEF AfterAcceptResponse
<1> HIDE DEF t
<1>3. Sound(e)
  BY <1>1, StateFields, ExecuteSound DEF Sound
<1> HIDE DEF e
<1>4. Sound([e EXCEPT !.ready = TRUE])
  BY <1>3 DEF Sound, NodeState
<1> QED
  BY <1>1, <1>2, <1>4

-----------------------------------------------------------------------------
(* Functions that take a sequence one element after the other *)

LEMMA Smaller ==
  \E R : IsWellFoundedOn(R, Nat) /\ \A x, y \in Nat : x < y => <<x, y>> \in R
<1> DEFINE R == {ss \in Nat \X Nat : ss[1] < ss[2]}
<1>1. IsWellFoundedOn(R, Nat)
  BY NatLessThanWellFounded DEF OpToRel
<1>2. \A x, y \in Nat : x < y => <<x, y>> \in R
  OBVIOUS
<1> QED
  BY <1>1, <1>2

LEMMA LeastExists ==
  ASSUME NEW S \in SUBSET Nat, S # {} PROVE \E x \in S : \A y \in S : x <= y
<1>1. PICK R : IsWellFoundedOn(R, Nat) /\ \A x, y \in Nat : x < y => <<x, y>> \in R
  BY Smaller
<1>2. S \subseteq Nat
  OBVIOUS
<1>3. \E x \in S : \A y \in S : ~(<<y, x>> \in R)
  <2>1. IsWellFoundedOn(R, Nat) /\ S \subseteq Nat /\ S # {}
    BY <1>1
  <2> QED
    BY ONLY <2>1, WFMin
<1>4. PICK x \in S : \A y \in S : ~(<<y, x>> \in R)
  BY <1>3
<1>5. \A y \in S : ~(y < x)
  BY <1>1, <1>2, <1>4
<1> QED
  BY <1>2, <1>5

LEMMA UpTo ==
  ASSUME NEW n \in Nat, NEW S, 0 \in S, \A k \in 1..n : k - 1 \in S => k \in S
  PROVE  \A k \in 0..n : k \in S
<1> DEFINE T == {k \in 0..n : k \notin S}
<1>1. ASSUME T # {} PROVE FALSE
  <2>1. T \in SUBSET Nat
    OBVIOUS
  <2>2. PICK k \in T : \A j \in T : k <= j
    BY <1>1, <2>1, LeastExists
  <2>3. k # 0 /\ k \in 1..n /\ k - 1 \in 0..n /\ ~(k <= k - 1)
    BY <2>2
  <2>4. k - 1 \in S
    BY <2>2, <2>3
  <2> QED
    BY <2>2, <2>3, <2>4
<1> QED
  BY <1>1

\* The results in X of a step h taken 0, 1, ..., n times from x.
Results(f, X, x, n, h) ==
  f \in [0..n -> X] /\ f[0] = x /\ \A k \in 1..n : f[k] = h[<<f[k - 1], k>>]

LEMMA Repeated ==
  ASSUME NEW X, NEW x \in X, NEW n \in Nat, NEW h \in [X \X (1..n) -> X]
  PROVE  \E f : Results(f, X, x, n, h)
<1> DEFINE Is(f, j) == f \in [0..j -> X] /\ f[0] = x /\ \A k \in 1..j : f[k] = h[<<f[k - 1], k>>]
           S == {j \in 0..n : \E f : Is(f, j)}
<1>1. 0 \in S
  <2> DEFINE f == [j \in 0..0 |-> x]
  <2>1. f \in [0..0 -> X] /\ f[0] = x
    OBVIOUS
  <2>2. \A k \in 1..0 : f[k] = h[<<f[k - 1], k>>]
    OBVIOUS
  <2> HIDE DEF f
  <2>3. Is(f, 0)
    BY <2>1, <2>2
  <2> QED
    BY <2>3
<1>2. ASSUME NEW k \in 1..n, k - 1 \in S PROVE k \in S
  <2>1. PICK f : Is(f, k - 1)
    BY <1>2
  <2> DEFINE g == [j \in 0..k |-> IF j = k THEN h[<<f[k - 1], k>>] ELSE f[j]]
  <2>2. f[k - 1] \in X /\ h[<<f[k - 1], k>>] \in X
    BY <2>1
  <2>3. g \in [0..k -> X]
    <3>1. ASSUME NEW j \in 0..k PROVE g[j] \in X
      BY <2>1, <2>2
    <3> QED
      BY <3>1
  <2>4. g[0] = x
    BY <2>1
  <2>5. ASSUME NEW j \in 1..k PROVE g[j] = h[<<g[j - 1], j>>]
    <3>1. j - 1 \in 0..k /\ j - 1 # k /\ g[j - 1] = f[j - 1]
      OBVIOUS
    <3>2. CASE j = k
      BY <3>1, <3>2
    <3>3. CASE j # k
      <4>1. j \in 1..(k - 1) /\ g[j] = f[j]
        BY <3>3
      <4>2. f[j] = h[<<f[j - 1], j>>]
        BY <2>1, <4>1
      <4> QED
        BY <3>1, <4>1, <4>2
    <3> QED
      BY <3>2, <3>3
  <2> HIDE DEF g
  <2>6. Is(g, k)
    BY <2>3, <2>4, <2>5
  <2> QED
    BY <2>6
<1>3. \A k \in 0..n : k \in S
  <2> HIDE DEF S
  <2> QED
    BY <1>1, <1>2, UpTo
<1>4. n \in S
  BY <1>3
<1> QED
  BY <1>4 DEF Results

\* The nodes that have a timer.
Timed == {s \in NodeState : Sound(s) /\ s.election = Finite}

LEMMA LearnedSound ==
  ASSUME NEW s \in Timed, NEW p \in Proposals PROVE Learned(s, p) \in Timed
<1> DEFINE e == Execute(s, s.accepted)
           f == [e EXCEPT !.election = Finite]
           t == IF NextDecree(s, p) THEN f ELSE s
<1>1. Sound(e)
  BY StateFields, ExecuteSound DEF Timed
<1>2. Learned(s, p) = LogProposal(t, p)
  BY DEF Learned
<1> HIDE DEF e
<1>3. Sound(f) /\ f.election = Finite
  BY <1>1 DEF Sound, NodeState, Finite, Overflowed
<1> HIDE DEF f
<1>4. Sound(t) /\ t.election = Finite
  BY <1>3 DEF Timed
<1> HIDE DEF t
<1> QED
  BY <1>2, <1>4, LogProposalSound DEF Timed, Sound

LEMMA LearnAllSound ==
  ASSUME NEW s \in Timed, NEW ps \in Seq(Proposals) PROVE LearnAll(s, ps) \in Timed
<1> DEFINE n == Len(ps)
           Is(f) == f = [k \in 0..n |-> IF k = 0 THEN s ELSE Learned(f[k - 1], ps[k])]
           g == CHOOSE f : Is(f)
           h == [z \in Timed \X (1..n) |-> Learned(z[1], ps[z[2]])]
<1>1. n \in Nat /\ \A k \in 1..n : ps[k] \in Proposals
  BY LenProperties
<1>2. LearnAll(s, ps) = g[n]
  BY DEF LearnAll
<1> HIDE DEF n
<1>3. h \in [Timed \X (1..n) -> Timed]
  <2>1. ASSUME NEW z \in Timed \X (1..n) PROVE Learned(z[1], ps[z[2]]) \in Timed
    <3>1. z[1] \in Timed /\ ps[z[2]] \in Proposals
      BY <1>1
    <3> QED
      BY <3>1, LearnedSound
  <2> QED
    BY <2>1
<1>4a. PICK f : Results(f, Timed, s, n, h)
  <2> HIDE DEF h
  <2> QED
    BY <1>1, <1>3, Repeated
<1>4. f \in [0..n -> Timed] /\ f[0] = s /\ \A k \in 1..n : f[k] = h[<<f[k - 1], k>>]
  <2> HIDE DEF h
  <2> QED
    BY <1>4a DEF Results
<1>5. Is(f)
  <2>1. ASSUME NEW k \in 0..n PROVE f[k] = IF k = 0 THEN s ELSE Learned(f[k - 1], ps[k])
    <3>1. CASE k = 0
      BY <1>4, <3>1
    <3>2. CASE k # 0
      <4>1. k \in 1..n /\ f[k - 1] \in Timed
        BY <1>1, <1>4, <3>2
      <4>2. h[<<f[k - 1], k>>] = Learned(f[k - 1], ps[k])
        BY <4>1
      <4> QED
        BY <1>4, <3>2, <4>1, <4>2
    <3> QED
      BY <3>1, <3>2
  <2> QED
    BY <1>4, <2>1
<1>6. Is(g)
  BY <1>5
<1> HIDE DEF g
<1> DEFINE S == {k \in 0..n : g[k] \in Timed}
<1>7. 0 \in S
  BY <1>1, <1>6
<1>8. ASSUME NEW k \in 1..n, k - 1 \in S PROVE k \in S
  <2>1. g[k] = Learned(g[k - 1], ps[k])
    BY <1>1, <1>6
  <2> QED
    BY <1>1, <1>8, <2>1, LearnedSound
<1>9. \A k \in 0..n : k \in S
  <2> HIDE DEF S
  <2> QED
    BY <1>1, <1>7, <1>8, UpTo
<1> QED
  BY <1>1, <1>2, <1>9

\* A proposal of the next decree sets the timer.
LEMMA NextLearnedSound ==
  ASSUME NEW s, Sound(s), NEW p \in Proposals, NextDecree(s, p) PROVE Learned(s, p) \in Timed
<1> DEFINE e == Execute(s, s.accepted)
           f == [e EXCEPT !.election = Finite]
<1>1. Sound(e)
  BY StateFields, ExecuteSound DEF Sound
<1>2. Learned(s, p) = LogProposal(f, p)
  BY DEF Learned
<1> HIDE DEF e
<1>3. Sound(f) /\ f.election = Finite
  BY <1>1 DEF Sound, NodeState, Finite, Overflowed
<1> HIDE DEF f
<1> QED
  BY <1>2, <1>3, LogProposalSound DEF Timed, Sound

\* The proposals of a fetch response, up to each entry of the log.
Answers(s, m, f) ==
  /\ f \in [0..Len(s.log) -> Seq(Proposals)] /\ f[0] = <<>>
  /\ \A k \in 1..Len(s.log) :
       f[k] = IF s.log[k].decree >= m.decree THEN Append(f[k - 1], s.log[k]) ELSE f[k - 1]

LEMMA FetchAnswers ==
  ASSUME NEW s, Sound(s), NEW m \in Message
  PROVE  \E f : /\ Answers(s, m, f)
               /\ AfterFetchRequest(s, m) =
                    Send(s, [Msg("FetchResp", s, m.from) EXCEPT !.proposals = f[Len(s.log)]])
<1> DEFINE n == Len(s.log)
           X == Seq(Proposals)
           H(v, k) == IF s.log[k].decree >= m.decree THEN Append(v, s.log[k]) ELSE v
           Is(f) == f = [k \in 0..n |-> IF k = 0 THEN <<>> ELSE H(f[k - 1], k)]
           g == CHOOSE f : Is(f)
           h == [z \in X \X (1..n) |-> H(z[1], z[2])]
<1>1. n \in Nat /\ \A k \in 1..n : s.log[k] \in Proposals
  BY StateFields, LenProperties DEF Sound
<1>2. AfterFetchRequest(s, m) = Send(s, [Msg("FetchResp", s, m.from) EXCEPT !.proposals = g[n]])
  BY DEF AfterFetchRequest
<1>3. \A v \in X, k \in 1..n : H(v, k) \in X
  BY <1>1, AppendProperties
<1> HIDE DEF H, n
<1>4. h \in [X \X (1..n) -> X]
  <2>1. ASSUME NEW z \in X \X (1..n) PROVE H(z[1], z[2]) \in X
    BY <1>3
  <2> QED
    BY <2>1
<1>5. <<>> \in X
  BY EmptySeq
<1> HIDE DEF X
<1>6. PICK f : Results(f, X, <<>>, n, h)
  <2> HIDE DEF h
  <2> QED
    BY <1>1, <1>4, <1>5, Repeated
<1>7. f \in [0..n -> X] /\ f[0] = <<>> /\ \A k \in 1..n : f[k] = h[<<f[k - 1], k>>]
  <2> HIDE DEF h
  <2> QED
    BY <1>6 DEF Results
<1>8. Is(f)
  <2>1. ASSUME NEW k \in 0..n PROVE f[k] = IF k = 0 THEN <<>> ELSE H(f[k - 1], k)
    <3>1. CASE k = 0
      BY <1>7, <3>1
    <3>2. CASE k # 0
      <4>1. k \in 1..n /\ f[k - 1] \in X
        BY <1>1, <1>7, <3>2
      <4>2. h[<<f[k - 1], k>>] = H(f[k - 1], k)
        BY <4>1
      <4> QED
        BY <1>7, <3>2, <4>1, <4>2
    <3> QED
      BY <3>1, <3>2
  <2> QED
    BY <1>7, <2>1
<1>9. Is(g)
  BY <1>8
<1> HIDE DEF g
<1> DEFINE S == {k \in 0..n : g[k] \in X}
<1>10. 0 \in S
  BY <1>1, <1>5, <1>9
<1>11. ASSUME NEW k \in 1..n, k - 1 \in S PROVE k \in S
  <2>1. g[k] = H(g[k - 1], k)
    BY <1>1, <1>9
  <2> QED
    BY <1>1, <1>3, <1>11, <2>1
<1>12. \A k \in 0..n : g[k] \in X
  <2>1. \A k \in 0..n : k \in S
    <3> HIDE DEF S
    <3> QED
      BY <1>1, <1>10, <1>11, UpTo
  <2> QED
    BY <2>1
<1>13. g \in [0..n -> X]
  BY <1>9, <1>12
<1>14. \A k \in 1..n : g[k] = H(g[k - 1], k)
  BY <1>1, <1>9
<1>15. g[0] = <<>>
  BY <1>1, <1>9
<1>16. Answers(s, m, g)
  BY <1>13, <1>14, <1>15 DEF Answers, X, H, n
<1> QED
  BY <1>2, <1>16 DEF n

LEMMA FetchRequestSound ==
  ASSUME NEW s, Sound(s), NEW m \in Message PROVE Sound(AfterFetchRequest(s, m))
<1>1. PICK f : /\ Answers(s, m, f)
               /\ AfterFetchRequest(s, m) =
                    Send(s, [Msg("FetchResp", s, m.from) EXCEPT !.proposals = f[Len(s.log)]])
  BY FetchAnswers
<1>2. f[Len(s.log)] \in Seq(Proposals)
  BY <1>1, StateFields, LenProperties DEF Answers, Sound
<1>3. Msg("FetchResp", s, m.from) \in Message
  BY MessageFields, NewMessageTo
<1>4. [Msg("FetchResp", s, m.from) EXCEPT !.proposals = f[Len(s.log)]] \in Message
  BY <1>2, <1>3 DEF Message
<1> QED
  BY <1>1, <1>4, SendSound

\* What the handler of a fetch response has made of the node so far.
Fetched == {r \in [state : NodeState, done : BOOLEAN] : Sound(r.state)}

LEMMA FetchSound ==
  ASSUME NEW s, Sound(s), NEW p \in Proposals PROVE Fetch(s, p) \in Fetched
<1> DEFINE q == Proposal(s.accepted.ballot, p.decree, p.command)
           t == Learned(s, q)
           u == LogProposal(t, p)
           v == LearnAll(u, s.proposalQ)
<1>1. CASE p.ballot.num <= s.accepted.ballot.num \/ ~NextDecree(s, p)
  BY <1>1 DEF Fetch, Fetched, Sound
<1>2. CASE ~(p.ballot.num <= s.accepted.ballot.num \/ ~NextDecree(s, p))
  <2>1. Fetch(s, p) \in {[state |-> Stabilize(v, StableSecondary), done |-> TRUE],
                         [state |-> u, done |-> FALSE]}
    BY <1>2 DEF Fetch
  <2>2. q \in Proposals /\ q.decree = p.decree
    BY StateFields, ProposalFields DEF Proposal, Proposals, Sound
  <2>3. NextDecree(s, q)
    BY <1>2, <2>2 DEF NextDecree
  <2> HIDE DEF q
  <2>4. t \in Timed
    BY <2>2, <2>3, NextLearnedSound
  <2> HIDE DEF t
  <2>5. u \in Timed
    BY <2>4, LogProposalSound DEF Timed, Sound
  <2> HIDE DEF u
  <2>6. v \in Timed
    BY <2>5, StateFields, LearnAllSound DEF Sound
  <2> HIDE DEF v
  <2>7. Sound(Stabilize(v, StableSecondary)) /\ Sound(u)
    BY <2>5, <2>6, StabilizeSound DEF Timed
  <2>8. Stabilize(v, StableSecondary) \in NodeState /\ u \in NodeState
    BY <2>7 DEF Sound
  <2>9. ASSUME NEW w \in NodeState, Sound(w), NEW d \in BOOLEAN
        PROVE  [state |-> w, done |-> d] \in Fetched
    BY <2>9 DEF Fetched
  <2> QED
    BY <2>1, <2>7, <2>8, <2>9
<1> QED
  BY <1>1, <1>2

\* What the handler has made of it after each proposal of the response.
Fetches(s, m, f) ==
  /\ f \in [0..Len(m.proposals) -> Fetched] /\ f[0] = [state |-> s, done |-> FALSE]
  /\ \A k \in 1..Len(m.proposals) :
       f[k] = IF f[k - 1].done THEN f[k - 1] ELSE Fetch(f[k - 1].state, m.proposals[k])

Ended(s, m, last) ==
  IF s.learningFrom # m.from THEN s
  ELSE [(IF last.done THEN last.state ELSE Initialize(last.state)) EXCEPT !.learningFrom = Nobody]

LEMMA FetchFetches ==
  ASSUME NEW s, Sound(s), NEW m \in Message
  PROVE  \E f : Fetches(s, m, f) /\ AfterFetchResponse(s, m) = Ended(s, m, f[Len(m.proposals)])
<1> DEFINE ps == m.proposals
           n == Len(ps)
           x == [state |-> s, done |-> FALSE]
           H(v, k) == IF v.done THEN v ELSE Fetch(v.state, ps[k])
           Is(f) == f = [k \in 0..n |-> IF k = 0 THEN x ELSE H(f[k - 1], k)]
           g == CHOOSE f : Is(f)
           h == [z \in Fetched \X (1..n) |-> H(z[1], z[2])]
<1>1. n \in Nat /\ \A k \in 1..n : ps[k] \in Proposals
  BY MessageFields, LenProperties
<1>2. AfterFetchResponse(s, m) = Ended(s, m, g[n])
  BY DEF AfterFetchResponse, Ended
<1>3. \A v \in Fetched, k \in 1..n : H(v, k) \in Fetched
  BY <1>1, FetchSound DEF Fetched
<1>5. x \in Fetched
  BY DEF Fetched, Sound
<1> HIDE DEF H, n, x
<1>4. h \in [Fetched \X (1..n) -> Fetched]
  <2>1. ASSUME NEW z \in Fetched \X (1..n) PROVE H(z[1], z[2]) \in Fetched
    BY <1>3
  <2> QED
    BY <2>1
<1>6. PICK f : Results(f, Fetched, x, n, h)
  <2> HIDE DEF h
  <2> QED
    BY <1>1, <1>4, <1>5, Repeated
<1>7. f \in [0..n -> Fetched] /\ f[0] = x /\ \A k \in 1..n : f[k] = h[<<f[k - 1], k>>]
  <2> HIDE DEF h
  <2> QED
    BY <1>6 DEF Results
<1>8. Is(f)
  <2>1. ASSUME NEW k \in 0..n PROVE f[k] = IF k = 0 THEN x ELSE H(f[k - 1], k)
    <3>1. CASE k = 0
      BY <1>7, <3>1
    <3>2. CASE k # 0
      <4>1. k \in 1..n /\ f[k - 1] \in Fetched
        BY <1>1, <1>7, <3>2
      <4>2. h[<<f[k - 1], k>>] = H(f[k - 1], k)
        BY <4>1
      <4> QED
        BY <1>7, <3>2, <4>1, <4>2
    <3> QED
      BY <3>1, <3>2
  <2> QED
    BY <1>7, <2>1
<1>9. Is(g)
  BY <1>8
<1> DEFINE S == {k \in 0..n : g[k] \in Fetched}
<1> HIDE DEF g
<1>10. 0 \in S
  BY <1>1, <1>5, <1>9
<1>11. ASSUME NEW k \in 1..n, k - 1 \in S PROVE k \in S
  <2>1. g[k] = H(g[k - 1], k)
    BY <1>1, <1>9
  <2> QED
    BY <1>1, <1>3, <1>11, <2>1
<1>12. \A k \in 0..n : g[k] \in Fetched
  <2>1. \A k \in 0..n : k \in S
    <3> HIDE DEF S
    <3> QED
      BY <1>1, <1>10, <1>11, UpTo
  <2> QED
    BY <2>1
<1>13. g \in [0..n -> Fetched]
  BY <1>9, <1>12
<1>14. \A k \in 1..n : g[k] = H(g[k - 1], k)
  BY <1>1, <1>9
<1>15. g[0] = x
  BY <1>1, <1>9
<1>16. Fetches(s, m, g)
  BY <1>13, <1>14, <1>15 DEF Fetches, x, H, n
<1> QED
  BY <1>2, <1>16 DEF n

LEMMA FetchResponseSound ==
  ASSUME NEW s, Sound(s), NEW m \in Message PROVE Sound(AfterFetchResponse(s, m))
<1>1. PICK f : Fetches(s, m, f) /\ AfterFetchResponse(s, m) = Ended(s, m, f[Len(m.proposals)])
  BY FetchFetches
<1>2. f[Len(m.proposals)] \in Fetched
  BY <1>1, MessageFields, LenProperties DEF Fetches
<1> DEFINE last == f[Len(m.proposals)]
           t == IF last.done THEN last.state ELSE Initialize(last.state)
<1>3. Sound(t)
  BY <1>2, InitializeSound DEF Fetched
<1>4. AfterFetchResponse(s, m) \in {s, [t EXCEPT !.learningFrom = Nobody]}
  BY <1>1 DEF Ended
<1> HIDE DEF t
<1>5. Sound([t EXCEPT !.learningFrom = Nobody])
  BY <1>3 DEF Sound, NodeState
<1> QED
  BY <1>4, <1>5

-----------------------------------------------------------------------------
(* The environment *)

\* The inductive invariant: every node is sound, and what is in transit are
\* messages, whatever nodes they are of.
Nodes == node \in [Node -> NodeState] /\ \A n \in Node : Sound(node[n])

IInv ==
  /\ Nodes
  /\ messages \subseteq Message
  /\ requests \in Seq(Commands \ {0})
  /\ events \in 0..MaxEvents /\ disturbed \in BOOLEAN

LEMMA NewNodeSound ==
  ASSUME NEW n \in Node
  PROVE  /\ NewNode(n) \in NodeState /\ Sound(NewNode(n))
         /\ Fresh(n) \in NodeState /\ Sound(Fresh(n))
<1>1. /\ NoBallot \in Ballots /\ NoProposal \in Proposals /\ MaxCachedLength \in Nat
      /\ NoProposal.ballot = NoBallot /\ NoBallot.num = 0
  BY Constants, RSLAssumption DEF NoProposal, Proposal
<1>2. <<>> \in Seq(Proposals) /\ <<>> \in Seq(Commands) /\ <<>> \in Seq(Commands \ {0}) /\ Len(<<>>) = 0
  BY EmptySeq
<1>3. NewNode(n) \in NodeState
  BY <1>1, <1>2 DEF NewNode, NodeState
<1>4. Sound(NewNode(n))
  <2>1. /\ Len(NewNode(n).proposalQ) <= MaxCachedLength
        /\ NewNode(n).accepted.ballot.num <= NewNode(n).prepared.num
    BY <1>1, <1>2 DEF NewNode
  <2>2. NewNode(n).remote = {} /\ NewNode(n).election = Unset /\ NewNode(n).state = Inactive
    BY DEF NewNode
  <2> QED
    BY <1>3, <2>1, <2>2 DEF Sound, Unset, Overflowed
<1>5. Sound(Fresh(n))
  BY <1>4, InitializeSound DEF Fresh
<1> QED
  BY <1>3, <1>4, <1>5 DEF Sound

LEMMA AllRequests == [i \in 1..NumCommands |-> i] \in Seq(Commands \ {0})
<1>1. NumCommands \in Nat /\ \A i \in 1..NumCommands : i \in Commands \ {0}
  BY RSLAssumption DEF Commands
<1> QED
  BY <1>1

LEMMA QueuedRequest ==
  ASSUME NEW q \in Seq(Commands \ {0}), NEW c \in Commands \ {0}
  PROVE  Append(q, c) \in Seq(Commands \ {0})
  BY AppendProperties

LEMMA QueueSound ==
  ASSUME NEW s, Sound(s), NEW q \in Seq(Commands \ {0})
  PROVE  Sound([s EXCEPT !.commandQ = q]) /\ [s EXCEPT !.commandQ = q] \in NodeState
  BY DEF Sound, NodeState

LEMMA InitIInv == Init => IInv
<1> SUFFICES ASSUME Init PROVE IInv
  OBVIOUS
<1>1. Nodes
  BY NewNodeSound DEF Init, Nodes
<1> DEFINE all == [i \in 1..NumCommands |-> i]
<1>2. all \in Seq(Commands \ {0}) /\ requests = all
  BY AllRequests DEF Init
<1> HIDE DEF all
<1>3. requests \in Seq(Commands \ {0})
  BY <1>2
<1>4. messages \subseteq Message /\ events \in 0..MaxEvents /\ disturbed \in BOOLEAN
  <2>1. messages = {} /\ events = 0 /\ disturbed = FALSE
    BY DEF Init
  <2>2. events \in 0..MaxEvents
    BY <2>1, RSLAssumption
  <2>3. messages \subseteq Message
    BY <2>1
  <2>4. disturbed \in BOOLEAN
    BY <2>1
  <2> QED
    BY <2>2, <2>3, <2>4
<1> QED
  BY <1>1, <1>3, <1>4 DEF IInv

\* Where every step of a handler leads.
LEMMA CollectedSound ==
  ASSUME Nodes, messages \subseteq Message, NEW n \in Node, NEW s, NEW gone,
         Collected(n, s, gone), s.prepared.num <= MaxBallot => Sound(s)
  PROVE  Nodes' /\ messages' \subseteq Message
<1>1. Sound(s) /\ s \in NodeState
  BY DEF Collected, Sound
<1> DEFINE of(p) == IF p = n THEN s ELSE node[p]
<1>2. ASSUME NEW p \in Node PROVE [of(p) EXCEPT !.out = {}] \in NodeState /\ Sound([of(p) EXCEPT !.out = {}])
  <2>1. Sound(of(p))
    BY <1>1 DEF Nodes
  <2> HIDE DEF of
  <2> QED
    BY <2>1 DEF Sound, NodeState
<1>3. node' = [p \in Node |-> [of(p) EXCEPT !.out = {}]]
  BY DEF Collected
<1>4. Nodes'
  <2> HIDE DEF of
  <2> QED
    BY <1>2, <1>3 DEF Nodes
<1>5. messages' \subseteq Message
  <2> DEFINE sent == s.out \cup UNION {node[p].out : p \in Node \ {n}}
             rest == messages \ gone
  <2>1. sent \subseteq Message
    <3>1. s.out \subseteq Message /\ \A p \in Node : node[p].out \subseteq Message
      BY <1>1, StateFields DEF Nodes
    <3> QED
      BY <3>1
  <2>2. \E k : \E kept \in kSubset(k, sent \ rest) : messages' = rest \cup kept
    BY DEF Collected
  <2>3. \E kept \in SUBSET (sent \ rest) : messages' = rest \cup kept
    <3> HIDE DEF sent, rest
    <3> QED
      BY <2>2 DEF kSubset
  <2> QED
    BY <2>1, <2>3
<1> QED
  BY <1>4, <1>5

LEMMA DeliverSound ==
  ASSUME IInv, NEW m \in messages, NEW type, NEW s, Deliver(m, type, s),
         m.to \in Running /\ s.prepared.num <= MaxBallot => Sound(s)
  PROVE  IInv'
<1>1. m.to \in Node /\ m.to \in Running
  BY DEF Deliver, Running
<1>2. Nodes' /\ messages' \subseteq Message
  BY <1>1, CollectedSound DEF Deliver, IInv
<1> QED
  BY <1>2 DEF Deliver, IInv, bounds

LEMMA HandleIInv ==
  ASSUME IInv, NEW m \in messages, Handle(m) PROVE IInv'
<1> DEFINE s == node[m.to]
<1>1. m \in Message
  BY DEF IInv
<1>2. ASSUME m.to \in Running PROVE Sound(s) /\ s.state # Inactive
  BY <1>2 DEF IInv, Nodes, Running
<1> HIDE DEF s
<1>3. CASE StatusRequest(m)
  BY <1>1, <1>2, <1>3, DeliverSound, StatusRequestSound DEF StatusRequest, s
<1>4. CASE StatusResponse(m)
  <2>1. PICK u \in AfterStatusResponse(s, m) : Deliver(m, "StatusResp", u)
    BY <1>4 DEF StatusResponse, s
  <2> QED
    BY <1>1, <1>2, <2>1, DeliverSound, StatusResponseSound
<1>5. CASE PrepareRequest(m)
  BY <1>1, <1>2, <1>5, DeliverSound, PrepareRequestSound DEF PrepareRequest, s
<1>6. CASE PrepareResponse(m)
  BY <1>1, <1>2, <1>6, DeliverSound, PrepareResponseSound DEF PrepareResponse, s
<1>7. CASE AcceptRequest(m)
  BY <1>1, <1>2, <1>7, DeliverSound, AcceptRequestSound DEF AcceptRequest, s
<1>8. CASE AcceptResponse(m)
  BY <1>1, <1>2, <1>8, DeliverSound, AcceptResponseSound DEF AcceptResponse, s
<1>9. CASE NotPrepared(m)
  BY <1>1, <1>2, <1>9, DeliverSound, NotAcceptSound DEF NotPrepared, s
<1>10. CASE NotAccepted(m)
  BY <1>1, <1>2, <1>10, DeliverSound, NotAcceptSound DEF NotAccepted, s
<1>11. CASE FetchRequest(m)
  BY <1>1, <1>2, <1>11, DeliverSound, FetchRequestSound DEF FetchRequest, s
<1>12. CASE FetchResponse(m)
  BY <1>1, <1>2, <1>12, DeliverSound, FetchResponseSound DEF FetchResponse, s
<1> QED
  BY <1>3, <1>4, <1>5, <1>6, <1>7, <1>8, <1>9, <1>10, <1>11, <1>12 DEF Handle

\* A timer that is due.
LEMMA TimeOutIInv ==
  ASSUME IInv, NEW n \in Node, NEW s, TimeOut(n, s), s.prepared.num <= MaxBallot => Sound(s)
  PROVE  IInv'
<1>1. Nodes' /\ messages' \subseteq Message
  BY CollectedSound DEF TimeOut, IInv
<1>2. events' \in 0..MaxEvents
  BY RSLAssumption DEF TimeOut, IInv
<1> QED
  BY <1>1, <1>2 DEF TimeOut, IInv

LEMMA TickIInv ==
  ASSUME IInv, NEW n \in Node,
         TickElection(n) \/ TickRetry(n) \/ TickRepeat(n) \/ TickPropose(n)
  PROVE  IInv'
<1>1. Sound(node[n])
  BY DEF IInv, Nodes
<1>2. CASE TickElection(n)
  BY <1>1, <1>2, InitializeSound, TimeOutIInv DEF TickElection
<1>3. CASE TickRetry(n)
  <2>1. CASE TimeOut(n, Initialize(node[n]))
    BY <1>1, <2>1, InitializeSound, TimeOutIInv
  <2>2. CASE node[n].state = Preparing /\ TimeOut(n, Prepare(node[n]))
    <3>1. node[n].state # Inactive
      BY <2>2 DEF Preparing, Inactive
    <3> QED
      BY <1>1, <2>2, <3>1, PrepareSound, TimeOutIInv
  <2> QED
    BY <1>3, <2>1, <2>2 DEF TickRetry
<1>4. CASE TickRepeat(n)
  BY <1>1, <1>4, RepeatSound, TimeOutIInv DEF TickRepeat
<1>5. CASE TickPropose(n)
  <2>1. Nodes' /\ messages' \subseteq Message
    BY <1>1, <1>5, ProposeSound, CollectedSound DEF TickPropose, IInv
  <2> QED
    BY <1>5, <2>1 DEF TickPropose, IInv, bounds
<1> QED
  BY <1>2, <1>3, <1>4, <1>5

LEMMA ReceiveRequestIInv == ASSUME IInv, ReceiveRequest PROVE IInv'
<1>1. PICK n \in Node :
        node' = [node EXCEPT ![n].commandQ = Append(@, Head(requests))]
  BY DEF ReceiveRequest
<1>2. /\ requests \in Seq(Commands \ {0}) /\ requests # <<>>
      /\ Head(requests) \in Commands \ {0} /\ Tail(requests) \in Seq(Commands \ {0})
  BY HeadTailProperties DEF IInv, ReceiveRequest
<1> DEFINE q == Append(node[n].commandQ, Head(requests))
           t == [node[n] EXCEPT !.commandQ = q]
<1>3. node \in [Node -> NodeState] /\ \A p \in Node : Sound(node[p])
  BY DEF IInv, Nodes
<1>4. q \in Seq(Commands \ {0})
  <2>1. node[n].commandQ \in Seq(Commands \ {0})
    BY <1>3, StateFields
  <2> QED
    BY <1>2, <2>1, QueuedRequest
<1>5. node' = [node EXCEPT ![n] = t]
  BY <1>1
<1> HIDE DEF q
<1>6. Sound(t) /\ t \in NodeState
  BY <1>3, <1>4, QueueSound
<1> HIDE DEF t
<1>7. Nodes'
  BY <1>3, <1>5, <1>6 DEF Nodes
<1> QED
  BY <1>2, <1>7 DEF ReceiveRequest, IInv, bounds

LEMMA NextIInv == ASSUME IInv, [Next]_vars PROVE IInv'
<1>1. CASE Reset
  <2>1. Nodes'
    BY <1>1, NewNodeSound DEF Reset, Nodes
  <2>2. requests' \in Seq(Commands \ {0})
    BY <1>1, AllRequests DEF Reset
  <2>3. events' \in 0..MaxEvents /\ disturbed' \in BOOLEAN
    BY <1>1, RSLAssumption DEF Reset, IInv
  <2> QED
    BY <1>1, <2>1, <2>2, <2>3 DEF Reset, IInv
<1>2. CASE TickIdle
  <2>1. PICK n \in Node : Collected(n, node[n], {})
    BY <1>2 DEF TickIdle, Running
  <2>2. Nodes' /\ messages' \subseteq Message
    BY <2>1, CollectedSound DEF IInv, Nodes
  <2> QED
    BY <1>2, <2>2 DEF TickIdle, IInv, bounds
<1>3. CASE ReceiveRequest
  BY <1>3, ReceiveRequestIInv
<1>4. ASSUME NEW m \in messages, Handle(m) PROVE IInv'
  BY <1>4, HandleIInv
<1>5. ASSUME NEW m \in messages, Drop(m) PROVE IInv'
  BY <1>5 DEF Drop, IInv, Nodes, bounds
<1>6. ASSUME NEW n \in Node, Stop(n) PROVE IInv'
  <2>1. Nodes'
    BY <1>6, NewNodeSound DEF Stop, IInv, Nodes
  <2>2. events' \in 0..MaxEvents
    BY <1>6, RSLAssumption DEF Stop, IInv
  <2> QED
    BY <1>6, <2>1, <2>2 DEF Stop, IInv
<1>7. ASSUME NEW n \in Node, Start(n) PROVE IInv'
  <2>1. Nodes'
    BY <1>7, NewNodeSound DEF Start, IInv, Nodes
  <2> QED
    BY <1>7, <2>1 DEF Start, IInv
<1>8. ASSUME NEW n \in Node,
             TickElection(n) \/ TickRetry(n) \/ TickRepeat(n) \/ TickPropose(n)
      PROVE  IInv'
  BY <1>8, TickIInv
<1>9. CASE UNCHANGED vars
  BY <1>9 DEF vars, bounds, IInv, Nodes
<1> QED
  BY <1>1, <1>2, <1>3, <1>4, <1>5, <1>6, <1>7, <1>8, <1>9 DEF Next

-----------------------------------------------------------------------------
(* The theorems *)

THEOREM InvariantIInv == Spec => []IInv
<1>1. Init => IInv
  BY InitIInv
<1>2. IInv /\ [Next]_vars => IInv'
  BY NextIInv
<1> QED
  BY <1>1, <1>2, PTL DEF Spec

\* Every variable has its type, a node caches MaxCachedLength proposals at most
\* and remembers one answer of a node, for any cache, whatever is delivered.
THEOREM TypeCorrect == Spec => []TypeOK
<1>1. IInv => TypeOK
  BY DEF IInv, Nodes, Sound, TypeOK
<1> QED
  BY <1>1, InvariantIInv, PTL

\* The assertion of algo.go:586 and :696 holds of every node, restarted or not,
\* whatever old message reaches it.
THEOREM AssertionNeverFails == Spec => []PreparedCoversAccepted
<1>1. IInv => PreparedCoversAccepted
  BY DEF IInv, Nodes, Sound, PreparedCoversAccepted
<1> QED
  BY <1>1, InvariantIInv, PTL

\* No grace period is ever added to an unset election timer, and a node that
\* has left its initialization has a timer: the handlers that postpone it are
\* reached by such nodes alone.
THEOREM TimersAreSet == Spec => []ElectionTimerSet
<1>1. IInv => ElectionTimerSet
  BY DEF IInv, Nodes, Sound, ElectionTimerSet
<1> QED
  BY <1>1, InvariantIInv, PTL
=============================================================================
