-------------------------- MODULE RSLSafety_proofs --------------------------
(***************************************************************************)
(* What RSL promises while no node has been restarted and no old messages  *)
(* are met, for any number of nodes, commands and ballots: logs have no    *)
(* gap, a ballot has one primary, and what is executed is chosen.          *)
(***************************************************************************)
EXTENDS RSL_proofs

-----------------------------------------------------------------------------
(* What a node is whose log has no gap *)

\* The log begins with decree 0 and what is logged last is accepted.
Gapless(log) ==
  \A i \in 1..Len(log) : IF i = 1 THEN log[1].decree = 0 ELSE Follows(log[i - 1], log[i])

Newest(log) == IF log = <<>> THEN NoProposal ELSE log[Len(log)]

\* A message that node s may send: a proposal of a real ballot, a fetch of no
\* more than it has.
Fine(x, s) ==
  /\ x.type = "AcceptReq" => x.ballot.num >= 1
  /\ x.type = "FetchReq" => x.from = s.id /\ x.decree <= s.accepted.decree
  /\ x.type # "FetchResp"

Orderly(s) ==
  /\ Gapless(s.log) /\ s.accepted = Newest(s.log)
  /\ s.prepared.num = 0 => s.prepared.node = Nobody
  /\ \A x \in s.out : Fine(x, s)

\* The proposal a preparing node will make has the decree it has accepted.
Preparer(s) == s.state = Preparing => s.freshest.decree = s.accepted.decree /\ s.prepared.num >= 1

Grows(s, t) == t.id = s.id /\ t.accepted.decree >= s.accepted.decree

\* From s to t the log stays as it is and only fine messages are added.
Alike(s, t) ==
  /\ t.log = s.log /\ t.accepted = s.accepted /\ t.id = s.id
  /\ t.prepared = s.prepared \/ t.prepared.num >= 1
  /\ \A x \in t.out : x \in s.out \/ Fine(x, s)

LEMMA AlikeOrderly ==
  ASSUME NEW s, Sound(s), Orderly(s), NEW t, Alike(s, t)
  PROVE  Orderly(t) /\ Grows(s, t)
<1>1. s.accepted.decree \in Nat
  BY StateFields, ProposalFields DEF Sound
<1>2. ASSUME NEW x PROVE Fine(x, s) <=> Fine(x, t)
  BY DEF Fine, Alike
<1>3. \A x \in t.out : Fine(x, t)
  BY <1>2 DEF Alike, Orderly
<1>4. t.prepared.num = 0 => t.prepared.node = Nobody
  BY DEF Alike, Orderly
<1> QED
  BY <1>1, <1>3, <1>4 DEF Alike, Orderly, Grows

LEMMA AlikeTransitive ==
  ASSUME NEW s, NEW t, NEW u, Alike(s, t), Alike(t, u) PROVE Alike(s, u)
<1>1. ASSUME NEW x PROVE Fine(x, s) <=> Fine(x, t)
  BY DEF Fine, Alike
<1>2. \A x \in u.out : x \in s.out \/ Fine(x, s)
  BY <1>1 DEF Alike
<1> QED
  BY <1>2 DEF Alike

LEMMA AlikeSend ==
  ASSUME NEW s \in NodeState, NEW x, Fine(x, s) PROVE Alike(s, Send(s, x))
  BY DEF Alike, Send, NodeState

LEMMA AlikeBroadcast ==
  ASSUME NEW s \in NodeState, NEW m, \A n \in Node : Fine([m EXCEPT !.to = n], s)
  PROVE  Alike(s, Broadcast(s, m))
<1> DEFINE sent == {[m EXCEPT !.to = n] : n \in Node \ {s.id}}
           out == s.out \cup sent
<1>1. Broadcast(s, m) = [s EXCEPT !.out = out]
  BY DEF Broadcast
<1>2. \A x \in sent : Fine(x, s)
  OBVIOUS
<1> HIDE DEF sent
<1>3. \A x \in out : x \in s.out \/ Fine(x, s)
  BY <1>2
<1> HIDE DEF out
<1> QED
  BY <1>1, <1>3 DEF Alike, NodeState

\* New messages of the other kinds are fine.
LEMMA FineMessage ==
  ASSUME NEW m, m.type \notin {"AcceptReq", "FetchReq", "FetchResp"}, NEW s PROVE Fine(m, s)
  BY DEF Fine

LEMMA AlikeStabilize ==
  ASSUME NEW s \in NodeState, NEW role
  PROVE  Alike(s, Stabilize(s, role)) /\ Stabilize(s, role).state = role
  BY DEF Alike, Stabilize, NodeState

LEMMA AlikeExecute ==
  ASSUME NEW s \in NodeState, NEW p
  PROVE  /\ Alike(s, Execute(s, p)) /\ Execute(s, p).state = s.state
         /\ Execute(s, p).freshest = s.freshest /\ Execute(s, p).prepared = s.prepared
  BY DEF Alike, Execute, NodeState

LEMMA AlikeInitialize ==
  ASSUME NEW s \in NodeState
  PROVE  Alike(s, Initialize(s)) /\ Initialize(s).state = Initializing
<1> DEFINE t == [s EXCEPT !.state = Initializing, !.remote = {}]
           m == Msg("StatusReq", s, Nobody)
<1>1. t \in NodeState
  BY DEF NodeState
<1>2. Alike(s, t) /\ t.state = Initializing
  BY DEF Alike, NodeState
<1>3. ASSUME NEW n PROVE [m EXCEPT !.to = n].type = "StatusReq"
  BY DEF Msg
<1> HIDE DEF t, m
<1>4. Initialize(s) = Broadcast(t, m)
  BY DEF Initialize, t, m
<1>5. Alike(t, Broadcast(t, m))
  BY <1>1, <1>3, FineMessage, AlikeBroadcast
<1>6. Broadcast(t, m).state = t.state
  BY <1>1, BroadcastKeeps
<1> QED
  BY <1>2, <1>4, <1>5, <1>6, AlikeTransitive

LEMMA AlikeRefuse ==
  ASSUME NEW s \in NodeState, NEW m, NEW type \in {"PrepareResp", "AcceptResp"}
  PROVE  /\ Alike(s, Refuse(s, m, type)) /\ Refuse(s, m, type).state = s.state
         /\ Refuse(s, m, type).freshest = s.freshest /\ Refuse(s, m, type).prepared = s.prepared
<1> DEFINE x == [Msg(type, s, m.from) EXCEPT !.ballot = s.prepared, !.decree = s.accepted.decree]
<1>1. x.type = type
  BY DEF Msg
<1> HIDE DEF x
<1>2. Refuse(s, m, type) = Send(s, x)
  BY DEF Refuse, x
<1>3. Alike(s, Send(s, x))
  BY <1>1, FineMessage, AlikeSend
<1>4. Send(s, x).state = s.state /\ Send(s, x).freshest = s.freshest /\ Send(s, x).prepared = s.prepared
  BY DEF Send, NodeState
<1> QED
  BY <1>2, <1>3, <1>4

LEMMA AlikeLearnVotes ==
  ASSUME NEW s, Sound(s), NEW n
  PROVE  /\ Alike(s, LearnVotes(s, n)) /\ LearnVotes(s, n).state = s.state
         /\ LearnVotes(s, n).freshest = s.freshest /\ LearnVotes(s, n).prepared = s.prepared
<1> DEFINE x == [Msg("FetchReq", s, n) EXCEPT !.ballot = s.accepted.ballot,
                                              !.decree = s.accepted.decree]
           t == Send(s, x)
<1>0. s \in NodeState /\ s.accepted.decree \in Nat
  BY StateFields, ProposalFields DEF Sound
<1>1. Fine(x, s)
  BY <1>0 DEF Msg, Fine
<1> HIDE DEF x
<1>2. LearnVotes(s, n) = [t EXCEPT !.learningFrom = n]
  BY DEF LearnVotes, x
<1>3. Alike(s, t)
  BY <1>0, <1>1, AlikeSend
<1>4. LearnVotes(s, n) = [s EXCEPT !.out = s.out \cup {x}, !.learningFrom = n]
  BY <1>0, <1>2 DEF Send, NodeState
<1>5. t = [s EXCEPT !.out = s.out \cup {x}]
  BY DEF Send
<1> QED
  BY <1>0, <1>3, <1>4, <1>5 DEF Alike, NodeState

LEMMA AlikeHeard ==
  ASSUME NEW s \in NodeState, NEW m, NEW b PROVE Alike(s, Heard(s, m, b))
  BY DEF Alike, Heard, NodeState

LEMMA AlikePostponed ==
  ASSUME NEW s, Sound(s), s.election = Finite, NEW b \in Ballots, b.num > s.prepared.num
  PROVE  /\ Alike(s, Postponed([s EXCEPT !.prepared = b]))
         /\ Postponed([s EXCEPT !.prepared = b]).prepared = b
<1> DEFINE u == [s EXCEPT !.prepared = b, !.election = Finite]
<1>1. b.num \in Nat /\ s.prepared.num \in Nat
  BY StateFields, BallotFields DEF Sound
<1>2. Postponed([s EXCEPT !.prepared = b]) = u
  BY DEF Postponed, Sound, NodeState, Unset, Finite
<1>3. /\ u.log = s.log /\ u.accepted = s.accepted /\ u.id = s.id /\ u.prepared = b /\ u.out = s.out
  BY DEF Sound, NodeState
<1> HIDE DEF u
<1> QED
  BY <1>1, <1>2, <1>3 DEF Alike

LEMMA AlikePrepare ==
  ASSUME NEW s, Sound(s), s.state \in {Initializing, Preparing}, Preparer(s)
  PROVE  Alike(s, Prepare(s)) /\ Preparer(Prepare(s))
<1> DEFINE b == IF s.state = Initializing
                THEN [num |-> s.prepared.num + 1, node |-> s.id] ELSE s.prepared
           e == IF s.state = Initializing THEN Finite ELSE s.election
           m == [Msg("PrepareReq", s, Nobody) EXCEPT !.ballot = b, !.decree = s.accepted.decree]
           sent == {[m EXCEPT !.to = n] : n \in Node \ {s.id}}
           out == s.out \cup sent
           t == [s EXCEPT !.state = Preparing, !.prepared = b, !.remote = {},
                          !.freshest = s.accepted, !.election = e, !.out = out]
<1>0. s \in NodeState /\ s.prepared.num \in Nat
  BY StateFields, BallotFields DEF Sound
<1>1. b.num >= 1 /\ (b = s.prepared \/ b.num >= 1)
  BY <1>0 DEF Preparer
<1>2. \A n : [m EXCEPT !.to = n].type = "PrepareReq"
  BY DEF Msg
<1> HIDE DEF b, e
<1>3. Prepare(s) = t
  BY <1>0 DEF Prepare, Broadcast, NodeState, b, e
<1> HIDE DEF m
<1>4. \A x \in out : x \in s.out \/ Fine(x, s)
  BY <1>2, FineMessage
<1> HIDE DEF out
<1>5. /\ t.log = s.log /\ t.accepted = s.accepted /\ t.id = s.id /\ t.prepared = b /\ t.out = out
      /\ t.freshest = s.accepted
  BY <1>0 DEF NodeState
<1> HIDE DEF t
<1> QED
  BY <1>1, <1>3, <1>4, <1>5 DEF Alike, Preparer

LEMMA AlikeRequest ==
  ASSUME NEW s \in NodeState, NEW r, NEW p, p.ballot.num >= 1
  PROVE  Alike(s, Broadcast(s, Request(r, p)))
<1>1. ASSUME NEW n
      PROVE  /\ [Request(r, p) EXCEPT !.to = n].type = "AcceptReq"
             /\ [Request(r, p) EXCEPT !.to = n].ballot = p.ballot
  BY DEF Request, Msg
<1>2. \A n \in Node : Fine([Request(r, p) EXCEPT !.to = n], s)
  BY <1>1 DEF Fine
<1> QED
  BY <1>2, AlikeBroadcast

\* What may be logged next.
Extending(s, p) == IF s.log = <<>> THEN p.decree = 0 ELSE Follows(s.accepted, p)

LEMMA GaplessAppend ==
  ASSUME NEW log \in Seq(Proposals), Gapless(log), NEW p \in Proposals,
         IF log = <<>> THEN p.decree = 0 ELSE Follows(Newest(log), p)
  PROVE  Gapless(Append(log, p)) /\ Newest(Append(log, p)) = p
<1> DEFINE new == Append(log, p)
<1>1. /\ new \in Seq(Proposals) /\ Len(new) = Len(log) + 1 /\ Len(log) \in Nat
      /\ new[Len(log) + 1] = p /\ \A i \in 1..Len(log) : new[i] = log[i]
      /\ (log = <<>> <=> Len(log) = 0)
  BY AppendProperties, LenProperties, EmptySeq
<1> HIDE DEF new
<1>2. new # <<>> /\ Newest(new) = p
  BY <1>1, EmptySeq DEF Newest
<1>3. ASSUME NEW i \in 1..Len(new)
      PROVE IF i = 1 THEN new[1].decree = 0 ELSE Follows(new[i - 1], new[i])
  <2>1. CASE i = Len(log) + 1 /\ Len(log) = 0
    BY <1>1, <2>1
  <2>2. CASE i = Len(log) + 1 /\ Len(log) # 0
    <3>1. i # 1 /\ new[i] = p /\ new[i - 1] = log[Len(log)] /\ Newest(log) = log[Len(log)]
      BY <1>1, <2>2 DEF Newest
    <3> QED
      BY <1>1, <2>2, <3>1
  <2>3. CASE i \in 1..Len(log)
    <3>1. IF i = 1 THEN log[1].decree = 0 ELSE Follows(log[i - 1], log[i])
      BY <2>3 DEF Gapless
    <3>2. new[i] = log[i] /\ (i # 1 => new[i - 1] = log[i - 1])
      BY <1>1, <2>3
    <3> QED
      BY <3>1, <3>2
  <2> QED
    BY <1>1, <2>1, <2>2, <2>3
<1> QED
  BY <1>2, <1>3 DEF Gapless, new

LEMMA LogProposalOrderly ==
  ASSUME NEW s, Sound(s), s.election = Finite, Orderly(s), NEW p \in Proposals, Extending(s, p)
  PROVE  /\ Orderly(LogProposal(s, p)) /\ Grows(s, LogProposal(s, p))
         /\ LogProposal(s, p).accepted = p
<1> DEFINE log == Append(s.log, p)
           t == [s EXCEPT !.log = log, !.accepted = p]
           v == [s EXCEPT !.log = log, !.accepted = p, !.prepared = p.ballot, !.election = Finite]
           u == LogProposal(s, p)
<1>0. /\ s \in NodeState /\ s.log \in Seq(Proposals) /\ s.accepted.decree \in Nat
      /\ p.ballot \in Ballots /\ p.decree \in Nat /\ p.ballot.num \in Nat /\ s.prepared.num \in Nat
  BY StateFields, ProposalFields, BallotFields DEF Sound
<1>1. Gapless(log) /\ Newest(log) = p
  BY <1>0, GaplessAppend DEF Orderly, Extending
<1>2. u = IF p.ballot.num > s.prepared.num THEN v ELSE t
  BY <1>0 DEF LogProposal, Postponed, Unset, Finite, NodeState
<1> HIDE DEF log
<1>3. /\ u.log = log /\ u.accepted = p /\ u.id = s.id /\ u.out = s.out
      /\ u.prepared = s.prepared \/ u.prepared.num > s.prepared.num
  <2>1. /\ v.log = log /\ v.accepted = p /\ v.id = s.id /\ v.out = s.out /\ v.prepared = p.ballot
    BY <1>0 DEF NodeState
  <2>2. /\ t.log = log /\ t.accepted = p /\ t.id = s.id /\ t.out = s.out /\ t.prepared = s.prepared
    BY <1>0 DEF NodeState
  <2> HIDE DEF t, u, v
  <2> QED
    BY <1>2, <2>1, <2>2
<1> HIDE DEF u
<1>4. p.decree >= s.accepted.decree
  <2>1. CASE s.log = <<>>
    <3>1. s.accepted.decree = 0
      BY <2>1 DEF Orderly, Newest, NoProposal, Proposal
    <3> QED
      BY <1>0, <3>1
  <2>2. CASE s.log # <<>>
    BY <1>0, <2>2 DEF Extending, Follows
  <2> QED
    BY <2>1, <2>2
<1>5. \A x \in u.out : Fine(x, u)
  <2>1. ASSUME NEW x \in s.out PROVE Fine(x, u)
    <3>1. Fine(x, s) /\ x \in Message
      BY <1>0, StateFields DEF Orderly
    <3>2. x.decree \in Nat
      BY <3>1, MessageFields
    <3> QED
      BY <1>0, <1>3, <1>4, <3>1, <3>2 DEF Fine
  <2> QED
    BY <1>3, <2>1
<1>6. u.prepared.num = 0 => u.prepared.node = Nobody
  BY <1>0, <1>3 DEF Orderly
<1> QED
  BY <1>1, <1>3, <1>4, <1>5, <1>6 DEF Orderly, Grows, u

-----------------------------------------------------------------------------
(* The handlers *)

\* What every handler makes of a node.
Well(s, t) == Orderly(t) /\ Preparer(t) /\ Grows(s, t)

LEMMA WellUnchanged ==
  ASSUME NEW s, Sound(s), Orderly(s), Preparer(s) PROVE Well(s, s)
  BY StateFields, ProposalFields DEF Well, Grows, Sound

\* A step that logs nothing and prepares nothing.
LEMMA AlikeWell ==
  ASSUME NEW s, Sound(s), Orderly(s), NEW t, Alike(s, t), Preparer(t) PROVE Well(s, t)
  BY AlikeOrderly DEF Well

LEMMA SamePreparer ==
  ASSUME NEW s, Preparer(s), NEW t, Alike(s, t), t.state = s.state, t.freshest = s.freshest,
         t.prepared = s.prepared
  PROVE  Preparer(t)
  BY DEF Preparer, Alike

LEMMA NotPreparing ==
  ASSUME NEW t, t.state # Preparing PROVE Preparer(t)
  BY DEF Preparer

LEMMA WellInitialize ==
  ASSUME NEW s, Sound(s), Orderly(s), NEW t, Sound(t), Alike(s, t) PROVE Well(s, Initialize(t))
<1>1. Alike(t, Initialize(t)) /\ Initialize(t).state # Preparing
  BY AlikeInitialize DEF Sound, Initializing, Preparing
<1>2. Alike(s, Initialize(t))
  BY <1>1, AlikeTransitive
<1> QED
  BY <1>1, <1>2, NotPreparing, AlikeWell

LEMMA WellStabilize ==
  ASSUME NEW s, NEW t, t \in NodeState, Sound(t), Orderly(t), Grows(s, t),
         NEW role \in {StablePrimary, StableSecondary}
  PROVE  Well(s, Stabilize(t, role))
<1>1. Alike(t, Stabilize(t, role)) /\ Stabilize(t, role).state # Preparing
  BY AlikeStabilize DEF StablePrimary, StableSecondary, Preparing
<1>2. Well(t, Stabilize(t, role))
  BY <1>1, NotPreparing, AlikeWell
<1>3. Stabilize(t, role).id = t.id /\ Stabilize(t, role).accepted = t.accepted
  BY <1>1 DEF Alike
<1> QED
  BY <1>2, <1>3 DEF Well, Grows

LEMMA WellRefuse ==
  ASSUME NEW s, Sound(s), Orderly(s), Preparer(s), NEW m, NEW type \in {"PrepareResp", "AcceptResp"}
  PROVE  Well(s, Refuse(s, m, type))
<1>1. s \in NodeState
  BY DEF Sound
<1>2. Alike(s, Refuse(s, m, type)) /\ Preparer(Refuse(s, m, type))
  BY <1>1, AlikeRefuse, SamePreparer
<1> QED
  BY <1>2, AlikeWell

LEMMA StatusRequestWell ==
  ASSUME NEW s, Sound(s), Orderly(s), Preparer(s), NEW m PROVE Well(s, AfterStatusRequest(s, m))
<1> DEFINE x == [Msg("StatusResp", s, m.from) EXCEPT !.ballot = s.accepted.ballot,
                                                     !.decree = s.accepted.decree]
<1>1. x.type = "StatusResp"
  BY DEF Msg
<1>2. AfterStatusRequest(s, m) = Send(s, x)
  BY DEF AfterStatusRequest
<1> HIDE DEF x
<1>3. Alike(s, Send(s, x))
  BY <1>1, FineMessage, AlikeSend DEF Sound
<1>4. Send(s, x).state = s.state /\ Send(s, x).freshest = s.freshest /\ Send(s, x).prepared = s.prepared
  BY DEF Send, Sound, NodeState
<1> QED
  BY <1>2, <1>3, <1>4, SamePreparer, AlikeWell

LEMMA HeardPreparer ==
  ASSUME NEW s \in NodeState, Preparer(s), NEW m, NEW b PROVE Preparer(Heard(s, m, b))
  BY AlikeHeard, HeardKeeps, SamePreparer

LEMMA LearnVotesWell ==
  ASSUME NEW s, Sound(s), Orderly(s), NEW t, Sound(t), Alike(s, t), Preparer(t), NEW n
  PROVE  Well(s, LearnVotes(t, n))
<1>1. Alike(t, LearnVotes(t, n)) /\ Preparer(LearnVotes(t, n))
  BY AlikeLearnVotes, SamePreparer
<1>2. Alike(s, LearnVotes(t, n))
  BY <1>1, AlikeTransitive
<1> QED
  BY <1>1, <1>2, AlikeWell

LEMMA ElectOrFollowWell ==
  ASSUME NEW s, Sound(s), Orderly(s), NEW t, Sound(t), Alike(s, t), Preparer(t),
         t.state = Initializing, NEW u \in ElectOrFollow(t)
  PROVE  Well(s, u)
<1> DEFINE e == IF t.election = Unset THEN Finite ELSE t.election
           v == [t EXCEPT !.election = e]
<1>1. e = Finite
  BY StateFields DEF Sound
<1> HIDE DEF e
<1>2. Sound(v) /\ v.state = Initializing
  BY <1>1 DEF Sound, NodeState, Finite, Overflowed
<1>3. Alike(t, v)
  BY DEF Alike, Sound, NodeState
<1>4. u = Prepare(v) \/ u = Stabilize(v, StableSecondary)
  BY DEF ElectOrFollow, e
<1> HIDE DEF v
<1>5. Alike(s, v) /\ Preparer(v)
  BY <1>2, <1>3, AlikeTransitive, NotPreparing DEF Initializing, Preparing
<1>6. CASE u = Prepare(v)
  <2>1. Alike(v, u) /\ Preparer(u)
    BY <1>2, <1>5, <1>6, AlikePrepare
  <2> QED
    BY <1>5, <2>1, AlikeTransitive, AlikeWell
<1>7. CASE u = Stabilize(v, StableSecondary)
  BY <1>2, <1>5, <1>7, AlikeOrderly, WellStabilize DEF Sound
<1> QED
  BY <1>4, <1>6, <1>7

LEMMA StatusResponseWell ==
  ASSUME NEW s, Sound(s), Orderly(s), Preparer(s), NEW m \in Message,
         NEW u \in AfterStatusResponse(s, m)
  PROVE  Well(s, u)
<1> DEFINE t == Heard(s, m, m.ballot)
<1>1. Sound(t) /\ t.state = s.state /\ Alike(s, t) /\ Preparer(t)
  BY MessageFields, HeardSound, HeardKeeps, AlikeHeard, HeardPreparer DEF Sound
<1>2. \/ u \in {s, t} \/ u = LearnVotes(s, m.from)
      \/ \E r \in t.remote : u = LearnVotes(t, r.node)
      \/ (s.state = Initializing /\ u \in ElectOrFollow(t))
  BY DEF AfterStatusResponse, Ahead, Newer
<1> HIDE DEF t
<1>3. CASE u = LearnVotes(s, m.from)
  <2>1. Alike(s, s)
    BY DEF Alike
  <2> QED
    BY <1>3, <2>1, LearnVotesWell
<1>4. CASE \E r \in t.remote : u = LearnVotes(t, r.node)
  BY <1>1, <1>4, LearnVotesWell
<1>5. CASE s.state = Initializing /\ u \in ElectOrFollow(t)
  BY <1>1, <1>5, ElectOrFollowWell
<1> QED
  BY <1>1, <1>2, <1>3, <1>4, <1>5, WellUnchanged, AlikeWell

LEMMA PrepareRequestWell ==
  ASSUME NEW s, Sound(s), Orderly(s), Preparer(s), s.state # Inactive, NEW m \in Message
  PROVE  Well(s, AfterPrepareRequest(s, m))
<1> DEFINE x == [Msg("PrepareResp", s, m.from) EXCEPT
                   !.accept = TRUE, !.ballot = m.ballot,
                   !.proposalBallot = s.accepted.ballot,
                   !.decree = s.accepted.decree, !.command = s.accepted.command]
           u == Postponed([s EXCEPT !.prepared = m.ballot])
           t == IF Promises(s, m) THEN Send(u, x) ELSE s
<1>1. x.type = "PrepareResp" /\ x \in Message
  <2>1. Msg("PrepareResp", s, m.from) \in Message
    BY MessageFields, NewMessageTo
  <2>2. /\ s.accepted.ballot \in Ballots /\ s.accepted.decree \in Nat
        /\ s.accepted.command \in Commands /\ m.ballot \in Ballots
    BY StateFields, ProposalFields, MessageFields DEF Sound
  <2> QED
    BY <2>1, <2>2 DEF Message, Msg
<1> HIDE DEF x
<1>2. AfterPrepareRequest(s, m) \in
        {Refuse(s, m, "PrepareResp"), s} \union
        (IF s.state = Initializing THEN {} ELSE {Initialize(t), Stabilize(t, StableSecondary)})
  BY DEF AfterPrepareRequest, x
<1>3. ASSUME s.state # Initializing PROVE Sound(t) /\ Alike(s, t)
  <2>1. s.election = Finite
    BY <1>3 DEF Sound
  <2>2. CASE Promises(s, m)
    <3>1. Sound(u) /\ Alike(s, u)
      BY <2>1, <2>2, MessageFields, PostponedSound, AlikePostponed DEF Promises
    <3> HIDE DEF u
    <3>2. Sound(Send(u, x)) /\ Alike(u, Send(u, x))
      BY <1>1, <3>1, SendSound, FineMessage, AlikeSend DEF Sound
    <3> QED
      BY <2>2, <3>1, <3>2, AlikeTransitive
  <2>3. CASE ~Promises(s, m)
    BY <2>3 DEF Alike
  <2> QED
    BY <2>2, <2>3
<1> HIDE DEF t
<1>4. s.state # Initializing => Well(s, Initialize(t)) /\ Well(s, Stabilize(t, StableSecondary))
  BY <1>3, AlikeOrderly, WellInitialize, WellStabilize DEF Sound
<1> QED
  BY <1>2, <1>4, WellRefuse, WellUnchanged

LEMMA PrepareResponseWell ==
  ASSUME NEW s, Sound(s), Orderly(s), Preparer(s), NEW m \in Message
  PROVE  Well(s, AfterPrepareResponse(s, m))
<1> DEFINE f == Freshest(s, m)
           r == [s EXCEPT !.freshest = f]
           t == Heard(r, m, m.proposalBallot)
           p == [t.freshest EXCEPT !.ballot = s.prepared]
           q == [t EXCEPT !.freshest = p]
           b == Broadcast(q, Request(s, p))
           u == LogProposal(b, p)
           v == [u EXCEPT !.ready = FALSE]
<1>0. s \in NodeState
  BY DEF Sound
<1>1. CASE s.state # Preparing
  BY <1>1, WellUnchanged DEF AfterPrepareResponse
<1>2. CASE s.state = Preparing
  <2>1. s.election = Finite /\ s.freshest.decree = s.accepted.decree /\ s.prepared.num >= 1
    BY <1>2 DEF Sound, Preparer, Preparing, Initializing, Inactive
  <2>2. f \in Proposals /\ f.decree = s.accepted.decree
    <3>1. Proposal(m.proposalBallot, m.decree, m.command) \in Proposals
      BY MessageFields DEF Proposal, Proposals
    <3>2. s.freshest \in Proposals
      BY StateFields DEF Sound
    <3>3. \/ f = s.freshest
          \/ (f = Proposal(m.proposalBallot, m.decree, m.command) /\ m.decree = s.freshest.decree)
      BY DEF Freshest
    <3> HIDE DEF f
    <3> QED
      BY <2>1, <3>1, <3>2, <3>3 DEF Proposal
  <2>3. AfterPrepareResponse(s, m) \in {s, t, Stabilize(v, StablePrimary)}
    BY DEF AfterPrepareResponse
  <2> HIDE DEF f
  <2>4. /\ r \in NodeState /\ Sound(r) /\ Alike(s, r) /\ r.election = Finite /\ r.freshest = f
        /\ r.state = Preparing /\ r.accepted = s.accepted /\ r.prepared = s.prepared
    <3>1. Sound(r)
      BY <2>2 DEF Sound, NodeState
    <3> QED
      BY <1>2, <2>1, <2>2, <3>1 DEF Alike, Sound, NodeState
  <2> HIDE DEF r
  <2>5. /\ t \in NodeState /\ Sound(t) /\ Alike(s, t) /\ t.election = Finite /\ t.freshest = f
        /\ t.state = Preparing /\ t.accepted = s.accepted /\ t.prepared = s.prepared
    <3>1. Sound(t)
      BY <2>4, MessageFields, HeardSound
    <3>2. Alike(r, t)
      BY <2>4, AlikeHeard
    <3> QED
      BY <2>4, <3>1, <3>2, AlikeTransitive, HeardKeeps DEF Sound
  <2> HIDE DEF t
  <2>6. Preparer(t)
    BY <2>1, <2>2, <2>5 DEF Preparer
  <2>7. p \in Proposals /\ p.ballot = s.prepared /\ p.decree = s.accepted.decree
    BY <1>0, <2>2, <2>5, StateFields DEF Proposals
  <2> HIDE DEF p
  <2>8. /\ q \in NodeState /\ Sound(q) /\ Alike(s, q) /\ q.election = Finite
    <3>1. q \in NodeState /\ Sound(q) /\ Alike(t, q) /\ q.election = Finite
      BY <2>5, <2>7 DEF Alike, Sound, NodeState
    <3> QED
      BY <2>5, <3>1, AlikeTransitive
  <2> HIDE DEF q
  <2>9. Sound(b) /\ Alike(s, b) /\ b.election = Finite
    <3>1. Sound(b)
      BY <2>7, <2>8, RequestSound
    <3>2. Alike(q, b)
      BY <2>1, <2>7, <2>8, AlikeRequest
    <3> QED
      BY <2>8, <3>1, <3>2, AlikeTransitive, BroadcastKeeps
  <2> HIDE DEF b
  <2>10. Orderly(b) /\ Grows(s, b)
    BY <2>9, AlikeOrderly
  <2>11. Extending(b, p)
    <3>1. b.log = s.log /\ b.accepted = s.accepted
      BY <2>9 DEF Alike
    <3>2. CASE s.log = <<>>
      <4>1. s.accepted.decree = 0
        BY <3>2 DEF Orderly, Newest, NoProposal, Proposal
      <4> QED
        BY <2>7, <3>1, <3>2, <4>1 DEF Extending
    <3>3. CASE s.log # <<>>
      <4>1. s.prepared.num >= s.accepted.ballot.num
        BY <1>0, StateFields, ProposalFields, BallotFields DEF Sound
      <4> QED
        BY <2>7, <3>1, <3>3, <4>1 DEF Extending, Follows
    <3> QED
      BY <3>2, <3>3
  <2>12. Sound(u) /\ u.election = Finite /\ Orderly(u) /\ Grows(b, u)
    BY <2>7, <2>9, <2>10, <2>11, LogProposalSound, LogProposalOrderly
  <2> HIDE DEF u
  <2>13. Sound(v) /\ Orderly(v) /\ Grows(s, v) /\ v \in NodeState
    <3>1. Sound(v) /\ Alike(u, v) /\ v \in NodeState
      BY <2>12 DEF Alike, Sound, NodeState
    <3>2. Orderly(v) /\ Grows(u, v)
      BY <2>12, <3>1, AlikeOrderly
    <3>3. /\ s.accepted.decree \in Nat /\ b.accepted.decree \in Nat
          /\ u.accepted.decree \in Nat /\ v.accepted.decree \in Nat
      BY <2>9, <2>12, <3>1, StateFields, ProposalFields DEF Sound
    <3>4. Grows(s, v)
      BY <2>10, <2>12, <3>2, <3>3 DEF Grows
    <3> QED
      BY <3>1, <3>2, <3>4
  <2> HIDE DEF v
  <2>14. Well(s, Stabilize(v, StablePrimary))
    BY <2>13, WellStabilize
  <2> QED
    BY <2>3, <2>5, <2>6, <2>14, AlikeWell, WellUnchanged
<1> QED
  BY <1>1, <1>2

LEMMA AcceptWell ==
  ASSUME NEW s, Sound(s), Orderly(s), s.election = Finite, NEW m \in Message,
         m.ballot.num >= 1, Extends(s, m)
  PROVE  Well(s, Accept(s, m))
<1> DEFINE e == Execute(s, s.accepted)
           f == [e EXCEPT !.election = Finite]
           t == IF m.decree = s.accepted.decree + 1 THEN f ELSE s
           p == Proposal(m.ballot, m.decree, m.command)
           u == LogProposal(t, p)
           x == [Msg("AcceptResp", s, m.from) EXCEPT
                   !.accept = TRUE, !.ballot = m.ballot, !.decree = m.decree]
           v == Send(u, x)
<1>1. p \in Proposals /\ p.ballot = m.ballot /\ p.decree = m.decree
  BY MessageFields DEF Proposal, Proposals
<1>2. x \in Message /\ x.type = "AcceptResp"
  <2>1. x \in Message
    BY MessageFields, NewMessageTo, SetMessage
  <2> QED
    BY <2>1 DEF Msg
<1>3. Accept(s, m) = Stabilize(v, StableSecondary)
  BY DEF Accept
<1> HIDE DEF p, x
<1>4. Sound(e) /\ Alike(s, e)
  BY StateFields, ExecuteSound, AlikeExecute DEF Sound
<1> HIDE DEF e
<1>5. Sound(f) /\ f.election = Finite /\ Alike(s, f)
  <2>1. Sound(f) /\ f.election = Finite /\ Alike(e, f)
    BY <1>4 DEF Alike, Sound, NodeState, Finite, Overflowed
  <2> QED
    BY <1>4, <2>1, AlikeTransitive
<1> HIDE DEF f
<1>6. Sound(t) /\ t.election = Finite /\ Alike(s, t)
  <2>1. Alike(s, s)
    BY DEF Alike
  <2> QED
    BY <1>5, <2>1
<1> HIDE DEF t
<1>7. Orderly(t) /\ Grows(s, t)
  BY <1>6, AlikeOrderly
<1>8. Extending(t, p)
  <2>1. t.log = s.log /\ t.accepted = s.accepted
    BY <1>6 DEF Alike
  <2>2. CASE s.log = <<>>
    <3>1. s.accepted.decree = 0 /\ s.accepted.ballot.num = 0
      BY <2>2 DEF Orderly, Newest, NoProposal, Proposal, NoBallot
    <3> QED
      BY <1>1, <2>1, <2>2, <3>1, MessageFields, BallotFields DEF Extending, Extends
  <2>3. CASE s.log # <<>>
    BY <1>1, <2>1, <2>3 DEF Extending, Extends, Follows
  <2> QED
    BY <2>2, <2>3
<1>9. Sound(u) /\ u.election = Finite /\ Orderly(u) /\ Grows(t, u)
  BY <1>1, <1>6, <1>7, <1>8, LogProposalSound, LogProposalOrderly
<1> HIDE DEF u
<1>10. Sound(v) /\ Alike(u, v)
  BY <1>2, <1>9, SendSound, FineMessage, AlikeSend DEF Sound
<1> HIDE DEF v
<1>11. Orderly(v) /\ Grows(u, v)
  BY <1>9, <1>10, AlikeOrderly
<1>12. Grows(s, v) /\ v \in NodeState
  <2>1. /\ s.accepted.decree \in Nat /\ t.accepted.decree \in Nat
        /\ u.accepted.decree \in Nat /\ v.accepted.decree \in Nat
    BY <1>6, <1>9, <1>10, StateFields, ProposalFields DEF Sound
  <2> QED
    BY <1>7, <1>9, <1>10, <1>11, <2>1 DEF Grows, Sound
<1> QED
  BY <1>3, <1>10, <1>11, <1>12, WellStabilize

LEMMA CacheWell ==
  ASSUME NEW s, Sound(s), Orderly(s), Preparer(s), NEW m PROVE Well(s, Cache(s, m))
<1>1. PICK one, kept : Cache(s, m) \in {[s EXCEPT !.proposalQ = one], Refuse(s, m, "AcceptResp"), s,
                                        [s EXCEPT !.proposalQ = kept]}
  BY DEF Cache
<1>2. ASSUME NEW q PROVE Well(s, [s EXCEPT !.proposalQ = q])
  <2> DEFINE t == [s EXCEPT !.proposalQ = q]
  <2>1. Alike(s, t) /\ t.state = s.state /\ t.freshest = s.freshest /\ t.prepared = s.prepared
    BY DEF Alike, Sound, NodeState
  <2> HIDE DEF t
  <2>2. Well(s, t)
    BY <2>1, SamePreparer, AlikeWell
  <2> QED
    BY <2>2 DEF t
<1> QED
  BY <1>1, <1>2, WellRefuse, WellUnchanged

LEMMA AcceptRequestWell ==
  ASSUME NEW s, Sound(s), Orderly(s), Preparer(s), s.state # Inactive, NEW m \in Message,
         m.ballot.num >= 1
  PROVE  Well(s, AfterAcceptRequest(s, m))
<1>1. CASE s.state = Initializing
  <2>1. AfterAcceptRequest(s, m) \in {s, Cache(s, m)}
    BY <1>1 DEF AfterAcceptRequest
  <2> QED
    BY <2>1, CacheWell, WellUnchanged
<1>2. CASE s.state # Initializing
  <2>1. s.election = Finite
    BY <1>2 DEF Sound
  <2>2. \/ AfterAcceptRequest(s, m) \in {s, Refuse(s, m, "AcceptResp"), Initialize(s)}
        \/ (Extends(s, m) /\ AfterAcceptRequest(s, m) = Accept(s, m))
    BY <1>2 DEF AfterAcceptRequest
  <2>3. Alike(s, s)
    BY DEF Alike
  <2> QED
    BY <2>1, <2>2, <2>3, WellRefuse, AcceptWell, WellInitialize, WellUnchanged
<1> QED
  BY <1>1, <1>2

LEMMA NotAcceptWell ==
  ASSUME NEW s, Sound(s), Orderly(s), Preparer(s), s.state # Inactive, NEW m \in Message
  PROVE  Well(s, AfterNotAccept(s, m))
<1> DEFINE t == Postponed([s EXCEPT !.prepared = m.ballot])
<1>0. Alike(s, s)
  BY DEF Alike
<1>1. CASE s.state = Initializing
  BY <1>1, WellUnchanged DEF AfterNotAccept
<1>2. CASE s.state # Initializing /\ m.ballot.num > s.prepared.num
  <2>1. s.election = Finite
    BY <1>2 DEF Sound
  <2>2. Sound(t) /\ Alike(s, t)
    BY <1>2, <2>1, MessageFields, PostponedSound, AlikePostponed
  <2>3. AfterNotAccept(s, m) \in {s, Initialize(s), Stabilize(t, StableSecondary)}
    BY DEF AfterNotAccept
  <2> HIDE DEF t
  <2> QED
    BY <1>0, <2>2, <2>3, AlikeOrderly, WellInitialize, WellStabilize, WellUnchanged DEF Sound
<1>3. CASE s.state # Initializing /\ ~(m.ballot.num > s.prepared.num)
  <2>1. AfterNotAccept(s, m) \in {s, Initialize(s)}
    BY <1>3 DEF AfterNotAccept
  <2> QED
    BY <1>0, <2>1, WellInitialize, WellUnchanged
<1> QED
  BY <1>1, <1>2, <1>3

LEMMA AcceptResponseWell ==
  ASSUME NEW s, Sound(s), Orderly(s), Preparer(s), NEW m \in Message
  PROVE  Well(s, AfterAcceptResponse(s, m))
<1> DEFINE t == Heard(s, m, m.ballot)
           e == Execute(t, s.accepted)
           u == [e EXCEPT !.ready = TRUE]
<1>1. Sound(t) /\ Alike(s, t) /\ Preparer(t)
  BY MessageFields, HeardSound, AlikeHeard, HeardPreparer DEF Sound
<1>2. AfterAcceptResponse(s, m) \in {s, t, u}
  BY DEF AfterAcceptResponse
<1> HIDE DEF t
<1>3. Sound(e) /\ Alike(s, e) /\ Preparer(e)
  <2>1. Alike(t, e) /\ e.state = t.state /\ e.freshest = t.freshest /\ e.prepared = t.prepared
    BY <1>1, AlikeExecute DEF Sound
  <2> QED
    BY <1>1, <2>1, StateFields, ExecuteSound, AlikeTransitive, SamePreparer DEF Sound
<1> HIDE DEF e
<1>4. Alike(s, u) /\ Preparer(u)
  <2>1. Alike(e, u) /\ u.state = e.state /\ u.freshest = e.freshest /\ u.prepared = e.prepared
    BY <1>3 DEF Alike, Sound, NodeState
  <2> QED
    BY <1>3, <2>1, AlikeTransitive, SamePreparer
<1> QED
  BY <1>1, <1>2, <1>4, AlikeWell, WellUnchanged

LEMMA AppendKeepsFirst ==
  ASSUME NEW g \in Seq(Proposals), g # <<>>, NEW p \in Proposals
  PROVE  Append(g, p) # <<>> /\ Append(g, p)[1] = g[1]
<1>1. Len(g) \in Nat /\ Len(g) # 0
  BY EmptySeq, LenProperties
<1>2. Len(Append(g, p)) = Len(g) + 1 /\ \A i \in 1..Len(g) : Append(g, p)[i] = g[i]
  BY AppendProperties
<1> QED
  BY <1>1, <1>2, EmptySeq

\* The answer to a fetch request begins no later than where it was asked to.
LEMMA FetchRequestTold ==
  ASSUME NEW s, Sound(s), Orderly(s), NEW m \in Message
  PROVE  \E x : /\ AfterFetchRequest(s, m) = Send(s, x)
                /\ x.type = "FetchResp" /\ x.to = m.from
                /\ x.proposals = <<>> \/ x.proposals[1].decree <= m.decree
<1> DEFINE n == Len(s.log)
           First(ps) == ps # <<>> /\ ps[1].decree <= m.decree
           x(ps) == [Msg("FetchResp", s, m.from) EXCEPT !.proposals = ps]
<1>1. PICK f : Answers(s, m, f) /\ AfterFetchRequest(s, m) = Send(s, x(f[n]))
  BY FetchAnswers
<1>2. /\ n \in Nat /\ m.decree \in Nat /\ s.log \in Seq(Proposals)
      /\ \A k \in 1..n : s.log[k] \in Proposals /\ s.log[k].decree \in Nat
  <2>1. n \in Nat /\ s.log \in Seq(Proposals) /\ \A k \in 1..n : s.log[k] \in Proposals
    BY StateFields, LenProperties DEF Sound
  <2> QED
    BY <2>1, ProposalFields, MessageFields
<1> DEFINE S == {k \in 0..n : \/ First(f[k])
                              \/ (f[k] = <<>> /\ \A i \in 1..k : s.log[i].decree < m.decree)}
<1>3. 0 \in S
  BY <1>1, <1>2 DEF Answers
<1>4. ASSUME NEW k \in 1..n, k - 1 \in S PROVE k \in S
  <2>0. k \in Nat /\ k \in 0..n /\ k - 1 \in 0..n
    BY <1>2
  <2>1. /\ f[k - 1] \in Seq(Proposals) /\ s.log[k] \in Proposals /\ s.log[k].decree \in Nat
        /\ f[k] = IF s.log[k].decree >= m.decree THEN Append(f[k - 1], s.log[k]) ELSE f[k - 1]
    BY <1>1, <1>2, <2>0 DEF Answers
  <2>2. CASE First(f[k - 1])
    <3>1. First(f[k])
      <4>1. CASE f[k] = f[k - 1]
        BY <2>2, <4>1
      <4>2. CASE f[k] = Append(f[k - 1], s.log[k])
        <5>1. f[k] # <<>> /\ f[k][1] = f[k - 1][1]
          BY <2>1, <2>2, <4>2, AppendKeepsFirst
        <5> QED
          BY <2>2, <5>1
      <4> QED
        BY <2>1, <4>1, <4>2
    <3> QED
      BY <2>0, <3>1
  <2>3. CASE f[k - 1] = <<>> /\ \A i \in 1..(k - 1) : s.log[i].decree < m.decree
    <3>1. CASE s.log[k].decree >= m.decree
      <4>1. f[k] = <<s.log[k]>>
        BY <2>1, <2>3, <3>1
      <4>2. s.log[k].decree <= m.decree
        <5>1. IF k = 1 THEN s.log[1].decree = 0 ELSE Follows(s.log[k - 1], s.log[k])
          BY DEF Orderly, Gapless
        <5>2. CASE k = 1
          BY <1>2, <5>1, <5>2
        <5>3. CASE k # 1
          <6>1. k - 1 \in 1..(k - 1) /\ k - 1 \in 1..n
            BY <2>0, <5>3
          <6>2. s.log[k - 1].decree < m.decree /\ s.log[k - 1].decree \in Nat
            BY <1>2, <2>3, <6>1
          <6>3. s.log[k].decree <= s.log[k - 1].decree + 1
            BY <2>1, <5>1, <5>3, <6>2 DEF Follows
          <6> QED
            BY <1>2, <2>1, <6>2, <6>3
        <5> QED
          BY <5>2, <5>3
      <4>3. First(f[k])
        BY <4>1, <4>2
      <4> QED
        BY <2>0, <4>3
    <3>2. CASE ~(s.log[k].decree >= m.decree)
      <4>1. f[k] = <<>>
        BY <2>1, <2>3, <3>2
      <4>2. s.log[k].decree < m.decree
        BY <1>2, <2>1, <3>2
      <4>3. \A i \in 1..k : s.log[i].decree < m.decree
        BY <2>0, <2>3, <4>2
      <4> QED
        BY <2>0, <4>1, <4>3
    <3> QED
      BY <3>1, <3>2
  <2> QED
    BY <1>4, <2>2, <2>3
<1>5. n \in S
  <2>1. \A k \in 0..n : k \in S
    <3> HIDE DEF S, n
    <3> QED
      BY <1>2, <1>3, <1>4, UpTo
  <2> QED
    BY <1>2, <2>1
<1>6. f[n] = <<>> \/ f[n][1].decree <= m.decree
  BY <1>5
<1> DEFINE ps == f[n]
<1> HIDE DEF ps, n
<1>7. x(ps).type = "FetchResp" /\ x(ps).to = m.from /\ x(ps).proposals = ps
  BY DEF Msg
<1> QED
  BY <1>1, <1>6, <1>7 DEF ps

\* A response that begins no later than what the node has accepted changes
\* nothing: the handler returns at its first entry.
LEMMA FetchResponseUnused ==
  ASSUME NEW s, Sound(s), NEW m \in Message,
         m.proposals = <<>> \/ m.proposals[1].decree <= s.accepted.decree
  PROVE  AfterFetchResponse(s, m) \in {s, [s EXCEPT !.learningFrom = Nobody],
                                       [Initialize(s) EXCEPT !.learningFrom = Nobody]}
<1> DEFINE n == Len(m.proposals)
           same == [state |-> s, done |-> TRUE]
<1>1. PICK f : Fetches(s, m, f) /\ AfterFetchResponse(s, m) = Ended(s, m, f[n])
  BY FetchFetches
<1>2. n \in Nat /\ (m.proposals = <<>> <=> n = 0)
  BY MessageFields, LenProperties, EmptySeq
<1>3. CASE n = 0
  <2>1. f[n] = [state |-> s, done |-> FALSE]
    BY <1>1, <1>3 DEF Fetches
  <2> QED
    BY <1>1, <2>1 DEF Ended
<1>4. CASE n # 0
  <2>1. m.proposals[1].decree <= s.accepted.decree /\ 1 \in 1..n
    BY <1>2, <1>4
  <2>2. m.proposals[1] \in Proposals
    BY <1>2, <2>1, MessageFields
  <2>3. m.proposals[1].decree \in Nat /\ s.accepted.decree \in Nat
    BY <2>2, StateFields, ProposalFields DEF Sound
  <2>4. ~NextDecree(s, m.proposals[1])
    BY <2>1, <2>3 DEF NextDecree
  <2>5. Fetch(s, m.proposals[1]) = same
    BY <2>4 DEF Fetch
  <2>6. f[1] = same
    <3>1. f[1] = IF f[0].done THEN f[0] ELSE Fetch(f[0].state, m.proposals[1])
      BY <1>1, <2>1 DEF Fetches
    <3>2. f[0].state = s /\ f[0].done = FALSE
      BY <1>1 DEF Fetches
    <3> QED
      BY <2>5, <3>1, <3>2
  <2> DEFINE S == {k \in 0..n : k = 0 \/ f[k] = same}
  <2>7. 0 \in S
    BY <1>2
  <2>8. ASSUME NEW k \in 1..n, k - 1 \in S PROVE k \in S
    <3>1. CASE k = 1
      BY <1>2, <2>6, <3>1
    <3>2. CASE k # 1
      <4>1. f[k - 1] = same /\ f[k - 1].done = TRUE
        BY <2>8, <3>2
      <4>2. f[k] = IF f[k - 1].done THEN f[k - 1] ELSE Fetch(f[k - 1].state, m.proposals[k])
        BY <1>1 DEF Fetches
      <4>3. f[k] = same
        BY <4>1, <4>2
      <4> QED
        BY <1>2, <4>3
    <3> QED
      BY <3>1, <3>2
  <2>9. f[n] = same
    <3>1. \A k \in 0..n : k \in S
      <4> HIDE DEF S, n
      <4> QED
        BY <1>2, <2>7, <2>8, UpTo
    <3>2. n \in 0..n
      BY <1>2
    <3> HIDE DEF same, n
    <3> QED
      BY <1>4, <3>1, <3>2
  <2> QED
    BY <1>1, <2>9 DEF Ended
<1> QED
  BY <1>3, <1>4

LEMMA FetchResponseWell ==
  ASSUME NEW s, Sound(s), Orderly(s), Preparer(s), NEW m \in Message,
         m.proposals = <<>> \/ m.proposals[1].decree <= s.accepted.decree
  PROVE  Well(s, AfterFetchResponse(s, m))
<1>1. ASSUME NEW t, Alike(s, t), t \in NodeState, Preparer(t)
      PROVE  Well(s, [t EXCEPT !.learningFrom = Nobody])
  <2> DEFINE u == [t EXCEPT !.learningFrom = Nobody]
  <2>1. Alike(t, u) /\ u.state = t.state /\ u.freshest = t.freshest /\ u.prepared = t.prepared
    BY <1>1 DEF Alike, NodeState
  <2> HIDE DEF u
  <2>2. Well(s, u)
    BY <1>1, <2>1, AlikeTransitive, SamePreparer, AlikeWell
  <2> QED
    BY <2>2 DEF u
<1>2. Alike(s, s) /\ s \in NodeState
  BY DEF Alike, Sound
<1>3. Alike(s, Initialize(s)) /\ Preparer(Initialize(s)) /\ Initialize(s) \in NodeState
  BY AlikeInitialize, InitializeSound, NotPreparing DEF Sound, Initializing, Preparing
<1> QED
  BY <1>1, <1>2, <1>3, FetchResponseUnused, WellUnchanged

-----------------------------------------------------------------------------
(* The environment *)

\* What a message in transit tells as long as its sender or receiver runs.
Told(m) ==
  /\ m.type = "AcceptReq" => m.ballot.num >= 1
  /\ m.type = "FetchReq" /\ m.from \in Running => m.decree <= node[m.from].accepted.decree
  /\ m.type = "FetchResp" /\ m.to \in Running =>
       m.proposals = <<>> \/ m.proposals[1].decree <= node[m.to].accepted.decree

Tidy ==
  /\ \A n \in Node : /\ node[n].id = n /\ Orderly(node[n]) /\ Preparer(node[n])
                     /\ \A x \in node[n].out : x.type = "StatusReq"
  /\ \A m \in messages : Told(m)

LogInv == IInv /\ (~disturbed => Tidy)

LEMMA NewNodeTidy ==
  ASSUME NEW n \in Node
  PROVE  \A s \in {NewNode(n), Fresh(n)} :
           /\ s.id = n /\ Orderly(s) /\ Preparer(s) /\ \A x \in s.out : x.type = "StatusReq"
<1> DEFINE s == NewNode(n)
           t == [s EXCEPT !.state = Initializing, !.remote = {}]
           m == Msg("StatusReq", s, Nobody)
           sent == {[m EXCEPT !.to = p] : p \in Node \ {t.id}}
<1>1. s \in NodeState /\ Sound(s) /\ Fresh(n) = Initialize(s)
  BY NewNodeSound DEF Fresh
<1>2. s.id = n /\ s.log = <<>> /\ s.accepted = NoProposal /\ s.prepared = NoBallot /\ s.out = {}
      /\ s.state = Inactive
  BY DEF NewNode
<1>3. Orderly(s) /\ Preparer(s)
  <2>1. Gapless(<<>>) /\ Newest(<<>>) = NoProposal
    BY EmptySeq DEF Gapless, Newest
  <2> QED
    BY <1>2, <2>1 DEF Orderly, Preparer, NoBallot, Inactive, Preparing
<1>4. \A x \in sent : x.type = "StatusReq"
  BY DEF Msg
<1> HIDE DEF s, m
<1>5. Initialize(s).out = s.out \cup sent
  BY <1>1 DEF Initialize, Broadcast, NodeState, m
<1>6. Well(s, Initialize(s))
  <2>1. Alike(s, s)
    BY DEF Alike
  <2> QED
    BY <1>1, <1>3, <2>1, WellInitialize
<1> QED
  BY <1>1, <1>2, <1>3, <1>4, <1>5, <1>6 DEF Well, Grows, s

\* A step of a running node keeps everything in order; it may answer a fetch.
LEMMA CollectedTidy ==
  ASSUME IInv, Tidy, NEW n \in Running, NEW s, NEW gone, Collected(n, s, gone), Sound(s),
         Orderly([s EXCEPT !.out = {}]), Preparer(s), Grows(node[n], s),
         \A x \in s.out : Fine(x, s) \/ (x.type = "FetchResp" /\ Told(x))
  PROVE  Tidy'
<1> DEFINE of(p) == IF p = n THEN s ELSE node[p]
<1>0. n \in Node /\ node[n].state # Inactive
  BY DEF Running
<1>1. node' = [p \in Node |-> [of(p) EXCEPT !.out = {}]]
  BY DEF Collected
<1>2. ASSUME NEW p \in Node
      PROVE  /\ of(p) \in NodeState /\ node[p] \in NodeState
             /\ of(p).id = p /\ Preparer(of(p)) /\ Orderly([of(p) EXCEPT !.out = {}])
             /\ of(p).accepted.decree >= node[p].accepted.decree
             /\ of(p).accepted.decree \in Nat /\ node[p].accepted.decree \in Nat
  <2>1. of(p) \in NodeState /\ node[p] \in NodeState /\ Sound(node[p]) /\ Orderly(node[p])
    BY DEF Sound, IInv, Nodes, Tidy
  <2>2. of(p).accepted.decree \in Nat /\ node[p].accepted.decree \in Nat
    BY <2>1, StateFields, ProposalFields
  <2>3. CASE p = n
    BY <1>0, <2>1, <2>2, <2>3 DEF Grows, Tidy
  <2>4. CASE p # n
    <3>1. of(p) = node[p]
      BY <2>4
    <3>2. Alike(node[p], [node[p] EXCEPT !.out = {}])
      BY <2>1 DEF Alike, NodeState
    <3>3. Orderly([node[p] EXCEPT !.out = {}])
      BY <2>1, <3>2, AlikeOrderly
    <3>4. node[p].id = p /\ Preparer(node[p])
      BY DEF Tidy
    <3> HIDE DEF of
    <3> QED
      BY <2>1, <2>2, <3>1, <3>3, <3>4
  <2> QED
    BY <2>3, <2>4
<1>2a. of(n) = s /\ \A p \in Node : p # n => of(p) = node[p]
  OBVIOUS
<1> HIDE DEF of
<1>3. ASSUME NEW p \in Node
      PROVE  /\ node'[p].accepted = of(p).accepted /\ node'[p].out = {} /\ node'[p].id = p
             /\ node'[p].state = of(p).state /\ Orderly(node'[p]) /\ Preparer(node'[p])
  <2> DEFINE u == [of(p) EXCEPT !.out = {}]
  <2>1. /\ u.accepted = of(p).accepted /\ u.out = {} /\ u.id = of(p).id /\ u.state = of(p).state
        /\ u.freshest = of(p).freshest /\ u.prepared = of(p).prepared /\ Orderly(u)
    BY <1>2 DEF NodeState
  <2>2. node'[p] = u
    BY <1>1
  <2> HIDE DEF u
  <2> QED
    BY <1>2, <2>1, <2>2 DEF Preparer
<1>4. ASSUME NEW p \in Node, of(p).state # Inactive PROVE p \in Running
  BY <1>0, <1>2a, <1>4 DEF Running
<1>5. ASSUME NEW m \in Message, Told(m) PROVE Told(m)'
  <2>1. m.from \in Node /\ m.to \in Node /\ m.decree \in Nat /\ m.proposals \in Seq(Proposals)
    BY MessageFields
  <2>2. ASSUME m.type = "FetchReq", m.from \in Running' PROVE m.decree <= node'[m.from].accepted.decree
    <3>1. m.from \in Running
      BY <1>3, <1>4, <2>1, <2>2 DEF Running
    <3>2. m.decree <= node[m.from].accepted.decree
      BY <1>5, <2>2, <3>1 DEF Told
    <3>3. /\ of(m.from).accepted.decree >= node[m.from].accepted.decree
          /\ of(m.from).accepted.decree \in Nat /\ node[m.from].accepted.decree \in Nat
          /\ node'[m.from].accepted = of(m.from).accepted
      BY <1>2, <1>3, <2>1
    <3> QED
      BY <2>1, <3>2, <3>3
  <2>3. ASSUME m.type = "FetchResp", m.to \in Running', m.proposals # <<>>
        PROVE  m.proposals[1].decree <= node'[m.to].accepted.decree
    <3>1. m.to \in Running
      BY <1>3, <1>4, <2>1, <2>3 DEF Running
    <3>2. m.proposals[1].decree <= node[m.to].accepted.decree
      BY <1>5, <2>3, <3>1 DEF Told
    <3>3. m.proposals[1] \in Proposals
      BY <2>1, <2>3, EmptySeq, LenProperties
    <3>4. m.proposals[1].decree \in Nat
      BY <3>3, ProposalFields
    <3>5. /\ of(m.to).accepted.decree >= node[m.to].accepted.decree
          /\ of(m.to).accepted.decree \in Nat /\ node[m.to].accepted.decree \in Nat
          /\ node'[m.to].accepted = of(m.to).accepted
      BY <1>2, <1>3, <2>1
    <3> QED
      BY <3>2, <3>4, <3>5
  <2> QED
    BY <1>5, <2>2, <2>3 DEF Told
<1>6. ASSUME NEW x \in s.out PROVE Told(x)'
  <2>1. x \in Message
    BY StateFields DEF Sound
  <2>2. CASE Fine(x, s)
    BY <1>0, <1>2, <1>2a, <1>3, <2>2 DEF Fine, Told
  <2>3. CASE x.type = "FetchResp" /\ Told(x)
    BY <1>5, <2>1, <2>3
  <2> QED
    BY <2>2, <2>3
<1>7. ASSUME NEW p \in Node, NEW x \in node[p].out PROVE Told(x)'
  <2>1. x.type = "StatusReq"
    BY DEF Tidy
  <2> QED
    BY <2>1 DEF Told
<1>8. ASSUME NEW m \in messages' PROVE Told(m)'
  <2> DEFINE sent == s.out \cup UNION {node[p].out : p \in Node \ {n}}
             rest == messages \ gone
  <2>1. \E k : \E kept \in kSubset(k, sent \ rest) : messages' = rest \cup kept
    BY DEF Collected
  <2>2. \E kept \in SUBSET (sent \ rest) : messages' = rest \cup kept
    <3> HIDE DEF sent, rest
    <3> QED
      BY <2>1 DEF kSubset
  <2>3. m \in messages \/ m \in sent
    BY <2>2
  <2>4. CASE m \in messages
    BY <1>5, <2>4 DEF Tidy, IInv
  <2>5. CASE m \in sent
    BY <1>6, <1>7, <2>5
  <2> QED
    BY <2>3, <2>4, <2>5
<1> QED
  BY <1>3, <1>8 DEF Tidy

\* The same of a handler that answers no fetch.
LEMMA WellTidy ==
  ASSUME IInv, Tidy, NEW n \in Running, NEW s, NEW gone, Collected(n, s, gone), Sound(s),
         Well(node[n], s)
  PROVE  Tidy'
<1>1. Alike(s, [s EXCEPT !.out = {}])
  BY DEF Alike, Sound, NodeState
<1>2. Orderly([s EXCEPT !.out = {}])
  BY <1>1, AlikeOrderly DEF Well
<1>3. \A x \in s.out : Fine(x, s)
  BY DEF Well, Orderly
<1> QED
  BY <1>2, <1>3, CollectedTidy DEF Well

LEMMA HandleTidy ==
  ASSUME IInv, Tidy, NEW m \in messages, Handle(m) PROVE Tidy'
<1> DEFINE n == m.to
           s == node[n]
<1>1. m \in Message /\ Told(m)
  BY DEF IInv, Tidy
<1>2. ASSUME NEW type, NEW t, Deliver(m, type, t), Sound(t), Well(s, t) PROVE Tidy'
  BY <1>2, WellTidy DEF Deliver
<1>3. ASSUME NEW type, NEW t, Deliver(m, type, t) PROVE n \in Running /\ m.type = type /\ t.prepared.num <= MaxBallot
  BY <1>3 DEF Deliver, Collected
<1>4. ASSUME n \in Running
      PROVE  Sound(s) /\ Orderly(s) /\ Preparer(s) /\ s.state # Inactive /\ n \in Node
  BY <1>4 DEF IInv, Nodes, Tidy, Running
<1> HIDE DEF s
<1>5. CASE StatusRequest(m)
  BY <1>1, <1>2, <1>3, <1>4, <1>5, StatusRequestSound, StatusRequestWell DEF StatusRequest, s
<1>6. CASE StatusResponse(m)
  <2>1. PICK u \in AfterStatusResponse(s, m) : Deliver(m, "StatusResp", u)
    BY <1>6 DEF StatusResponse, s
  <2> QED
    BY <1>1, <1>2, <1>3, <1>4, <2>1, StatusResponseSound, StatusResponseWell
<1>7. CASE PrepareRequest(m)
  BY <1>1, <1>2, <1>3, <1>4, <1>7, PrepareRequestSound, PrepareRequestWell DEF PrepareRequest, s
<1>8. CASE PrepareResponse(m)
  BY <1>1, <1>2, <1>3, <1>4, <1>8, PrepareResponseSound, PrepareResponseWell DEF PrepareResponse, s
<1>9. CASE AcceptRequest(m)
  <2>1. Deliver(m, "AcceptReq", AfterAcceptRequest(s, m))
    BY <1>9 DEF AcceptRequest, s
  <2>2. m.ballot.num >= 1
    BY <1>1, <1>3, <2>1 DEF Told
  <2> QED
    BY <1>1, <1>2, <1>3, <1>4, <2>1, <2>2, AcceptRequestSound, AcceptRequestWell
<1>10. CASE AcceptResponse(m)
  BY <1>1, <1>2, <1>3, <1>4, <1>10, AcceptResponseSound, AcceptResponseWell DEF AcceptResponse, s
<1>11. CASE NotPrepared(m)
  BY <1>1, <1>2, <1>3, <1>4, <1>11, NotAcceptSound, NotAcceptWell DEF NotPrepared, s
<1>12. CASE NotAccepted(m)
  BY <1>1, <1>2, <1>3, <1>4, <1>12, NotAcceptSound, NotAcceptWell DEF NotAccepted, s
<1>13. CASE FetchRequest(m)
  <2>1. Deliver(m, "FetchReq", AfterFetchRequest(s, m))
    BY <1>13 DEF FetchRequest, s
  <2>2. n \in Running /\ Sound(s) /\ Orderly(s) /\ Preparer(s)
    BY <1>3, <1>4, <2>1
  <2>3. PICK x : /\ AfterFetchRequest(s, m) = Send(s, x)
                 /\ x.type = "FetchResp" /\ x.to = m.from
                 /\ x.proposals = <<>> \/ x.proposals[1].decree <= m.decree
    BY <1>1, <2>2, FetchRequestTold
  <2> DEFINE t == AfterFetchRequest(s, m)
  <2>4. /\ t.out = s.out \cup {x} /\ t.state = s.state /\ t.freshest = s.freshest
        /\ t.prepared = s.prepared /\ t.accepted = s.accepted /\ t.log = s.log /\ t.id = s.id
    BY <2>2, <2>3 DEF Send, Sound, NodeState
  <2>5. Sound(t)
    BY <1>1, <2>2, FetchRequestSound
  <2> HIDE DEF t
  <2>6. Orderly([t EXCEPT !.out = {}])
    <3>1. Alike(s, [t EXCEPT !.out = {}])
      BY <2>4, <2>5 DEF Alike, Sound, NodeState
    <3> QED
      BY <2>2, <3>1, AlikeOrderly
  <2>7. Told(x)
    <3>1. ASSUME m.from \in Running, x.proposals # <<>>
          PROVE  x.proposals[1].decree <= node[m.from].accepted.decree
      <4>1. m.decree <= node[m.from].accepted.decree
        BY <1>1, <1>3, <2>1, <3>1 DEF Told
      <4>2. /\ m.decree \in Nat /\ node[m.from].accepted.decree \in Nat
        BY <1>1, MessageFields, StateFields, ProposalFields DEF IInv, Nodes
      <4>3. x \in Message
        BY <2>4, <2>5, StateFields DEF Sound
      <4>4. x.proposals[1] \in Proposals
        BY <3>1, <4>3, MessageFields, EmptySeq, LenProperties
      <4>5. x.proposals[1].decree \in Nat
        BY <4>4, ProposalFields
      <4> QED
        BY <2>3, <3>1, <4>1, <4>2, <4>5
    <3> QED
      BY <2>3, <3>1 DEF Told
  <2>8. Preparer(t) /\ Grows(s, t)
    BY <2>2, <2>4, StateFields, ProposalFields DEF Preparer, Grows, Sound
  <2>9. \A y \in t.out : Fine(y, t) \/ (y.type = "FetchResp" /\ Told(y))
    <3>1. ASSUME NEW y \in s.out PROVE Fine(y, t)
      BY <2>2, <2>4 DEF Orderly, Fine
    <3> QED
      BY <2>3, <2>4, <2>7, <3>1
  <2>10. Collected(n, t, {m}) /\ n \in Running
    BY <2>1 DEF Deliver, t
  <2> QED
    BY <2>5, <2>6, <2>8, <2>9, <2>10, CollectedTidy DEF s
<1>14. CASE FetchResponse(m)
  <2>1. Deliver(m, "FetchResp", AfterFetchResponse(s, m))
    BY <1>14 DEF FetchResponse, s
  <2>2. m.proposals = <<>> \/ m.proposals[1].decree <= s.accepted.decree
    BY <1>1, <1>3, <2>1 DEF Told, s
  <2> QED
    BY <1>1, <1>2, <1>3, <1>4, <2>1, <2>2, FetchResponseSound, FetchResponseWell
<1> QED
  BY <1>5, <1>6, <1>7, <1>8, <1>9, <1>10, <1>11, <1>12, <1>13, <1>14 DEF Handle

LEMMA TickTidy ==
  ASSUME IInv, Tidy, NEW n \in Node,
         TickElection(n) \/ TickRetry(n) \/ TickRepeat(n) \/ TickPropose(n)
  PROVE  Tidy'
<1> DEFINE s == node[n]
<1>1. Sound(s) /\ Orderly(s) /\ Preparer(s) /\ s \in NodeState /\ Alike(s, s)
  BY DEF IInv, Nodes, Tidy, Sound, Alike
<1>2. ASSUME NEW t, TimeOut(n, t), s.state # Inactive, Sound(t), Well(s, t) PROVE Tidy'
  BY <1>2, WellTidy DEF TimeOut, Running
<1>3. MaySend(s) => s.state # Inactive /\ s.election = Finite /\ s.accepted.ballot.num >= 1
  <2>1. s.prepared \in Ballots /\ s.prepared.num \in Nat
    BY <1>1, StateFields, BallotFields
  <2>2. MaySend(s) => s.prepared.num # 0
    BY <1>1, RSLAssumption DEF MaySend, Orderly, Tidy
  <2> QED
    BY <1>1, <2>1, <2>2 DEF MaySend, Sound, StablePrimary, Initializing, Inactive
<1> HIDE DEF s
<1>4. CASE TickElection(n)
  <2>1. TimeOut(n, Initialize(s)) /\ s.state # Inactive
    BY <1>4 DEF TickElection, s, StablePrimary, StableSecondary, Inactive
  <2> QED
    BY <1>1, <1>2, <2>1, InitializeSound, WellInitialize
<1>5. CASE TickRetry(n)
  <2>1. CASE s.state = Initializing /\ TimeOut(n, Initialize(s))
    <3>1. s.state # Inactive
      BY <2>1 DEF Initializing, Inactive
    <3> QED
      BY <1>1, <1>2, <2>1, <3>1, InitializeSound, WellInitialize
  <2>2. CASE s.state = Preparing /\ TimeOut(n, Prepare(s))
    <3>1. s.state # Inactive
      BY <2>2 DEF Preparing, Inactive
    <3>2. Prepare(s).prepared.num <= MaxBallot
      BY <2>2 DEF TimeOut, Collected
    <3>3. Sound(Prepare(s))
      BY <1>1, <3>1, <3>2, PrepareSound
    <3>4. Well(s, Prepare(s))
      BY <1>1, <2>2, AlikePrepare, AlikeWell
    <3> QED
      BY <1>2, <2>2, <3>1, <3>3, <3>4
  <2> QED
    BY <1>5, <2>1, <2>2 DEF TickRetry, s
<1>6. CASE TickRepeat(n)
  <2>1. MaySend(s) /\ TimeOut(n, Repeat(s))
    BY <1>6 DEF TickRepeat, s
  <2> DEFINE t == [s EXCEPT !.remote = {}]
  <2>2. t \in NodeState /\ Alike(s, t) /\ t.state = s.state
    BY <1>1 DEF Alike, NodeState
  <2>3. Repeat(s) = Broadcast(t, Request(s, s.accepted))
    BY DEF Repeat
  <2> HIDE DEF t
  <2>4. Alike(s, Repeat(s)) /\ Repeat(s).state # Preparing
    <3>1. Alike(t, Broadcast(t, Request(s, s.accepted)))
      BY <1>3, <2>1, <2>2, AlikeRequest
    <3>2. Alike(s, Repeat(s)) /\ Repeat(s).state = s.state
      BY <2>2, <2>3, <3>1, AlikeTransitive, BroadcastKeeps
    <3> QED
      BY <2>1, <3>2 DEF MaySend, StablePrimary, Preparing
  <2>5. Well(s, Repeat(s))
    BY <1>1, <2>4, NotPreparing, AlikeWell
  <2> QED
    BY <1>1, <1>2, <1>3, <2>1, <2>5, RepeatSound
<1>7. CASE TickPropose(n)
  <2>1. MaySend(s) /\ s.commandQ # <<>> /\ Collected(n, Propose(s), {})
    BY <1>7 DEF TickPropose, s
  <2> DEFINE p == Proposal(s.accepted.ballot, s.accepted.decree + 1, Head(s.commandQ))
             q == Tail(s.commandQ)
             t == [s EXCEPT !.remote = {}, !.commandQ = q, !.ready = FALSE]
             u == Broadcast(t, Request(s, p))
             v == LogProposal(u, p)
  <2>2. Head(s.commandQ) \in Commands \ {0} /\ q \in Seq(Commands \ {0})
    BY <1>1, <2>1, StateFields, HeadTailProperties
  <2>3. s.accepted.ballot \in Ballots /\ s.accepted.decree \in Nat
    BY <1>1, StateFields, ProposalFields
  <2>4. p \in Proposals /\ p.ballot = s.accepted.ballot /\ p.decree = s.accepted.decree + 1
    BY <2>2, <2>3 DEF Proposal, Proposals
  <2>5. Propose(s) = v
    BY DEF Propose
  <2> HIDE DEF p, q
  <2>6. Sound(t) /\ t.election = Finite /\ Alike(s, t) /\ t.state = s.state
    BY <1>1, <1>3, <2>1, <2>2 DEF Alike, Sound, NodeState
  <2> HIDE DEF t
  <2>7. Sound(u) /\ u.election = Finite /\ Alike(s, u) /\ u.state = s.state
    <3>1. Sound(u)
      BY <1>1, <2>4, <2>6, RequestSound
    <3>2. Alike(t, u)
      BY <1>3, <2>1, <2>4, <2>6, AlikeRequest DEF Sound
    <3> QED
      BY <2>6, <3>1, <3>2, AlikeTransitive, BroadcastKeeps DEF Sound
  <2> HIDE DEF u
  <2>8. Orderly(u) /\ Grows(s, u)
    BY <1>1, <2>7, AlikeOrderly
  <2>9. Extending(u, p)
    <3>1. u.log = s.log /\ u.accepted = s.accepted
      BY <2>7 DEF Alike
    <3>2. s.log # <<>>
      <4>1. s.log = <<>> => s.accepted.ballot.num = 0
        BY <1>1 DEF Orderly, Newest, NoProposal, Proposal, NoBallot
      <4> QED
        BY <1>3, <2>1, <4>1
    <3> QED
      BY <2>4, <3>1, <3>2 DEF Extending, Follows
  <2>10. Sound(v) /\ Orderly(v) /\ Grows(u, v) /\ v.state = s.state
    <3>1. Sound(v) /\ Orderly(v) /\ Grows(u, v)
      BY <2>4, <2>7, <2>8, <2>9, LogProposalSound, LogProposalOrderly
    <3>2. v.state = u.state
      BY <2>7 DEF LogProposal, Postponed, Sound, NodeState
    <3> QED
      BY <2>7, <3>1, <3>2
  <2> HIDE DEF v
  <2>11. Well(s, v)
    <3>1. /\ s.accepted.decree \in Nat /\ u.accepted.decree \in Nat /\ v.accepted.decree \in Nat
      BY <1>1, <2>7, <2>10, StateFields, ProposalFields DEF Sound
    <3>2. Grows(s, v)
      BY <2>8, <2>10, <3>1 DEF Grows
    <3>3. Preparer(v)
      BY <2>1, <2>10, NotPreparing DEF MaySend, StablePrimary, Preparing
    <3> QED
      BY <2>10, <3>2, <3>3 DEF Well
  <2>12. n \in Running
    BY <1>3, <2>1 DEF Running, s
  <2> QED
    BY <2>1, <2>5, <2>10, <2>11, <2>12, WellTidy DEF s
<1> QED
  BY <1>4, <1>5, <1>6, <1>7

LEMMA InitTidy == Init => Tidy
  BY NewNodeTidy DEF Init, Tidy

LEMMA ResetTidy == ASSUME Reset, ~disturbed' PROVE Tidy'
<1>1. messages' = {} /\ node' = [n \in Node |-> Fresh(n)]
  BY DEF Reset
<1> QED
  BY <1>1, NewNodeTidy DEF Tidy

LEMMA StopTidy == ASSUME IInv, Tidy, NEW n \in Node, Stop(n) PROVE Tidy'
<1>1. node' = [node EXCEPT ![n] = NewNode(n)] /\ messages' = messages
  BY DEF Stop
<1>2. node \in [Node -> NodeState] /\ NewNode(n).state = Inactive
  BY DEF IInv, Nodes, NewNode
<1>3. ASSUME NEW m \in messages PROVE Told(m)'
  <2>1. m.from \in Node /\ m.to \in Node /\ Told(m)
    BY MessageFields DEF IInv, Tidy
  <2>2. \A p \in Node : p \in Running' => p \in Running /\ node'[p] = node[p]
    BY <1>1, <1>2 DEF Running
  <2> QED
    BY <2>1, <2>2 DEF Told
<1> QED
  BY <1>1, <1>2, <1>3, NewNodeTidy DEF Tidy

LEMMA ReceiveRequestTidy == ASSUME IInv, Tidy, ReceiveRequest PROVE Tidy'
<1>1. PICK n \in Node : node' = [node EXCEPT ![n].commandQ = Append(@, Head(requests))]
  BY DEF ReceiveRequest
<1> DEFINE q == Append(node[n].commandQ, Head(requests))
           t == [node[n] EXCEPT !.commandQ = q]
<1>2. node \in [Node -> NodeState] /\ Sound(node[n]) /\ node' = [node EXCEPT ![n] = t] /\ messages' = messages
  BY <1>1 DEF IInv, Nodes, ReceiveRequest
<1> HIDE DEF q
<1>3. /\ t.id = node[n].id /\ t.state = node[n].state /\ t.freshest = node[n].freshest
      /\ t.prepared = node[n].prepared /\ t.accepted = node[n].accepted /\ t.out = node[n].out
      /\ Alike(node[n], t)
  BY <1>2 DEF Alike, NodeState
<1> HIDE DEF t
<1>4. Orderly(t) /\ Preparer(t)
  BY <1>2, <1>3, AlikeOrderly, SamePreparer DEF Tidy
<1>5. ASSUME NEW p \in Node PROVE node'[p].state = node[p].state /\ node'[p].accepted = node[p].accepted
  BY <1>2, <1>3
<1>6. ASSUME NEW m \in messages PROVE Told(m)'
  <2>1. m.from \in Node /\ m.to \in Node /\ Told(m)
    BY MessageFields DEF IInv, Tidy
  <2> QED
    BY <1>5, <2>1 DEF Told, Running
<1> QED
  BY <1>2, <1>3, <1>4, <1>6 DEF Tidy

LEMMA NextLogInv == ASSUME LogInv, [Next]_vars PROVE LogInv'
<1>1. IInv /\ IInv' /\ (~disturbed => Tidy)
  BY NextIInv DEF LogInv
<1> SUFFICES ASSUME ~disturbed' PROVE Tidy'
  BY <1>1 DEF LogInv
<1>2. CASE Reset
  BY <1>2, ResetTidy
<1>3. CASE TickIdle
  <2>1. PICK n \in Running : Collected(n, node[n], {})
    BY <1>3 DEF TickIdle
  <2>2. Tidy
    BY <1>1, <1>3 DEF TickIdle, bounds
  <2>3. n \in Node /\ Sound(node[n]) /\ Well(node[n], node[n])
    BY <1>1, <2>2, WellUnchanged DEF IInv, Nodes, Tidy, Running
  <2> QED
    BY <1>1, <2>1, <2>2, <2>3, WellTidy
<1>4. CASE ReceiveRequest
  BY <1>1, <1>4, ReceiveRequestTidy DEF ReceiveRequest, bounds
<1>5. ASSUME NEW m \in messages, Handle(m) PROVE Tidy'
  <2>1. disturbed' = disturbed
    BY <1>5 DEF Handle, StatusRequest, StatusResponse, PrepareRequest, PrepareResponse,
                AcceptRequest, AcceptResponse, NotPrepared, NotAccepted, FetchRequest,
                FetchResponse, Deliver, bounds
  <2> QED
    BY <1>1, <1>5, <2>1, HandleTidy
<1>6. ASSUME NEW m \in messages, Drop(m) PROVE Tidy'
  <2>1. messages' \subseteq messages /\ node' = node /\ Tidy
    BY <1>1, <1>6 DEF Drop, bounds
  <2> QED
    BY <2>1 DEF Tidy, Told, Running
<1>7. ASSUME NEW n \in Node, Stop(n) PROVE Tidy'
  BY <1>1, <1>7, StopTidy DEF Stop
<1>8. ASSUME NEW n \in Node, Start(n) PROVE Tidy'
  BY <1>8 DEF Start
<1>9. ASSUME NEW n \in Node,
             TickElection(n) \/ TickRetry(n) \/ TickRepeat(n) \/ TickPropose(n)
      PROVE  Tidy'
  <2>1. disturbed' = disturbed
    BY <1>9 DEF TickElection, TickRetry, TickRepeat, TickPropose, TimeOut, bounds
  <2> QED
    BY <1>1, <1>9, <2>1, TickTidy
<1>10. CASE UNCHANGED vars
  BY <1>1, <1>10 DEF vars, bounds, Tidy, Told, Running
<1> QED
  BY <1>2, <1>3, <1>4, <1>5, <1>6, <1>7, <1>8, <1>9, <1>10 DEF Next

-----------------------------------------------------------------------------
(* The theorem *)

THEOREM InvariantLogInv == Spec => []LogInv
<1>1. Init => LogInv
  BY InitIInv, InitTidy DEF LogInv
<1>2. LogInv /\ [Next]_vars => LogInv'
  BY NextLogInv
<1> QED
  BY <1>1, <1>2, PTL DEF Spec

\* A log has no gap until a node is restarted or meets messages of before a
\* reset, for any number of nodes, ballots and losses of messages.  It rests on
\* what a fetch does then: nothing, since the first entry of the answer is never
\* one that the node lacks (algo.go:747).
THEOREM LogsHaveNoGap == Spec => []LogHasNoGap
<1>1. ASSUME LogInv PROVE LogHasNoGap
  <2> SUFFICES ASSUME ~disturbed, NEW n \in Node, NEW i \in DOMAIN node[n].log
               PROVE  IF i = 1 THEN Follows(NoProposal, node[n].log[1])
                               ELSE Follows(node[n].log[i - 1], node[n].log[i])
    BY DEF LogHasNoGap
  <2>1. node[n].log \in Seq(Proposals) /\ Gapless(node[n].log)
    BY <1>1, StateFields DEF LogInv, Tidy, Orderly, IInv, Nodes
  <2>2. i \in 1..Len(node[n].log)
    BY <2>1, LenProperties
  <2>3. CASE i # 1
    BY <2>1, <2>2, <2>3 DEF Gapless
  <2>4. CASE i = 1
    <3>1. node[n].log[1].decree = 0
      BY <2>1, <2>2, <2>4 DEF Gapless
    <3>2. node[n].log[1] \in Proposals
      BY <2>1, <2>2, <2>4
    <3>3. node[n].log[1].ballot.num >= 0
      BY <3>2, ProposalFields, BallotFields
    <3> QED
      BY <2>4, <3>1, <3>3 DEF Follows, NoProposal, Proposal, NoBallot
  <2> QED
    BY <2>3, <2>4
<1> QED
  BY <1>1, InvariantLogInv, PTL

-----------------------------------------------------------------------------
(* What a node is of which no second one leads its ballot *)

\* A message that neither asks for a promise nor gives one.
Quiet(x) == x.type # "PrepareReq" /\ (x.type = "PrepareResp" => ~x.accept)

\* From s to t the node prepares no lower ballot and says nothing of promises.
Mild(s, t) ==
  /\ t.id = s.id /\ t.prepared.num >= s.prepared.num
  /\ \A x \in t.out : x \in s.out \/ Quiet(x)

\* It also hears of no promise and is elected by none.
Calm(s, t) ==
  /\ Mild(s, t)
  /\ t.state = Preparing =>
       s.state = Preparing /\ t.prepared = s.prepared /\ t.remote \subseteq s.remote
  /\ t.state = StablePrimary =>
       s.state = StablePrimary /\ t.accepted.ballot = s.accepted.ballot

LEMMA PreparedNum ==
  ASSUME NEW s \in NodeState PROVE s.prepared.num \in Nat /\ s.prepared \in Ballots
  BY StateFields, BallotFields

LEMMA MildSame ==
  ASSUME NEW s \in NodeState, NEW t, t.id = s.id, t.prepared = s.prepared,
         \A x \in t.out : x \in s.out \/ Quiet(x)
  PROVE  Mild(s, t)
  BY PreparedNum DEF Mild

LEMMA CalmSame ==
  ASSUME NEW s \in NodeState, NEW t, t.id = s.id, t.prepared = s.prepared,
         \A x \in t.out : x \in s.out \/ Quiet(x), t.state = s.state,
         t.state = Preparing => t.remote \subseteq s.remote,
         t.accepted.ballot = s.accepted.ballot
  PROVE  Calm(s, t)
  BY MildSame DEF Calm

LEMMA CalmUnchanged ==
  ASSUME NEW s \in NodeState PROVE Calm(s, s)
  BY CalmSame

LEMMA MildTransitive ==
  ASSUME NEW s \in NodeState, NEW t \in NodeState, NEW u \in NodeState, Mild(s, t), Mild(t, u)
  PROVE  Mild(s, u)
  BY PreparedNum DEF Mild

LEMMA MildSend ==
  ASSUME NEW s \in NodeState, NEW x, Quiet(x)
  PROVE  /\ Mild(s, Send(s, x)) /\ Calm(s, Send(s, x))
<1> DEFINE t == Send(s, x)
<1>1. /\ t.id = s.id /\ t.prepared = s.prepared /\ t.state = s.state /\ t.remote = s.remote
      /\ t.accepted = s.accepted /\ t.out = s.out \cup {x}
  BY DEF Send, NodeState
<1> HIDE DEF t
<1>2. Mild(s, t) /\ Calm(s, t)
  BY <1>1, MildSame, CalmSame
<1> QED
  BY <1>2 DEF t

LEMMA MildBroadcast ==
  ASSUME NEW s \in NodeState, NEW m, \A n \in Node : Quiet([m EXCEPT !.to = n])
  PROVE  Mild(s, Broadcast(s, m)) /\ Calm(s, Broadcast(s, m))
<1> DEFINE sent == {[m EXCEPT !.to = n] : n \in Node \ {s.id}}
           t == Broadcast(s, m)
<1>1. /\ t.id = s.id /\ t.prepared = s.prepared /\ t.state = s.state /\ t.remote = s.remote
      /\ t.accepted = s.accepted /\ t.out = s.out \cup sent
  BY DEF Broadcast, NodeState
<1>2. \A x \in sent : Quiet(x)
  OBVIOUS
<1> HIDE DEF t, sent
<1>3. Mild(s, t) /\ Calm(s, t)
  BY <1>1, <1>2, MildSame, CalmSame
<1> QED
  BY <1>3 DEF t

\* A node that settles is calm, whatever it has done before.
LEMMA MildStabilize ==
  ASSUME NEW s \in NodeState, NEW t \in NodeState, Mild(s, t)
  PROVE  Calm(s, Stabilize(t, StableSecondary))
<1> DEFINE u == Stabilize(t, StableSecondary)
<1>1. u.id = t.id /\ u.prepared = t.prepared /\ u.state = StableSecondary /\ u.out = t.out
  BY DEF Stabilize, NodeState
<1> HIDE DEF u
<1>2. Calm(s, u)
  BY <1>1 DEF Calm, Mild, StableSecondary, StablePrimary, Preparing
<1> QED
  BY <1>2 DEF u

LEMMA MildInitialize ==
  ASSUME NEW s \in NodeState, NEW t \in NodeState, Mild(s, t)
  PROVE  Calm(s, Initialize(t))
<1> DEFINE u == [t EXCEPT !.state = Initializing, !.remote = {}]
           m == Msg("StatusReq", t, Nobody)
           v == Broadcast(u, m)
<1>1. u \in NodeState /\ u.id = t.id /\ u.prepared = t.prepared /\ u.out = t.out
      /\ u.state = Initializing
  BY DEF NodeState
<1>2. \A n \in Node : Quiet([m EXCEPT !.to = n])
  BY DEF Msg, Quiet
<1>3. Initialize(t) = v
  BY DEF Initialize
<1> HIDE DEF u, m
<1>4. Calm(u, v) /\ v.state = Initializing /\ v.prepared = u.prepared
  BY <1>1, <1>2, MildBroadcast, BroadcastKeeps
<1> HIDE DEF v
<1>5. Calm(s, v)
  BY <1>1, <1>4 DEF Calm, Mild, Initializing, StablePrimary, Preparing
<1> QED
  BY <1>3, <1>5

LEMMA CalmRefuse ==
  ASSUME NEW s \in NodeState, NEW m, NEW type \in {"PrepareResp", "AcceptResp"}
  PROVE  Calm(s, Refuse(s, m, type))
<1> DEFINE x == [Msg(type, s, m.from) EXCEPT !.ballot = s.prepared, !.decree = s.accepted.decree]
<1>1. Quiet(x)
  BY DEF Msg, Quiet
<1> HIDE DEF x
<1>2. Refuse(s, m, type) = Send(s, x)
  BY DEF Refuse, x
<1> QED
  BY <1>1, <1>2, MildSend

LEMMA CalmLearnVotes ==
  ASSUME NEW s \in NodeState, NEW n PROVE Calm(s, LearnVotes(s, n))
<1> DEFINE x == [Msg("FetchReq", s, n) EXCEPT !.ballot = s.accepted.ballot,
                                              !.decree = s.accepted.decree]
           t == [s EXCEPT !.out = s.out \cup {x}, !.learningFrom = n]
<1>1. Quiet(x)
  BY DEF Msg, Quiet
<1> HIDE DEF x
<1>2. LearnVotes(s, n) = t
  BY DEF LearnVotes, Send, NodeState, x
<1>3. /\ t.id = s.id /\ t.prepared = s.prepared /\ t.state = s.state /\ t.remote = s.remote
      /\ t.accepted = s.accepted /\ t.out = s.out \cup {x}
  BY DEF NodeState
<1> HIDE DEF t
<1> QED
  BY <1>1, <1>2, <1>3, CalmSame

LEMMA MildPostponed ==
  ASSUME NEW s \in NodeState, NEW b \in Ballots, b.num > s.prepared.num
  PROVE  Mild(s, Postponed([s EXCEPT !.prepared = b]))
<1> DEFINE u == Postponed([s EXCEPT !.prepared = b])
<1>1. u.id = s.id /\ u.prepared = b /\ u.out = s.out
  BY DEF Postponed, NodeState
<1> HIDE DEF u
<1>2. Mild(s, u)
  BY <1>1, PreparedNum, BallotFields DEF Mild
<1> QED
  BY <1>2 DEF u

LEMMA MildLogProposal ==
  ASSUME NEW s \in NodeState, NEW p \in Proposals
  PROVE  /\ Mild(s, LogProposal(s, p)) /\ LogProposal(s, p).state = s.state
         /\ LogProposal(s, p).accepted = p /\ LogProposal(s, p).remote = s.remote
         /\ LogProposal(s, p).out = s.out /\ LogProposal(s, p).id = s.id
         /\ p.ballot.num <= s.prepared.num => LogProposal(s, p).prepared = s.prepared
<1> DEFINE log == Append(s.log, p)
           t == [s EXCEPT !.log = log, !.accepted = p]
           v == Postponed([t EXCEPT !.prepared = p.ballot])
           u == LogProposal(s, p)
<1>0. p.ballot.num \in Nat /\ s.prepared.num \in Nat
  BY PreparedNum, ProposalFields, BallotFields
<1>1. u = IF p.ballot.num > s.prepared.num THEN v ELSE t
  BY DEF LogProposal
<1> HIDE DEF log
<1>2. /\ t.id = s.id /\ t.prepared = s.prepared /\ t.out = s.out /\ t.state = s.state
      /\ t.accepted = p /\ t.remote = s.remote
  BY DEF NodeState
<1>3. /\ v.id = s.id /\ v.prepared = p.ballot /\ v.out = s.out /\ v.state = s.state
      /\ v.accepted = p /\ v.remote = s.remote
  BY DEF Postponed, NodeState
<1> HIDE DEF t, v, u
<1>4. /\ Mild(s, u) /\ u.state = s.state /\ u.accepted = p /\ u.remote = s.remote
      /\ u.out = s.out /\ u.id = s.id /\ (p.ballot.num <= s.prepared.num => u.prepared = s.prepared)
  <2>1. CASE p.ballot.num > s.prepared.num
    BY <1>0, <1>1, <1>3, <2>1 DEF Mild
  <2>2. CASE ~(p.ballot.num > s.prepared.num)
    BY <1>0, <1>1, <1>2, <2>2 DEF Mild
  <2> QED
    BY <2>1, <2>2
<1> QED
  BY <1>4 DEF u

LEMMA MildHeard ==
  ASSUME NEW s \in NodeState, NEW m, NEW b
  PROVE  Mild(s, Heard(s, m, b)) /\ (s.state # Preparing => Calm(s, Heard(s, m, b)))
<1> DEFINE t == Heard(s, m, b)
<1>1. t.id = s.id /\ t.prepared = s.prepared /\ t.out = s.out /\ t.state = s.state
      /\ t.accepted = s.accepted
  BY DEF Heard, NodeState
<1> HIDE DEF t
<1>2. Mild(s, t) /\ (s.state # Preparing => Calm(s, t))
  BY <1>1, MildSame, CalmSame
<1> QED
  BY <1>2 DEF t

LEMMA MildExecute ==
  ASSUME NEW s \in NodeState, NEW p
  PROVE  /\ Mild(s, Execute(s, p)) /\ Execute(s, p).id = s.id
         /\ Execute(s, p).prepared = s.prepared /\ Execute(s, p).out = s.out
         /\ Execute(s, p).state = s.state /\ Execute(s, p).accepted = s.accepted
<1> DEFINE t == Execute(s, p)
<1>1. t.id = s.id /\ t.prepared = s.prepared /\ t.out = s.out /\ t.state = s.state
      /\ t.accepted = s.accepted
  BY DEF Execute, NodeState
<1> HIDE DEF t
<1>2. Mild(s, t)
  BY <1>1, MildSame
<1> QED
  BY <1>1, <1>2 DEF t

-----------------------------------------------------------------------------
(* The calm handlers *)

LEMMA StatusRequestCalm ==
  ASSUME NEW s \in NodeState, NEW m PROVE Calm(s, AfterStatusRequest(s, m))
<1> DEFINE x == [Msg("StatusResp", s, m.from) EXCEPT !.ballot = s.accepted.ballot,
                                                     !.decree = s.accepted.decree]
<1>1. Quiet(x)
  BY DEF Msg, Quiet
<1>2. AfterStatusRequest(s, m) = Send(s, x)
  BY DEF AfterStatusRequest
<1> HIDE DEF x
<1> QED
  BY <1>1, <1>2, MildSend

\* Unless the node, which then initializes, prepares.
LEMMA StatusResponseCalm ==
  ASSUME NEW s, Sound(s), NEW m \in Message, NEW u \in AfterStatusResponse(s, m)
  PROVE  \/ Calm(s, u)
         \/ \E t : Sound(t) /\ t.state = Initializing /\ Mild(s, t) /\ u = Prepare(t)
<1> DEFINE t == Heard(s, m, m.ballot)
           e == IF t.election = Unset THEN Finite ELSE t.election
           v == [t EXCEPT !.election = e]
<1>1. s \in NodeState /\ Sound(t) /\ t \in NodeState /\ t.state = s.state /\ Mild(s, t)
  BY MessageFields, HeardSound, HeardKeeps, MildHeard DEF Sound
<1>2. \/ u \in {s, LearnVotes(s, m.from)}
      \/ s.state = Initializing /\ u = t
      \/ s.state = Initializing /\ \E r \in t.remote : u = LearnVotes(t, r.node)
      \/ s.state = Initializing /\ u \in {Prepare(v), Stabilize(v, StableSecondary)}
  BY DEF AfterStatusResponse, Ahead, Newer, ElectOrFollow
<1>3. s.state = Initializing => Calm(s, t) /\ Initializing # Preparing
  BY <1>1, MildHeard DEF Initializing, Preparing
<1> HIDE DEF t
<1>4. CASE u \in {s, LearnVotes(s, m.from)}
  BY <1>1, <1>4, CalmUnchanged, CalmLearnVotes
<1>5. CASE s.state = Initializing /\ \E r \in t.remote : u = LearnVotes(t, r.node)
  <2>1. PICK r \in t.remote : u = LearnVotes(t, r.node)
    BY <1>5
  <2>2. r.node \in Node
    BY <1>1, StateFields
  <2>3. Calm(t, u) /\ u \in NodeState
    BY <1>1, <2>1, <2>2, CalmLearnVotes, LearnVotesSound DEF Sound
  <2>4. Mild(s, u)
    BY <1>1, <2>3, MildTransitive DEF Calm
  <2> QED
    BY <1>1, <1>5, <2>3, <2>4 DEF Calm, Initializing, Preparing, StablePrimary
<1>6. t.election \in {Unset, Finite, Overflowed} /\ t.election # Overflowed
  BY <1>1, StateFields DEF Sound
<1>7. Sound(v) /\ v \in NodeState /\ v.state = t.state /\ Mild(s, v)
  <2>1. e = Finite
    BY <1>6
  <2> HIDE DEF e
  <2>2. Sound(v) /\ v \in NodeState /\ v.state = t.state
    BY <1>1, <2>1 DEF Sound, NodeState, Finite, Overflowed, Unset
  <2>3. v.id = t.id /\ v.prepared = t.prepared /\ v.out = t.out
    BY <1>1 DEF NodeState
  <2> HIDE DEF v
  <2> QED
    BY <1>1, <2>2, <2>3 DEF Mild
<1> HIDE DEF v
<1>8. CASE s.state = Initializing /\ u \in {Prepare(v), Stabilize(v, StableSecondary)}
  BY <1>1, <1>7, <1>8, MildStabilize
<1> QED
  BY <1>2, <1>3, <1>4, <1>5, <1>8

LEMMA AcceptCalm ==
  ASSUME NEW s, Sound(s), s.election = Finite, NEW m \in Message PROVE Calm(s, Accept(s, m))
<1> DEFINE e == Execute(s, s.accepted)
           f == [e EXCEPT !.election = Finite]
           t == IF m.decree = s.accepted.decree + 1 THEN f ELSE s
           p == Proposal(m.ballot, m.decree, m.command)
           u == LogProposal(t, p)
           x == [Msg("AcceptResp", s, m.from) EXCEPT
                   !.accept = TRUE, !.ballot = m.ballot, !.decree = m.decree]
           v == Send(u, x)
<1>1. p \in Proposals
  BY MessageFields DEF Proposal, Proposals
<1>2. Quiet(x) /\ x \in Message
  <2>1. x \in Message
    BY MessageFields, NewMessageTo, SetMessage DEF Sound
  <2> QED
    BY <2>1 DEF Msg, Quiet
<1>3. Accept(s, m) = Stabilize(v, StableSecondary)
  BY DEF Accept
<1> HIDE DEF p, x
<1>4. s \in NodeState /\ Sound(e) /\ e \in NodeState /\ Mild(s, e)
  BY StateFields, ExecuteSound, MildExecute DEF Sound
<1> HIDE DEF e
<1>5. Sound(f) /\ f.election = Finite /\ Mild(s, f)
  <2>1. Sound(f) /\ f.election = Finite /\ f.id = e.id /\ f.prepared = e.prepared /\ f.out = e.out
    BY <1>4 DEF Sound, NodeState, Finite, Overflowed
  <2> HIDE DEF f
  <2> QED
    BY <1>4, <2>1 DEF Mild
<1> HIDE DEF f
<1>6. Sound(t) /\ t.election = Finite /\ Mild(s, t)
  BY <1>4, <1>5, CalmUnchanged DEF Calm
<1> HIDE DEF t
<1>7. Sound(u) /\ Mild(t, u)
  BY <1>1, <1>6, LogProposalSound, MildLogProposal DEF Sound
<1> HIDE DEF u
<1>8. Sound(v) /\ Mild(u, v)
  BY <1>2, <1>7, SendSound, MildSend DEF Sound
<1> HIDE DEF v
<1>9. Mild(s, v)
  BY <1>4, <1>6, <1>7, <1>8, MildTransitive DEF Sound
<1> QED
  BY <1>3, <1>4, <1>8, <1>9, MildStabilize DEF Sound

LEMMA CacheCalm ==
  ASSUME NEW s \in NodeState, NEW m PROVE Calm(s, Cache(s, m))
<1>1. PICK one, kept : Cache(s, m) \in {[s EXCEPT !.proposalQ = one], Refuse(s, m, "AcceptResp"), s,
                                        [s EXCEPT !.proposalQ = kept]}
  BY DEF Cache
<1>2. ASSUME NEW q PROVE Calm(s, [s EXCEPT !.proposalQ = q])
  <2> DEFINE t == [s EXCEPT !.proposalQ = q]
  <2>1. t.id = s.id /\ t.prepared = s.prepared /\ t.out = s.out /\ t.state = s.state
        /\ t.remote = s.remote /\ t.accepted = s.accepted
    BY DEF NodeState
  <2> HIDE DEF t
  <2>2. Calm(s, t)
    BY <2>1, CalmSame
  <2> QED
    BY <2>2 DEF t
<1> QED
  BY <1>1, <1>2, CalmRefuse, CalmUnchanged

LEMMA AcceptRequestCalm ==
  ASSUME NEW s, Sound(s), s.state # Inactive, NEW m \in Message
  PROVE  Calm(s, AfterAcceptRequest(s, m))
<1>1. \/ AfterAcceptRequest(s, m) \in {s, Cache(s, m), Refuse(s, m, "AcceptResp"), Initialize(s)}
      \/ (s.state # Initializing /\ AfterAcceptRequest(s, m) = Accept(s, m))
  BY DEF AfterAcceptRequest
<1>2. s \in NodeState /\ Calm(s, s) /\ (s.state # Initializing => s.election = Finite)
  BY CalmUnchanged DEF Sound
<1> QED
  BY <1>1, <1>2, AcceptCalm, CacheCalm, CalmRefuse, MildInitialize DEF Calm

LEMMA NotAcceptCalm ==
  ASSUME NEW s, Sound(s), s.state # Inactive, NEW m \in Message
  PROVE  Calm(s, AfterNotAccept(s, m))
<1> DEFINE t == Postponed([s EXCEPT !.prepared = m.ballot])
<1>1. s \in NodeState /\ Calm(s, s) /\ Mild(s, s)
  BY CalmUnchanged DEF Sound, Calm
<1>2. \/ AfterNotAccept(s, m) \in {s, Initialize(s)}
      \/ /\ s.state # Initializing /\ m.ballot.num > s.prepared.num
         /\ AfterNotAccept(s, m) = Stabilize(t, StableSecondary)
  BY DEF AfterNotAccept
<1>3. s.state # Initializing /\ m.ballot.num > s.prepared.num => t \in NodeState /\ Mild(s, t)
  BY <1>1, MessageFields, PostponedSound, MildPostponed DEF Sound
<1> HIDE DEF t
<1> QED
  BY <1>1, <1>2, <1>3, MildStabilize, MildInitialize

LEMMA AcceptResponseCalm ==
  ASSUME NEW s, Sound(s), NEW m \in Message PROVE Calm(s, AfterAcceptResponse(s, m))
<1> DEFINE t == Heard(s, m, m.ballot)
           e == Execute(t, s.accepted)
           u == [e EXCEPT !.ready = TRUE]
<1>1. s \in NodeState /\ t \in NodeState /\ t.accepted = s.accepted /\ t.state = s.state
      /\ t.prepared = s.prepared /\ t.id = s.id /\ t.out = s.out
  <2>1. Sound(t)
    BY MessageFields, HeardSound
  <2> QED
    BY <2>1 DEF Sound, Heard, NodeState
<1>2. AfterAcceptResponse(s, m) = s \/ (AfterAcceptResponse(s, m) \in {t, u} /\ s.state # Preparing)
  BY DEF AfterAcceptResponse, Counts, StablePrimary, StableSecondary, Preparing
<1> HIDE DEF t
<1>3. u.accepted = t.accepted /\ u.state = t.state /\ u.prepared = t.prepared /\ u.id = t.id
      /\ u.out = t.out
  <2>1. e.accepted = t.accepted /\ e.state = t.state /\ e.prepared = t.prepared /\ e.id = t.id
        /\ e.out = t.out /\ e \in NodeState
    <3>1. Sound(t)
      BY MessageFields, HeardSound DEF t
    <3> QED
      BY <1>1, <3>1, MildExecute, StateFields, ExecuteSound DEF Sound
  <2> HIDE DEF e
  <2> QED
    BY <2>1 DEF NodeState
<1> HIDE DEF u
<1>4. s.state # Preparing => Calm(s, t) /\ Calm(s, u)
  BY <1>1, <1>3, CalmSame
<1> QED
  BY <1>1, <1>2, <1>4, CalmUnchanged

LEMMA FetchRequestCalm ==
  ASSUME NEW s, Sound(s), Orderly(s), NEW m \in Message PROVE Calm(s, AfterFetchRequest(s, m))
<1>1. PICK x : AfterFetchRequest(s, m) = Send(s, x) /\ x.type = "FetchResp"
  BY FetchRequestTold
<1> QED
  BY <1>1, MildSend DEF Quiet, Sound

LEMMA FetchResponseCalm ==
  ASSUME NEW s, Sound(s), NEW m \in Message,
         m.proposals = <<>> \/ m.proposals[1].decree <= s.accepted.decree
  PROVE  Calm(s, AfterFetchResponse(s, m))
<1>1. ASSUME NEW t \in NodeState, Calm(s, t) PROVE Calm(s, [t EXCEPT !.learningFrom = Nobody])
  <2> DEFINE u == [t EXCEPT !.learningFrom = Nobody]
  <2>1. u.id = t.id /\ u.prepared = t.prepared /\ u.out = t.out /\ u.state = t.state
        /\ u.remote = t.remote /\ u.accepted = t.accepted
    BY <1>1 DEF NodeState
  <2> HIDE DEF u
  <2>2. Calm(s, u)
    BY <1>1, <2>1 DEF Calm, Mild
  <2> QED
    BY <2>2 DEF u
<1>2. s \in NodeState /\ Calm(s, s) /\ Initialize(s) \in NodeState /\ Calm(s, Initialize(s))
  BY CalmUnchanged, MildInitialize, InitializeSound DEF Sound, Calm
<1> QED
  BY <1>1, <1>2, FetchResponseUnused

LEMMA RepeatCalm ==
  ASSUME NEW s \in NodeState PROVE Calm(s, Repeat(s))
<1> DEFINE t == [s EXCEPT !.remote = {}]
           m == Request(s, s.accepted)
           u == Broadcast(t, m)
<1>1. t \in NodeState /\ t.id = s.id /\ t.prepared = s.prepared /\ t.out = s.out
      /\ t.state = s.state /\ t.remote = {} /\ t.accepted = s.accepted
  BY DEF NodeState
<1>2. \A n \in Node : Quiet([m EXCEPT !.to = n])
  BY DEF Request, Msg, Quiet
<1>3. Repeat(s) = u
  BY DEF Repeat
<1> HIDE DEF t, m
<1>4. Calm(t, u)
  BY <1>1, <1>2, MildBroadcast
<1> HIDE DEF u
<1> QED
  BY <1>1, <1>3, <1>4 DEF Calm, Mild

LEMMA ProposeCalm ==
  ASSUME NEW s, Sound(s), MaySend(s), s.commandQ # <<>> PROVE Calm(s, Propose(s))
<1> DEFINE p == Proposal(s.accepted.ballot, s.accepted.decree + 1, Head(s.commandQ))
           q == Tail(s.commandQ)
           m == Request(s, p)
           t == [s EXCEPT !.remote = {}, !.commandQ = q, !.ready = FALSE]
           u == Broadcast(t, m)
           v == LogProposal(u, p)
<1>1. Head(s.commandQ) \in Commands \ {0} /\ q \in Seq(Commands \ {0})
  BY StateFields, HeadTailProperties DEF Sound
<1>2. p \in Proposals /\ p.ballot = s.accepted.ballot
  BY <1>1, StateFields, ProposalFields DEF Proposal, Proposals, Sound
<1>3. \A n \in Node : Quiet([m EXCEPT !.to = n])
  BY DEF Request, Msg, Quiet
<1>4. Propose(s) = v
  BY DEF Propose
<1> HIDE DEF p, q
<1>5. s \in NodeState /\ Sound(t) /\ t \in NodeState /\ t.id = s.id /\ t.prepared = s.prepared
      /\ t.out = s.out /\ t.state = s.state /\ t.accepted = s.accepted
  BY <1>1 DEF Sound, NodeState
<1>6. u \in NodeState
  BY <1>2, <1>5, RequestSound DEF Sound
<1> HIDE DEF t, m
<1>7. Calm(t, u) /\ u.state = t.state
  BY <1>3, <1>5, MildBroadcast, BroadcastKeeps
<1> HIDE DEF u
<1>8. Mild(u, v) /\ v.state = u.state /\ v.accepted = p /\ v.out = u.out /\ v.id = u.id
  BY <1>2, <1>6, MildLogProposal
<1>9. v \in NodeState
  <2>1. Sound(Propose(s))
    BY ProposeSound
  <2> QED
    BY <1>4, <2>1 DEF Sound
<1> HIDE DEF v
<1>10. Mild(t, v)
  BY <1>5, <1>6, <1>7, <1>8, <1>9, MildTransitive DEF Calm
<1>11. Mild(s, v)
  BY <1>5, <1>10 DEF Mild
<1> QED
  BY <1>2, <1>4, <1>5, <1>7, <1>8, <1>11 DEF Calm, MaySend, StablePrimary, Preparing

-----------------------------------------------------------------------------
(* What has been promised, a history *)

\* Node by has promised ballot num to node to.
Promised(by, num, to) == [by |-> by, num |-> num, to |-> to]
Given == [by : Node, num : Nat, to : Node \union {Nobody}]

With(V, by, num, to) == V \cup {Promised(by, num, to)}

\* A node promises a ballot number once.
Once(V) == \A v, w \in V : v.by = w.by /\ v.num = w.num => v = w

PromisedTo(V, num, n) == {q \in Node : Promised(q, num, n) \in V}

\* What the promises say of a node: it has prepared what it has promised,
\* hears of promises that were given, and leads with those of a majority.
Trusts(V, s) ==
  /\ \A v \in V : v.by = s.id => v.num <= s.prepared.num
  /\ s.state = Preparing =>
       /\ s.prepared.node = s.id /\ Promised(s.id, s.prepared.num, s.id) \in V
       /\ \A r \in s.remote : r.node # s.id /\ Promised(r.node, s.prepared.num, s.id) \in V
  /\ s.state = StablePrimary => IsMajority(Cardinality(PromisedTo(V, s.accepted.ballot.num, s.id)))

\* What they say of a message.
Carries(V, x) ==
  /\ x.type = "PrepareReq" => x.from # x.to
  /\ x.type = "PrepareResp" /\ x.accept =>
       x.from # x.to /\ Promised(x.from, x.ballot.num, x.ballot.node) \in V

\* A step of a node from s to t that makes the promises V those of W.
Keeps(V, W, s, t) ==
  /\ V \subseteq W /\ W \subseteq Given /\ Once(W)
  /\ \A v \in W \ V : v.by = s.id
  /\ Trusts(W, t)
  /\ \A x \in t.out : Carries(W, x)

LEMMA CarriesMore ==
  ASSUME NEW V, NEW W, V \subseteq W, NEW x, Carries(V, x) PROVE Carries(W, x)
  BY DEF Carries

LEMMA CarriesQuiet ==
  ASSUME NEW V, NEW x, Quiet(x) PROVE Carries(V, x)
  BY DEF Carries, Quiet

LEMMA NodesFinite == IsFiniteSet(Node) /\ Cardinality(Node) \in Nat
  BY RSLAssumption, FS_CardinalityType

LEMMA PromisedFinite ==
  ASSUME NEW V, NEW num, NEW n
  PROVE  /\ PromisedTo(V, num, n) \subseteq Node /\ IsFiniteSet(PromisedTo(V, num, n))
         /\ Cardinality(PromisedTo(V, num, n)) \in Nat
<1>1. PromisedTo(V, num, n) \in SUBSET Node
  BY DEF PromisedTo
<1> QED
  BY <1>1, NodesFinite, FS_Subset, FS_CardinalityType

LEMMA MajorityMore ==
  ASSUME NEW a \in Nat, NEW b \in Nat, a <= b, IsMajority(a) PROVE IsMajority(b)
  BY NodesFinite DEF IsMajority

\* A majority has promised a ballot number to one node.
LEMMA MajoritiesAgree ==
  ASSUME NEW V, Once(V), NEW num, NEW n, NEW m,
         IsMajority(Cardinality(PromisedTo(V, num, n))),
         IsMajority(Cardinality(PromisedTo(V, num, m)))
  PROVE  n = m
<1> DEFINE S == PromisedTo(V, num, n)
           T == PromisedTo(V, num, m)
<1>1. /\ S \subseteq Node /\ Cardinality(S) \in Nat /\ IsMajority(Cardinality(S))
      /\ T \subseteq Node /\ Cardinality(T) \in Nat /\ IsMajority(Cardinality(T))
  BY PromisedFinite
<1> HIDE DEF S, T
<1>2. Cardinality(S) + Cardinality(T) > Cardinality(Node)
  BY <1>1, NodesFinite DEF IsMajority
<1>3. PICK q \in Node : q \in S /\ q \in T
  BY <1>1, <1>2, NodesFinite, FS_MajoritiesIntersect
<1>4. Promised(q, num, n) \in V /\ Promised(q, num, m) \in V
  BY <1>3 DEF S, T, PromisedTo
<1>5. Promised(q, num, n) = Promised(q, num, m)
  BY <1>4 DEF Once, Promised
<1> QED
  BY <1>5 DEF Promised

\* The promises of the others change nothing for a node.
LEMMA TrustsMore ==
  ASSUME NEW V, NEW W, V \subseteq W, NEW s, Trusts(V, s), \A v \in W \ V : v.by # s.id
  PROVE  Trusts(W, s)
<1>1. \A v \in W : v.by = s.id => v.num <= s.prepared.num
  BY DEF Trusts
<1>2. ASSUME s.state = StablePrimary
      PROVE  IsMajority(Cardinality(PromisedTo(W, s.accepted.ballot.num, s.id)))
  <2> DEFINE num == s.accepted.ballot.num
             S == PromisedTo(V, num, s.id)
             T == PromisedTo(W, num, s.id)
  <2>1. S \subseteq T
    BY DEF PromisedTo
  <2>2. IsMajority(Cardinality(S))
    BY <1>2 DEF Trusts
  <2>3. IsFiniteSet(T) /\ Cardinality(S) \in Nat /\ Cardinality(T) \in Nat
    BY PromisedFinite
  <2> HIDE DEF S, T
  <2>4. Cardinality(S) <= Cardinality(T)
    BY <2>1, <2>3, FS_Subset
  <2> QED
    BY <2>2, <2>3, <2>4, MajorityMore DEF T
<1> QED
  BY <1>1, <1>2 DEF Trusts

LEMMA CalmKeeps ==
  ASSUME NEW V \in SUBSET Given, Once(V), NEW s \in NodeState, NEW t \in NodeState,
         Trusts(V, s), \A x \in s.out : Carries(V, x), Calm(s, t)
  PROVE  Keeps(V, V, s, t)
<1>1. \A v \in V : v.num \in Nat
  BY DEF Given
<1>2. t.id = s.id /\ t.prepared.num >= s.prepared.num
      /\ s.prepared.num \in Nat /\ t.prepared.num \in Nat
  BY PreparedNum DEF Calm, Mild
<1>3. \A v \in V : v.by = t.id => v.num <= t.prepared.num
  BY <1>1, <1>2 DEF Trusts
<1>4. Trusts(V, t)
  BY <1>2, <1>3 DEF Trusts, Calm
<1>5. \A x \in t.out : Carries(V, x)
  BY CarriesQuiet DEF Calm, Mild
<1> QED
  BY <1>4, <1>5 DEF Keeps

\* A promise of a ballot above the one the node has prepared.
LEMMA OneMore ==
  ASSUME NEW V \in SUBSET Given, Once(V), NEW s \in NodeState, Trusts(V, s),
         NEW num \in Nat, num > s.prepared.num, NEW to \in Node \union {Nobody}
  PROVE  /\ V \subseteq With(V, s.id, num, to) /\ With(V, s.id, num, to) \subseteq Given
         /\ Once(With(V, s.id, num, to))
         /\ \A v \in With(V, s.id, num, to) \ V : v.by = s.id
         /\ \A v \in With(V, s.id, num, to) : v.by = s.id => v.num <= num
<1> DEFINE p == Promised(s.id, num, to)
           W == With(V, s.id, num, to)
<1>1. p \in Given /\ p.by = s.id /\ p.num = num
  BY StateFields DEF Given, Promised
<1>2. \A v \in V : v.num \in Nat
  BY DEF Given
<1>3. \A v \in V : v.by = s.id => v.num < num
  BY <1>2, PreparedNum DEF Trusts
<1>4. W = V \cup {p}
  BY DEF With
<1> HIDE DEF p, W
<1>5. Once(W)
  <2> SUFFICES ASSUME NEW v \in W, NEW w \in W, v.by = w.by, v.num = w.num PROVE v = w
    BY DEF Once
  <2>1. CASE v \in V /\ w \in V
    BY <2>1 DEF Once
  <2>2. CASE v = p /\ w \in V
    BY <1>1, <1>2, <1>3, <2>2
  <2>3. CASE w = p /\ v \in V
    BY <1>1, <1>2, <1>3, <2>3
  <2> QED
    BY <1>4, <2>1, <2>2, <2>3
<1>6. /\ V \subseteq W /\ W \subseteq Given
      /\ \A v \in W \ V : v.by = s.id
      /\ \A v \in W : v.by = s.id => v.num <= num
  BY <1>1, <1>2, <1>3, <1>4
<1> QED
  BY <1>5, <1>6 DEF W

-----------------------------------------------------------------------------
(* The handlers that promise, hear of promises and are elected *)

\* A node promises itself the ballot it prepares, unless it prepares again.
LEMMA PrepareKeeps ==
  ASSUME NEW V \in SUBSET Given, Once(V), NEW s, Sound(s), s.state \in {Initializing, Preparing},
         Trusts(V, s), \A x \in s.out : Carries(V, x)
  PROVE  \E W : Keeps(V, W, s, Prepare(s))
<1> DEFINE b == IF s.state = Initializing
                THEN [num |-> s.prepared.num + 1, node |-> s.id] ELSE s.prepared
           e == IF s.state = Initializing THEN Finite ELSE s.election
           m == [Msg("PrepareReq", s, Nobody) EXCEPT !.ballot = b, !.decree = s.accepted.decree]
           sent == {[m EXCEPT !.to = n] : n \in Node \ {s.id}}
           out == s.out \cup sent
           t == [s EXCEPT !.state = Preparing, !.prepared = b, !.remote = {},
                          !.freshest = s.accepted, !.election = e, !.out = out]
           W == With(V, s.id, b.num, s.id)
<1>0. s \in NodeState /\ s.prepared.num \in Nat /\ s.id \in Node
  BY StateFields, PreparedNum DEF Sound
<1>1. \A x \in sent : x.from # x.to /\ x.type = "PrepareReq"
  BY DEF Msg
<1>2. b.node = s.id
  BY DEF Trusts
<1>3. /\ V \subseteq W /\ W \subseteq Given /\ Once(W) /\ \A v \in W \ V : v.by = s.id
      /\ \A v \in W : v.by = s.id => v.num <= b.num
  <2>1. CASE s.state = Initializing
    <3>1. b.num = s.prepared.num + 1
      BY <2>1
    <3> HIDE DEF b
    <3>2. b.num \in Nat /\ b.num > s.prepared.num /\ s.id \in Node \union {Nobody}
      BY <1>0, <3>1
    <3> QED
      BY <1>0, <3>2, OneMore
  <2>2. CASE s.state # Initializing
    <3>1. b = s.prepared /\ s.state = Preparing
      BY <2>2
    <3>2. Promised(s.id, b.num, s.id) \in V
      BY <3>1 DEF Trusts
    <3> HIDE DEF b
    <3>3. W = V
      BY <3>2 DEF With
    <3> QED
      BY <3>1, <3>3 DEF Trusts
  <2> QED
    BY <2>1, <2>2
<1> HIDE DEF b, e
<1>4. Prepare(s) = t
  BY <1>0 DEF Prepare, Broadcast, NodeState, b, e
<1> HIDE DEF m, sent
<1>5. \A x \in out : Carries(W, x)
  <2>1. \A x \in s.out : Carries(W, x)
    BY <1>3, CarriesMore
  <2> QED
    BY <1>1, <2>1 DEF Carries
<1> HIDE DEF out
<1>6. t.id = s.id /\ t.state = Preparing /\ t.prepared = b /\ t.remote = {} /\ t.out = out
  BY <1>0 DEF NodeState
<1>7. Promised(s.id, b.num, s.id) \in W
  BY DEF With
<1> HIDE DEF t, W
<1>8. Trusts(W, t)
  BY <1>2, <1>3, <1>6, <1>7 DEF Trusts, Preparing, StablePrimary
<1> QED
  BY <1>3, <1>4, <1>5, <1>6, <1>8 DEF Keeps

LEMMA StatusResponseKeeps ==
  ASSUME NEW V \in SUBSET Given, Once(V), NEW s, Sound(s), Trusts(V, s),
         \A x \in s.out : Carries(V, x), NEW m \in Message, NEW u \in AfterStatusResponse(s, m),
         u \in NodeState
  PROVE  \E W : Keeps(V, W, s, u)
<1>1. CASE Calm(s, u)
  BY <1>1, CalmKeeps DEF Sound
<1>2. ASSUME NEW t, Sound(t), t.state = Initializing, Mild(s, t), u = Prepare(t)
      PROVE  \E W : Keeps(V, W, s, u)
  <2>1. s \in NodeState /\ t \in NodeState /\ Calm(s, t)
    BY <1>2 DEF Sound, Calm, Initializing, Preparing, StablePrimary
  <2>2. Keeps(V, V, s, t) /\ t.id = s.id
    BY <2>1, CalmKeeps DEF Calm, Mild
  <2>3. PICK W : Keeps(V, W, t, u)
    BY <1>2, <2>2, PrepareKeeps DEF Keeps
  <2> QED
    BY <2>2, <2>3 DEF Keeps
<1> QED
  BY <1>1, <1>2, StatusResponseCalm

LEMMA PrepareRequestKeeps ==
  ASSUME NEW V \in SUBSET Given, Once(V), NEW s, Sound(s), s.state # Inactive, Trusts(V, s),
         \A x \in s.out : Carries(V, x), NEW m \in Message, m.type = "PrepareReq",
         Carries(V, m), m.to = s.id
  PROVE  \E W : Keeps(V, W, s, AfterPrepareRequest(s, m))
<1> DEFINE x == [Msg("PrepareResp", s, m.from) EXCEPT
                   !.accept = TRUE, !.ballot = m.ballot,
                   !.proposalBallot = s.accepted.ballot,
                   !.decree = s.accepted.decree, !.command = s.accepted.command]
           w == Postponed([s EXCEPT !.prepared = m.ballot])
           t == IF Promises(s, m) THEN Send(w, x) ELSE s
           u == AfterPrepareRequest(s, m)
           W == With(V, s.id, m.ballot.num, m.ballot.node)
<1>1. /\ s \in NodeState /\ m.ballot \in Ballots /\ m.ballot.num \in Nat
      /\ m.ballot.node \in Node \union {Nobody}
  BY MessageFields, BallotFields DEF Sound
<1>2. \/ u \in {s, Refuse(s, m, "PrepareResp")}
      \/ s.state # Initializing /\ u \in {Initialize(t), Stabilize(t, StableSecondary)}
  BY DEF AfterPrepareRequest
<1>3. u \in NodeState
  BY PrepareRequestSound DEF Sound
<1>4. x.type = "PrepareResp" /\ x.from = s.id /\ x.to = m.from /\ x.ballot = m.ballot
      /\ x \in Message
  <2>1. Msg("PrepareResp", s, m.from) \in Message
    BY <1>1, MessageFields, NewMessageTo
  <2>2. /\ s.accepted.ballot \in Ballots /\ s.accepted.decree \in Nat
        /\ s.accepted.command \in Commands
    BY <1>1, StateFields, ProposalFields
  <2>3. x \in Message
    BY <1>1, <2>1, <2>2 DEF Message
  <2> QED
    BY <2>3 DEF Msg
<1> HIDE DEF x, u
<1>5. CASE u \in {s, Refuse(s, m, "PrepareResp")}
  <2>1. Calm(s, u)
    BY <1>1, <1>5, CalmUnchanged, CalmRefuse
  <2> QED
    BY <1>1, <1>3, <2>1, CalmKeeps DEF u
<1>6. CASE /\ s.state # Initializing /\ u \in {Initialize(t), Stabilize(t, StableSecondary)}
           /\ ~Promises(s, m)
  <2>1. t = s
    BY <1>6
  <2>2. Calm(s, u)
    BY <1>1, <1>6, <2>1, CalmUnchanged, MildInitialize, MildStabilize DEF Calm
  <2> QED
    BY <1>1, <1>3, <2>2, CalmKeeps DEF u
<1>7. CASE /\ s.state # Initializing /\ u \in {Initialize(t), Stabilize(t, StableSecondary)}
           /\ Promises(s, m)
  <2>1. m.ballot.num > s.prepared.num /\ s.election = Finite /\ t = Send(w, x)
    BY <1>7 DEF Promises, Sound
  <2>2. /\ V \subseteq W /\ W \subseteq Given /\ Once(W) /\ \A v \in W \ V : v.by = s.id
        /\ \A v \in W : v.by = s.id => v.num <= m.ballot.num
    BY <1>1, <2>1, OneMore
  <2>3. /\ w.id = s.id /\ w.out = s.out /\ w.prepared = m.ballot
    BY <1>1 DEF Postponed, NodeState
  <2>4. w \in NodeState
    BY <1>1, <2>1, PostponedSound DEF Sound
  <2>5. Promised(x.from, x.ballot.num, x.ballot.node) \in W
    BY <1>4 DEF With
  <2> HIDE DEF w, W
  <2>6. t \in NodeState /\ t.id = s.id /\ t.out = s.out \cup {x} /\ t.prepared = m.ballot
    <3>1. t = [w EXCEPT !.out = w.out \cup {x}]
      BY <2>1 DEF Send
    <3> HIDE DEF t
    <3> QED
      BY <1>4, <2>3, <2>4, <3>1 DEF NodeState
  <2> HIDE DEF t
  <2>7. Calm(t, u)
    BY <1>7, <2>6, CalmUnchanged, MildInitialize, MildStabilize DEF Calm
  <2>8. u.state \notin {Preparing, StablePrimary}
    <3>1. Initialize(t).state = Initializing
      BY <2>6, AlikeInitialize
    <3>2. Stabilize(t, StableSecondary).state = StableSecondary
      BY <2>6, AlikeStabilize
    <3> QED
      BY <1>7, <3>1, <3>2 DEF Initializing, StableSecondary, Preparing, StablePrimary
  <2>9. \A v \in W : v.by = u.id => v.num <= u.prepared.num
    <3>1. u.id = s.id /\ u.prepared.num >= m.ballot.num /\ u.prepared.num \in Nat
      BY <1>3, <2>6, <2>7, PreparedNum DEF Calm, Mild
    <3>2. \A v \in W : v.num \in Nat
      BY <2>2 DEF Given
    <3> QED
      BY <1>1, <2>2, <3>1, <3>2
  <2>10. Trusts(W, u)
    BY <2>8, <2>9 DEF Trusts
  <2>11. \A y \in u.out : Carries(W, y)
    <3>1. Carries(W, x)
      <4>1. x.from # x.to
        BY <1>4 DEF Carries
      <4> QED
        BY <1>4, <2>5, <4>1 DEF Carries
    <3>2. \A y \in u.out : y \in s.out \/ y = x \/ Quiet(y)
      BY <2>6, <2>7 DEF Calm, Mild
    <3> QED
      BY <2>2, <3>1, <3>2, CarriesMore, CarriesQuiet
  <2>12. Keeps(V, W, s, u)
    BY <2>2, <2>10, <2>11 DEF Keeps
  <2> QED
    BY <2>12 DEF u
<1> QED
  BY <1>2, <1>5, <1>6, <1>7

\* The answers a preparing node has heard are of promises to it.
LEMMA HeardMajority ==
  ASSUME NEW V \in SUBSET Given, NEW s, Sound(s), NEW num, NEW n \in Node, Promised(n, num, n) \in V,
         \A r \in s.remote : r.node # n /\ Promised(r.node, num, n) \in V,
         IsMajority(Cardinality(s.remote) + 1)
  PROVE  IsMajority(Cardinality(PromisedTo(V, num, n)))
<1> DEFINE T == PromisedTo(V, num, n)
           U == T \ {n}
           f == [r \in s.remote |-> r.node]
<1>1. IsFiniteSet(T) /\ Cardinality(T) \in Nat /\ n \in T
  BY PromisedFinite DEF PromisedTo
<1>2. \A r \in s.remote : r.node \in U
  BY StateFields DEF PromisedTo, Sound
<1> HIDE DEF T
<1>3. IsFiniteSet(U) /\ Cardinality(U) = Cardinality(T) - 1
  BY <1>1, FS_RemoveElement
<1> HIDE DEF U
<1>4. f \in Injection(s.remote, U)
  BY <1>2 DEF Injection, IsInjective, Sound
<1> HIDE DEF f
<1>5. IsFiniteSet(s.remote) /\ Cardinality(s.remote) <= Cardinality(U)
  BY <1>3, <1>4, FS_Injection
<1>6. Cardinality(s.remote) \in Nat /\ Cardinality(U) \in Nat
  BY <1>3, <1>5, FS_CardinalityType
<1>7. Cardinality(s.remote) + 1 <= Cardinality(T) /\ Cardinality(s.remote) + 1 \in Nat
  BY <1>1, <1>3, <1>5, <1>6
<1> QED
  BY <1>1, <1>7, MajorityMore DEF T

LEMMA PrepareResponseKeeps ==
  ASSUME NEW V \in SUBSET Given, Once(V), NEW s, Sound(s), Trusts(V, s),
         \A x \in s.out : Carries(V, x), NEW m \in Message, m.type = "PrepareResp", m.accept,
         Carries(V, m), m.to = s.id
  PROVE  Keeps(V, V, s, AfterPrepareResponse(s, m))
<1> DEFINE f == Freshest(s, m)
           r == [s EXCEPT !.freshest = f]
           t == Heard(r, m, m.proposalBallot)
           p == [t.freshest EXCEPT !.ballot = s.prepared]
           q == [t EXCEPT !.freshest = p]
           c == Request(s, p)
           b == Broadcast(q, c)
           u == LogProposal(b, p)
           v == [u EXCEPT !.ready = FALSE]
           w == Stabilize(v, StablePrimary)
           z == AfterPrepareResponse(s, m)
<1>0. s \in NodeState /\ Sound(z) /\ z \in NodeState
  BY PrepareResponseSound DEF Sound
<1>1. CASE z = s
  BY <1>0, <1>1, CalmUnchanged, CalmKeeps
<1>2. CASE z # s
  <2>1. /\ s.state = Preparing /\ s.prepared.num = m.ballot.num /\ m.ballot.node = s.id
        /\ \/ z = t
           \/ z = w /\ IsMajority(Cardinality(t.remote) + 1)
    BY <1>2 DEF AfterPrepareResponse
  <2>2. f \in Proposals
    <3>1. Proposal(m.proposalBallot, m.decree, m.command) \in Proposals
      BY MessageFields DEF Proposal, Proposals
    <3>2. s.freshest \in Proposals
      BY <1>0, StateFields
    <3> QED
      BY <3>1, <3>2 DEF Freshest
  <2> HIDE DEF f, z
  <2>3. Sound(r) /\ r \in NodeState /\ r.id = s.id /\ r.prepared = s.prepared /\ r.remote = s.remote
        /\ r.out = s.out /\ r.state = s.state /\ r.freshest = f
    BY <1>0, <2>2 DEF Sound, NodeState
  <2> HIDE DEF r
  <2>4. Sound(t) /\ t \in NodeState /\ t.freshest = f
    BY <2>3, MessageFields, HeardSound, HeardKeeps DEF Sound
  <2>5. t.id = s.id /\ t.prepared = s.prepared /\ t.out = s.out /\ t.state = Preparing
    BY <2>1, <2>3 DEF Heard, NodeState
  <2>6. \A x \in t.remote : x \in s.remote \/ x.node = m.from
    BY <2>3 DEF Heard, NodeState
  <2>7. m.from # s.id /\ Promised(m.from, s.prepared.num, s.id) \in V
    BY <2>1 DEF Carries
  <2>8. \A x \in t.remote : x.node # s.id /\ Promised(x.node, s.prepared.num, s.id) \in V
    BY <2>1, <2>6, <2>7 DEF Trusts
  <2> HIDE DEF t
  <2>9. CASE z = t
    <3>1. Trusts(V, t)
      BY <2>1, <2>5, <2>8 DEF Trusts, Preparing, StablePrimary
    <3> QED
      BY <2>5, <2>9, <3>1 DEF Keeps, z
  <2>10. CASE z = w /\ IsMajority(Cardinality(t.remote) + 1)
    <3>1. p \in Proposals /\ p.ballot = s.prepared
      BY <1>0, <2>2, <2>4, StateFields DEF Proposals
    <3> HIDE DEF p
    <3>2. Sound(q) /\ q \in NodeState /\ q.id = s.id /\ q.prepared = s.prepared /\ q.out = s.out
      BY <2>4, <2>5, <3>1 DEF Sound, NodeState
    <3> HIDE DEF q
    <3>3. \A n \in Node : Quiet([c EXCEPT !.to = n])
      BY DEF Request, Msg, Quiet
    <3>4. b \in NodeState
      BY <1>0, <3>1, <3>2, RequestSound DEF Sound
    <3> HIDE DEF c
    <3>5. Mild(q, b) /\ b.prepared = q.prepared
      BY <3>2, <3>3, MildBroadcast, BroadcastKeeps
    <3> HIDE DEF b
    <3>6. s.prepared.num <= s.prepared.num
      BY <1>0, PreparedNum
    <3>7. u.accepted = p /\ u.out = b.out /\ u.id = b.id /\ u.prepared = b.prepared
      BY <3>1, <3>2, <3>4, <3>5, <3>6, MildLogProposal
    <3>8. w.accepted = p /\ w.out = b.out /\ w.id = b.id /\ w.prepared = b.prepared
          /\ w.state = StablePrimary
      <4>1. u \in NodeState
        <5>1. b.election = q.election /\ q.election = Finite
          <6>1. s.election = Finite
            BY <2>1 DEF Sound, Preparing, Initializing, Inactive
          <6> QED
            BY <1>0, <6>1 DEF b, q, t, r, Broadcast, Heard, NodeState
        <5>2. Sound(b)
          BY <1>0, <3>1, <3>2, RequestSound DEF b, c
        <5> QED
          BY <3>1, <5>1, <5>2, LogProposalSound DEF Sound
      <4> HIDE DEF u
      <4> QED
        BY <3>7, <4>1 DEF Stabilize, NodeState
    <3> HIDE DEF u, v, w
    <3>9. IsMajority(Cardinality(PromisedTo(V, s.prepared.num, s.id)))
      <4>1. Promised(s.id, s.prepared.num, s.id) \in V /\ s.id \in Node
        BY <1>0, <2>1, StateFields DEF Trusts
      <4> QED
        BY <2>4, <2>8, <2>10, <4>1, HeardMajority
    <3>10. w.id = s.id /\ w.prepared = s.prepared /\ w.accepted.ballot = s.prepared
      BY <3>1, <3>2, <3>5, <3>8 DEF Mild
    <3>11. Trusts(V, w)
      BY <3>8, <3>9, <3>10 DEF Trusts, StablePrimary, Preparing
    <3>12. \A x \in w.out : Carries(V, x)
      BY <3>2, <3>5, <3>8, CarriesQuiet DEF Mild
    <3> QED
      BY <2>10, <3>11, <3>12 DEF Keeps, z
  <2> QED
    BY <2>1, <2>9, <2>10
<1> QED
  BY <1>1, <1>2

-----------------------------------------------------------------------------
(* The environment and the promises *)

PromisesKept(V) ==
  /\ V \subseteq Given /\ Once(V)
  /\ \A n \in Running : Trusts(V, node[n])
  /\ \A m \in messages : Carries(V, m)

SafeInv == LogInv /\ (~disturbed => \E V : PromisesKept(V))

LEMMA TrustsSame ==
  ASSUME NEW V, NEW s, Trusts(V, s), NEW t, t.id = s.id, t.prepared = s.prepared,
         t.state = s.state, t.remote = s.remote, t.accepted = s.accepted
  PROVE  Trusts(V, t)
  BY DEF Trusts

LEMMA TidyOut ==
  ASSUME Tidy, NEW n \in Node, NEW V, NEW x \in node[n].out PROVE Carries(V, x)
  BY DEF Tidy, Carries

LEMMA CollectedKeeps ==
  ASSUME IInv, Tidy, NEW V, PromisesKept(V), NEW n \in Running, NEW s, s \in NodeState, NEW gone,
         Collected(n, s, gone), NEW W, Keeps(V, W, node[n], s), s.id = n
  PROVE  PromisesKept(W)'
<1> DEFINE of(p) == IF p = n THEN s ELSE node[p]
<1>0. n \in Node /\ node[n].state # Inactive /\ node[n].id = n
  BY DEF Running, Tidy
<1>1. node' = [p \in Node |-> [of(p) EXCEPT !.out = {}]]
  BY DEF Collected
<1>2. ASSUME NEW p \in Running' PROVE Trusts(W, node'[p])
  <2> DEFINE u == [of(p) EXCEPT !.out = {}]
  <2>1. p \in Node /\ node'[p] = u /\ u.state # Inactive
    BY <1>1, <1>2 DEF Running
  <2>2. of(p) \in NodeState
    BY <2>1 DEF IInv, Nodes
  <2>3. Trusts(W, of(p)) \/ of(p).state = Inactive
    <3>1. CASE p = n
      BY <3>1 DEF Keeps
    <3>2. CASE p # n /\ node[p].state # Inactive
      <4>1. Trusts(V, node[p]) /\ of(p) = node[p] /\ node[p].id = p
        BY <2>1, <3>2 DEF PromisesKept, Running, Tidy
      <4>2. \A v \in W \ V : v.by # p
        BY <1>0, <3>2 DEF Keeps
      <4>3. V \subseteq W
        BY DEF Keeps
      <4> HIDE DEF of
      <4> QED
        BY <4>1, <4>2, <4>3, TrustsMore
    <3> QED
      BY <3>1, <3>2
  <2> HIDE DEF of
  <2>4. /\ u.id = of(p).id /\ u.prepared = of(p).prepared /\ u.state = of(p).state
        /\ u.remote = of(p).remote /\ u.accepted = of(p).accepted
    BY <2>2 DEF NodeState
  <2> HIDE DEF u
  <2> QED
    BY <2>1, <2>3, <2>4, TrustsSame
<1>3. ASSUME NEW m \in messages' PROVE Carries(W, m)
  <2> DEFINE sent == s.out \cup UNION {node[p].out : p \in Node \ {n}}
             rest == messages \ gone
  <2>1. \E k : \E kept \in kSubset(k, sent \ rest) : messages' = rest \cup kept
    BY DEF Collected
  <2>2. \E kept \in SUBSET (sent \ rest) : messages' = rest \cup kept
    <3> HIDE DEF sent, rest
    <3> QED
      BY <2>1 DEF kSubset
  <2>3. m \in messages \/ m \in sent
    BY <2>2
  <2>4. CASE m \in messages
    BY <2>4, CarriesMore DEF PromisesKept, Keeps
  <2>5. CASE m \in sent
    BY <2>5, TidyOut DEF Keeps
  <2> QED
    BY <2>3, <2>4, <2>5
<1> QED
  BY <1>2, <1>3 DEF PromisesKept, Keeps

\* What a running node is before its step.
LEMMA RunningNode ==
  ASSUME IInv, Tidy, NEW V, PromisesKept(V), NEW n \in Running
  PROVE  /\ n \in Node /\ Sound(node[n]) /\ node[n] \in NodeState /\ Orderly(node[n])
         /\ Preparer(node[n]) /\ node[n].state # Inactive /\ node[n].id = n
         /\ V \in SUBSET Given /\ Once(V) /\ Trusts(V, node[n])
         /\ \A x \in node[n].out : Carries(V, x)
<1>1. n \in Node /\ node[n].state # Inactive
  BY DEF Running
<1>2. \A x \in node[n].out : Carries(V, x)
  BY <1>1, TidyOut
<1> QED
  BY <1>1, <1>2 DEF IInv, Nodes, Sound, Tidy, PromisesKept

LEMMA StepKept ==
  ASSUME IInv, Tidy, NEW V, PromisesKept(V), NEW n \in Running, NEW s, Sound(s), NEW gone,
         Collected(n, s, gone), \E W : Keeps(V, W, node[n], s), s.id = n
  PROVE  \E W : V \subseteq W /\ PromisesKept(W)'
<1>1. PICK W : Keeps(V, W, node[n], s)
  OBVIOUS
<1>2. s \in NodeState
  BY DEF Sound
<1>3. V \subseteq W /\ PromisesKept(W)'
  BY <1>1, <1>2, CollectedKeeps DEF Keeps
<1> QED
  BY <1>3

LEMMA CalmStepKept ==
  ASSUME IInv, Tidy, NEW V, PromisesKept(V), NEW n \in Running, NEW s, Sound(s), NEW gone,
         Collected(n, s, gone), Calm(node[n], s)
  PROVE  \E W : V \subseteq W /\ PromisesKept(W)'
<1>1. s \in NodeState /\ s.id = n
  BY RunningNode DEF Sound, Calm, Mild
<1>2. Keeps(V, V, node[n], s)
  BY <1>1, RunningNode, CalmKeeps
<1> QED
  BY <1>1, <1>2, StepKept

LEMMA HandleKept ==
  ASSUME IInv, Tidy, NEW V, PromisesKept(V), NEW m \in messages, Handle(m)
  PROVE  \E W : V \subseteq W /\ PromisesKept(W)'
<1> DEFINE n == m.to
           s == node[n]
<1>1. m \in Message /\ Told(m) /\ Carries(V, m)
  BY DEF IInv, Tidy, PromisesKept
<1>2. ASSUME NEW type, NEW t, Deliver(m, type, t), Sound(t), Calm(s, t) PROVE \E W : V \subseteq W /\ PromisesKept(W)'
  BY <1>2, CalmStepKept DEF Deliver
<1>3. ASSUME NEW type, NEW t, Deliver(m, type, t), Sound(t), \E W : Keeps(V, W, s, t), t.id = n
      PROVE  \E W : V \subseteq W /\ PromisesKept(W)'
  BY <1>3, StepKept DEF Deliver
<1>4. ASSUME NEW type, NEW t, Deliver(m, type, t)
      PROVE  n \in Running /\ m.type = type /\ t.prepared.num <= MaxBallot
  BY <1>4 DEF Deliver, Collected
<1>5. ASSUME n \in Running
      PROVE  /\ n \in Node /\ Sound(s) /\ s \in NodeState /\ Orderly(s) /\ Preparer(s)
             /\ s.state # Inactive /\ s.id = n /\ V \in SUBSET Given /\ Once(V) /\ Trusts(V, s)
             /\ \A x \in s.out : Carries(V, x)
  BY <1>5, RunningNode
<1> HIDE DEF s
<1>6. ASSUME NEW t, Well(s, t), n \in Running PROVE t.id = n
  BY <1>5, <1>6 DEF Well, Grows
<1>7. CASE StatusRequest(m)
  BY <1>1, <1>2, <1>4, <1>5, <1>7, StatusRequestSound, StatusRequestCalm DEF StatusRequest, s
<1>8. CASE StatusResponse(m)
  <2>1. PICK u \in AfterStatusResponse(s, m) : Deliver(m, "StatusResp", u)
    BY <1>8 DEF StatusResponse, s
  <2>2. n \in Running /\ u.prepared.num <= MaxBallot
    BY <1>4, <2>1
  <2>3. Sound(u) /\ u.id = n
    BY <1>1, <1>5, <1>6, <2>2, StatusResponseSound, StatusResponseWell
  <2>4. \E W : Keeps(V, W, s, u)
    BY <1>1, <1>5, <2>2, <2>3, StatusResponseKeeps DEF Sound
  <2> QED
    BY <1>3, <2>1, <2>3, <2>4
<1>9. CASE PrepareRequest(m)
  <2> DEFINE t == AfterPrepareRequest(s, m)
  <2>1. Deliver(m, "PrepareReq", t)
    BY <1>9 DEF PrepareRequest, s
  <2>2. n \in Running /\ m.type = "PrepareReq"
    BY <1>4, <2>1
  <2>3. Sound(t) /\ t.id = n
    BY <1>1, <1>5, <1>6, <2>2, PrepareRequestSound, PrepareRequestWell
  <2>4. \E W : Keeps(V, W, s, t)
    BY <1>1, <1>5, <2>2, PrepareRequestKeeps
  <2> QED
    BY <1>3, <2>1, <2>3, <2>4
<1>10. CASE PrepareResponse(m)
  <2> DEFINE t == AfterPrepareResponse(s, m)
  <2>1. Deliver(m, "PrepareResp", t) /\ m.accept
    BY <1>10 DEF PrepareResponse, s
  <2>2. n \in Running /\ m.type = "PrepareResp"
    BY <1>4, <2>1
  <2>3. Sound(t) /\ t.id = n
    BY <1>1, <1>5, <1>6, <2>2, PrepareResponseSound, PrepareResponseWell
  <2>4. Keeps(V, V, s, t)
    BY <1>1, <1>5, <2>1, <2>2, PrepareResponseKeeps
  <2> HIDE DEF t
  <2> QED
    BY <1>3, <2>1, <2>3, <2>4
<1>11. CASE AcceptRequest(m)
  BY <1>1, <1>2, <1>4, <1>5, <1>11, AcceptRequestSound, AcceptRequestCalm DEF AcceptRequest, s
<1>12. CASE AcceptResponse(m)
  BY <1>1, <1>2, <1>4, <1>5, <1>12, AcceptResponseSound, AcceptResponseCalm DEF AcceptResponse, s
<1>13. CASE NotPrepared(m)
  BY <1>1, <1>2, <1>4, <1>5, <1>13, NotAcceptSound, NotAcceptCalm DEF NotPrepared, s
<1>14. CASE NotAccepted(m)
  BY <1>1, <1>2, <1>4, <1>5, <1>14, NotAcceptSound, NotAcceptCalm DEF NotAccepted, s
<1>15. CASE FetchRequest(m)
  BY <1>1, <1>2, <1>4, <1>5, <1>15, FetchRequestSound, FetchRequestCalm DEF FetchRequest, s
<1>16. CASE FetchResponse(m)
  <2>1. Deliver(m, "FetchResp", AfterFetchResponse(s, m))
    BY <1>16 DEF FetchResponse, s
  <2>2. m.proposals = <<>> \/ m.proposals[1].decree <= s.accepted.decree
    BY <1>1, <1>4, <2>1 DEF Told, s
  <2> QED
    BY <1>1, <1>2, <1>4, <1>5, <2>1, <2>2, FetchResponseSound, FetchResponseCalm
<1> QED
  BY <1>7, <1>8, <1>9, <1>10, <1>11, <1>12, <1>13, <1>14, <1>15, <1>16 DEF Handle

LEMMA TickKept ==
  ASSUME IInv, Tidy, NEW V, PromisesKept(V), NEW n \in Node,
         TickElection(n) \/ TickRetry(n) \/ TickRepeat(n) \/ TickPropose(n)
  PROVE  \E W : V \subseteq W /\ PromisesKept(W)'
<1> DEFINE s == node[n]
<1>1. s.state # Inactive /\ n \in Running
  BY DEF TickElection, TickRetry, TickRepeat, TickPropose, MaySend, StablePrimary,
         StableSecondary, Initializing, Preparing, Inactive, Running
<1>2. /\ Sound(s) /\ s \in NodeState /\ Preparer(s) /\ s.id = n /\ V \in SUBSET Given
      /\ Once(V) /\ Trusts(V, s) /\ Calm(s, s) /\ Mild(s, s)
      /\ \A x \in s.out : Carries(V, x)
  BY <1>1, RunningNode, CalmUnchanged DEF Calm
<1>3. ASSUME NEW t, TimeOut(n, t), Sound(t), Calm(s, t) PROVE \E W : V \subseteq W /\ PromisesKept(W)'
  BY <1>1, <1>3, CalmStepKept DEF TimeOut
<1> HIDE DEF s
<1>4. CASE TimeOut(n, Initialize(s))
  BY <1>2, <1>3, <1>4, InitializeSound, MildInitialize
<1>5. CASE s.state = Preparing /\ TimeOut(n, Prepare(s))
  <2> DEFINE t == Prepare(s)
  <2>1. t.prepared.num <= MaxBallot /\ Collected(n, t, {})
    BY <1>5 DEF TimeOut, Collected
  <2>2. Sound(t) /\ t.id = n
    BY <1>1, <1>2, <1>5, <2>1, PrepareSound, AlikePrepare DEF Alike
  <2>3. \E W : Keeps(V, W, s, t)
    BY <1>2, <1>5, PrepareKeeps
  <2> QED
    BY <1>1, <2>1, <2>2, <2>3, StepKept DEF s
<1>6. CASE TimeOut(n, Repeat(s))
  BY <1>2, <1>3, <1>6, RepeatSound, RepeatCalm
<1>7. CASE MaySend(s) /\ s.commandQ # <<>> /\ Collected(n, Propose(s), {})
  BY <1>1, <1>2, <1>7, ProposeSound, ProposeCalm, CalmStepKept DEF s
<1> QED
  BY <1>4, <1>5, <1>6, <1>7 DEF TickElection, TickRetry, TickRepeat, TickPropose, s

LEMMA FreshKept ==
  ASSUME node' = [n \in Node |-> Fresh(n)], messages' = {} PROVE PromisesKept({})'
<1>1. ASSUME NEW n \in Node PROVE Trusts({}, node'[n])
  <2>1. node'[n].state = Initializing
    BY NewNodeSound, AlikeInitialize DEF Fresh
  <2> QED
    BY <2>1 DEF Trusts, Initializing, Preparing, StablePrimary
<1> QED
  BY <1>1 DEF PromisesKept, Once, Running

LEMMA InitKept == Init => PromisesKept({})
<1> SUFFICES ASSUME Init PROVE PromisesKept({})
  OBVIOUS
<1>1. ASSUME NEW n \in Node PROVE Trusts({}, node[n])
  <2>1. node[n].state = Initializing
    BY NewNodeSound, AlikeInitialize DEF Fresh, Init
  <2> QED
    BY <2>1 DEF Trusts, Initializing, Preparing, StablePrimary
<1> QED
  BY <1>1 DEF PromisesKept, Once, Running, Init

LEMMA ReceiveRequestKept ==
  ASSUME IInv, Tidy, NEW V, PromisesKept(V), ReceiveRequest PROVE PromisesKept(V)'
<1>1. PICK n \in Node : node' = [node EXCEPT ![n].commandQ = Append(@, Head(requests))]
  BY DEF ReceiveRequest
<1> DEFINE q == Append(node[n].commandQ, Head(requests))
           t == [node[n] EXCEPT !.commandQ = q]
<1>2. node \in [Node -> NodeState] /\ node' = [node EXCEPT ![n] = t] /\ messages' = messages
  BY <1>1 DEF IInv, Nodes, ReceiveRequest
<1> HIDE DEF q
<1>3. /\ t.id = node[n].id /\ t.prepared = node[n].prepared /\ t.state = node[n].state
      /\ t.remote = node[n].remote /\ t.accepted = node[n].accepted
  BY <1>2 DEF NodeState
<1> HIDE DEF t
<1>4. ASSUME NEW p \in Running' PROVE Trusts(V, node'[p])
  <2>1. p \in Node /\ node'[p] = IF p = n THEN t ELSE node[p]
    BY <1>2 DEF Running
  <2>2. p \in Running
    BY <1>3, <2>1 DEF Running
  <2>3. Trusts(V, node[p])
    BY <2>2 DEF PromisesKept
  <2> QED
    BY <1>3, <2>1, <2>3, TrustsSame
<1> QED
  BY <1>2, <1>4 DEF PromisesKept

LEMMA NextKept ==
  ASSUME LogInv, [Next]_vars, ~disturbed => \E V : PromisesKept(V), ~disturbed'
  PROVE  \E W : PromisesKept(W)'
<1>1. IInv /\ (~disturbed => Tidy)
  BY DEF LogInv
<1>2. ASSUME ~disturbed PROVE Tidy /\ \E V : PromisesKept(V)
  BY <1>1, <1>2
<1>3. CASE Reset
  <2>1. PromisesKept({})'
    BY <1>3, FreshKept DEF Reset
  <2> QED
    BY <2>1
<1>4. CASE TickIdle
  <2>1. PICK n \in Running : Collected(n, node[n], {})
    BY <1>4 DEF TickIdle
  <2>2. PICK V : Tidy /\ PromisesKept(V)
    BY <1>2, <1>4 DEF TickIdle, bounds
  <2>3. Sound(node[n]) /\ Calm(node[n], node[n])
    BY <1>1, <2>2, RunningNode, CalmUnchanged
  <2> QED
    BY <1>1, <2>1, <2>2, <2>3, CalmStepKept
<1>5. CASE ReceiveRequest
  <2>1. PICK V : Tidy /\ PromisesKept(V)
    BY <1>2, <1>5 DEF ReceiveRequest, bounds
  <2>2. PromisesKept(V)'
    BY <1>1, <1>5, <2>1, ReceiveRequestKept
  <2> QED
    BY <2>2
<1>6. ASSUME NEW m \in messages, Handle(m) PROVE \E W : PromisesKept(W)'
  <2>1. disturbed' = disturbed
    BY <1>6 DEF Handle, StatusRequest, StatusResponse, PrepareRequest, PrepareResponse,
                AcceptRequest, AcceptResponse, NotPrepared, NotAccepted, FetchRequest,
                FetchResponse, Deliver, bounds
  <2> QED
    BY <1>1, <1>2, <1>6, <2>1, HandleKept
<1>7. ASSUME NEW m \in messages, Drop(m) PROVE \E W : PromisesKept(W)'
  <2>1. messages' \subseteq messages /\ node' = node /\ disturbed' = disturbed
    BY <1>7 DEF Drop, bounds
  <2>2. PICK V : PromisesKept(V)
    BY <1>2, <2>1
  <2>3. PromisesKept(V)'
    BY <2>1, <2>2 DEF PromisesKept, Running
  <2> QED
    BY <2>3
<1>8. ASSUME NEW n \in Node, Stop(n) PROVE \E W : PromisesKept(W)'
  <2>1. node' = [node EXCEPT ![n] = NewNode(n)] /\ messages' = messages /\ disturbed' = disturbed
    BY <1>8 DEF Stop
  <2>2. PICK V : PromisesKept(V)
    BY <1>2, <2>1
  <2>3. node \in [Node -> NodeState] /\ NewNode(n).state = Inactive
    BY <1>1 DEF IInv, Nodes, NewNode
  <2>4. \A p \in Running' : p \in Running /\ node'[p] = node[p]
    BY <2>1, <2>3 DEF Running
  <2>5. PromisesKept(V)'
    BY <2>1, <2>2, <2>4 DEF PromisesKept
  <2> QED
    BY <2>5
<1>9. ASSUME NEW n \in Node, Start(n) PROVE \E W : PromisesKept(W)'
  BY <1>9 DEF Start
<1>10. ASSUME NEW n \in Node,
              TickElection(n) \/ TickRetry(n) \/ TickRepeat(n) \/ TickPropose(n)
       PROVE  \E W : PromisesKept(W)'
  <2>1. disturbed' = disturbed
    BY <1>10 DEF TickElection, TickRetry, TickRepeat, TickPropose, TimeOut, bounds
  <2> QED
    BY <1>1, <1>2, <1>10, <2>1, TickKept
<1>11. CASE UNCHANGED vars
  <2>1. PICK V : PromisesKept(V)
    BY <1>2, <1>11 DEF vars, bounds
  <2>2. PromisesKept(V)'
    BY <1>11, <2>1 DEF vars, PromisesKept, Running
  <2> QED
    BY <2>2
<1> QED
  BY <1>3, <1>4, <1>5, <1>6, <1>7, <1>8, <1>9, <1>10, <1>11 DEF Next

-----------------------------------------------------------------------------
(* One primary of a ballot *)

THEOREM InvariantSafeInv == Spec => []SafeInv
<1>1. Init => SafeInv
  BY InitIInv, InitTidy, InitKept DEF SafeInv, LogInv
<1>2. SafeInv /\ [Next]_vars => SafeInv'
  BY NextLogInv, NextKept DEF SafeInv
<1> QED
  BY <1>1, <1>2, PTL DEF Spec

\* Two nodes never lead one ballot until a node is restarted or meets messages
\* of before a reset: each leads with the promises of a majority, its own among
\* them, and a node in both majorities has promised the ballot number once
\* (algo.go:521 and :563).
THEOREM BallotsHaveOnePrimary == Spec => []OnePrimary
<1>1. ASSUME SafeInv PROVE OnePrimary
  <2> SUFFICES ASSUME ~disturbed, NEW n \in Node, NEW m \in Node,
                      node[n].state = StablePrimary, node[m].state = StablePrimary,
                      node[n].accepted.ballot.num = node[m].accepted.ballot.num
               PROVE  n = m
    BY DEF OnePrimary
  <2>1. PICK V : PromisesKept(V)
    BY <1>1 DEF SafeInv
  <2>2. n \in Running /\ m \in Running /\ node[n].id = n /\ node[m].id = m
    BY <1>1 DEF SafeInv, LogInv, Tidy, Running, StablePrimary, Inactive
  <2>3. Once(V) /\ Trusts(V, node[n]) /\ Trusts(V, node[m])
    BY <2>1, <2>2 DEF PromisesKept
  <2> QED
    BY <2>2, <2>3, MajoritiesAgree DEF Trusts
<1> QED
  BY <1>1, InvariantSafeInv, PTL

-----------------------------------------------------------------------------
(* Steps that accept, propose and execute nothing *)

\* A message that neither proposes nor accepts.
Mute(x) == x.type # "AcceptReq" /\ (x.type = "AcceptResp" => ~x.accept)

\* What the node has accepted and executed stays.
Firm(s, t) ==
  /\ t.id = s.id /\ t.log = s.log /\ t.accepted = s.accepted /\ t.executed = s.executed
  /\ t.prepared.num >= s.prepared.num
  /\ \A x \in t.out : x \in s.out \/ Mute(x)

Stable(s) == s.state \in {StablePrimary, StableSecondary}

\* It also is elected by nobody and hears no vote.
Steady(s, t) ==
  /\ Firm(s, t)
  /\ t.state = Preparing => s.state = Preparing \/ t.prepared.num > s.prepared.num
  /\ t.state = StablePrimary => s.state = StablePrimary /\ t.ready = s.ready
  /\ Stable(t) => \A r \in t.remote : Stable(s) /\ r \in s.remote

LEMMA FirmSame ==
  ASSUME NEW s \in NodeState, NEW t, t.id = s.id, t.log = s.log, t.accepted = s.accepted,
         t.executed = s.executed, t.prepared = s.prepared,
         \A x \in t.out : x \in s.out \/ Mute(x)
  PROVE  Firm(s, t)
  BY PreparedNum DEF Firm

LEMMA SteadySame ==
  ASSUME NEW s \in NodeState, NEW t, Firm(s, t), t.state = s.state,
         t.ready = s.ready, Stable(t) => t.remote \subseteq s.remote
  PROVE  Steady(s, t)
  BY DEF Steady, Stable

LEMMA SteadyUnchanged ==
  ASSUME NEW s \in NodeState PROVE Firm(s, s) /\ Steady(s, s)
  BY FirmSame, SteadySame

LEMMA FirmTransitive ==
  ASSUME NEW s \in NodeState, NEW t \in NodeState, NEW u \in NodeState, Firm(s, t), Firm(t, u)
  PROVE  Firm(s, u)
  BY PreparedNum DEF Firm

LEMMA SteadySend ==
  ASSUME NEW s \in NodeState, NEW x, Mute(x)
  PROVE  Firm(s, Send(s, x)) /\ Steady(s, Send(s, x))
<1> DEFINE t == Send(s, x)
<1>1. /\ t.id = s.id /\ t.prepared = s.prepared /\ t.state = s.state /\ t.remote = s.remote
      /\ t.accepted = s.accepted /\ t.log = s.log /\ t.executed = s.executed
      /\ t.ready = s.ready /\ t.out = s.out \cup {x}
  BY DEF Send, NodeState
<1> HIDE DEF t
<1>2. Firm(s, t) /\ Steady(s, t)
  BY <1>1, FirmSame, SteadySame
<1> QED
  BY <1>2 DEF t

LEMMA FirmBroadcast ==
  ASSUME NEW s \in NodeState, NEW m, \A n \in Node : Mute([m EXCEPT !.to = n])
  PROVE  Firm(s, Broadcast(s, m))
<1> DEFINE sent == {[m EXCEPT !.to = n] : n \in Node \ {s.id}}
           t == Broadcast(s, m)
<1>1. /\ t.id = s.id /\ t.prepared = s.prepared /\ t.accepted = s.accepted /\ t.log = s.log
      /\ t.executed = s.executed /\ t.out = s.out \cup sent
  BY DEF Broadcast, NodeState
<1>2. \A x \in sent : Mute(x)
  OBVIOUS
<1> HIDE DEF t, sent
<1>3. Firm(s, t)
  BY <1>1, <1>2, FirmSame
<1> QED
  BY <1>3 DEF t

LEMMA FirmStabilize ==
  ASSUME NEW s \in NodeState, NEW t \in NodeState, Firm(s, t)
  PROVE  Steady(s, Stabilize(t, StableSecondary))
<1> DEFINE u == Stabilize(t, StableSecondary)
<1>1. /\ u.id = t.id /\ u.prepared = t.prepared /\ u.accepted = t.accepted /\ u.log = t.log
      /\ u.executed = t.executed /\ u.out = t.out /\ u.state = StableSecondary /\ u.remote = {}
  BY DEF Stabilize, NodeState
<1> HIDE DEF u
<1>2. Steady(s, u)
  BY <1>1 DEF Steady, Firm, StableSecondary, StablePrimary, Preparing
<1> QED
  BY <1>2 DEF u

LEMMA FirmInitialize ==
  ASSUME NEW s \in NodeState, NEW t \in NodeState, Firm(s, t)
  PROVE  Steady(s, Initialize(t))
<1> DEFINE u == [t EXCEPT !.state = Initializing, !.remote = {}]
           m == Msg("StatusReq", t, Nobody)
           v == Broadcast(u, m)
<1>1. /\ u \in NodeState /\ u.id = t.id /\ u.prepared = t.prepared /\ u.accepted = t.accepted
      /\ u.log = t.log /\ u.executed = t.executed /\ u.out = t.out /\ u.state = Initializing
  BY DEF NodeState
<1>2. \A n \in Node : Mute([m EXCEPT !.to = n])
  BY DEF Msg, Mute
<1>3. Initialize(t) = v
  BY DEF Initialize
<1> HIDE DEF u, m
<1>4. Firm(u, v) /\ v.state = Initializing /\ v.prepared = u.prepared
  BY <1>1, <1>2, FirmBroadcast, BroadcastKeeps
<1> HIDE DEF v
<1>5. Steady(s, v)
  BY <1>1, <1>4 DEF Steady, Firm, Stable, Initializing, StablePrimary, StableSecondary, Preparing
<1> QED
  BY <1>3, <1>5

LEMMA SteadyRefuse ==
  ASSUME NEW s \in NodeState, NEW m, NEW type \in {"PrepareResp", "AcceptResp"}
  PROVE  Steady(s, Refuse(s, m, type))
<1> DEFINE x == [Msg(type, s, m.from) EXCEPT !.ballot = s.prepared, !.decree = s.accepted.decree]
<1>1. Mute(x)
  BY DEF Msg, Mute
<1> HIDE DEF x
<1>2. Refuse(s, m, type) = Send(s, x)
  BY DEF Refuse, x
<1> QED
  BY <1>1, <1>2, SteadySend

LEMMA SteadyLearnVotes ==
  ASSUME NEW s \in NodeState, NEW n PROVE Steady(s, LearnVotes(s, n))
<1> DEFINE x == [Msg("FetchReq", s, n) EXCEPT !.ballot = s.accepted.ballot,
                                              !.decree = s.accepted.decree]
           t == [s EXCEPT !.out = s.out \cup {x}, !.learningFrom = n]
<1>1. Mute(x)
  BY DEF Msg, Mute
<1> HIDE DEF x
<1>2. LearnVotes(s, n) = t
  BY DEF LearnVotes, Send, NodeState, x
<1>3. /\ t.id = s.id /\ t.prepared = s.prepared /\ t.state = s.state /\ t.remote = s.remote
      /\ t.accepted = s.accepted /\ t.log = s.log /\ t.executed = s.executed
      /\ t.ready = s.ready /\ t.out = s.out \cup {x}
  BY DEF NodeState
<1> HIDE DEF t
<1>4. Firm(s, t)
  BY <1>1, <1>3, FirmSame
<1> QED
  BY <1>2, <1>3, <1>4, SteadySame

LEMMA FirmPostponed ==
  ASSUME NEW s \in NodeState, NEW b \in Ballots, b.num > s.prepared.num
  PROVE  Firm(s, Postponed([s EXCEPT !.prepared = b]))
<1> DEFINE u == Postponed([s EXCEPT !.prepared = b])
<1>1. /\ u.id = s.id /\ u.prepared = b /\ u.accepted = s.accepted /\ u.log = s.log
      /\ u.executed = s.executed /\ u.out = s.out
  BY DEF Postponed, NodeState
<1> HIDE DEF u
<1>2. Firm(s, u)
  BY <1>1, PreparedNum, BallotFields DEF Firm
<1> QED
  BY <1>2 DEF u

LEMMA FirmHeard ==
  ASSUME NEW s \in NodeState, NEW m, NEW b
  PROVE  /\ Firm(s, Heard(s, m, b))
         /\ ~Stable(s) => Steady(s, Heard(s, m, b))
<1> DEFINE t == Heard(s, m, b)
<1>1. /\ t.id = s.id /\ t.prepared = s.prepared /\ t.state = s.state /\ t.accepted = s.accepted
      /\ t.log = s.log /\ t.executed = s.executed /\ t.ready = s.ready /\ t.out = s.out
  BY DEF Heard, NodeState
<1> HIDE DEF t
<1>2. Firm(s, t)
  BY <1>1, FirmSame
<1>3. ~Stable(s) => Steady(s, t)
  BY <1>1, <1>2, SteadySame DEF Stable
<1> QED
  BY <1>2, <1>3 DEF t

LEMMA SteadyPrepare ==
  ASSUME NEW s, Sound(s), s.state \in {Initializing, Preparing} PROVE Steady(s, Prepare(s))
<1> DEFINE b == IF s.state = Initializing
                THEN [num |-> s.prepared.num + 1, node |-> s.id] ELSE s.prepared
           e == IF s.state = Initializing THEN Finite ELSE s.election
           m == [Msg("PrepareReq", s, Nobody) EXCEPT !.ballot = b, !.decree = s.accepted.decree]
           sent == {[m EXCEPT !.to = n] : n \in Node \ {s.id}}
           out == s.out \cup sent
           t == [s EXCEPT !.state = Preparing, !.prepared = b, !.remote = {},
                          !.freshest = s.accepted, !.election = e, !.out = out]
<1>0. s \in NodeState /\ s.prepared.num \in Nat
  BY PreparedNum DEF Sound
<1>1. \A x \in sent : Mute(x)
  BY DEF Msg, Mute
<1>2. b.num \in Nat /\ b.num >= s.prepared.num /\ (s.state = Preparing \/ b.num > s.prepared.num)
  BY <1>0
<1> HIDE DEF b, e
<1>3. Prepare(s) = t
  BY <1>0 DEF Prepare, Broadcast, NodeState, b, e
<1> HIDE DEF m, sent
<1>4. \A x \in out : x \in s.out \/ Mute(x)
  BY <1>1
<1> HIDE DEF out
<1>5. /\ t.id = s.id /\ t.prepared = b /\ t.state = Preparing /\ t.accepted = s.accepted
      /\ t.log = s.log /\ t.executed = s.executed /\ t.out = out
  BY <1>0 DEF NodeState
<1> HIDE DEF t
<1>6. Steady(s, t)
  BY <1>2, <1>4, <1>5 DEF Steady, Firm, Stable, Preparing, StablePrimary, StableSecondary
<1> QED
  BY <1>3, <1>6

-----------------------------------------------------------------------------
(* The handlers that make such steps *)

LEMMA StatusRequestSteady ==
  ASSUME NEW s \in NodeState, NEW m PROVE Steady(s, AfterStatusRequest(s, m))
<1> DEFINE x == [Msg("StatusResp", s, m.from) EXCEPT !.ballot = s.accepted.ballot,
                                                     !.decree = s.accepted.decree]
<1>1. Mute(x)
  BY DEF Msg, Mute
<1>2. AfterStatusRequest(s, m) = Send(s, x)
  BY DEF AfterStatusRequest
<1> HIDE DEF x
<1> QED
  BY <1>1, <1>2, SteadySend

LEMMA StatusResponseSteady ==
  ASSUME NEW s, Sound(s), NEW m \in Message, NEW u \in AfterStatusResponse(s, m), u \in NodeState
  PROVE  Steady(s, u)
<1> DEFINE t == Heard(s, m, m.ballot)
           e == IF t.election = Unset THEN Finite ELSE t.election
           v == [t EXCEPT !.election = e]
<1>1. s \in NodeState /\ Sound(t) /\ t \in NodeState /\ t.state = s.state /\ Firm(s, t)
  BY MessageFields, HeardSound, HeardKeeps, FirmHeard DEF Sound
<1>2. \/ u \in {s, LearnVotes(s, m.from)}
      \/ s.state = Initializing /\ u = t
      \/ s.state = Initializing /\ \E r \in t.remote : u = LearnVotes(t, r.node)
      \/ s.state = Initializing /\ u \in {Prepare(v), Stabilize(v, StableSecondary)}
  BY DEF AfterStatusResponse, Ahead, Newer, ElectOrFollow
<1>3. s.state = Initializing => ~Stable(s)
  BY DEF Stable, Initializing, StablePrimary, StableSecondary
<1>4. s.state = Initializing => Steady(s, t)
  BY <1>1, <1>3, FirmHeard
<1> HIDE DEF t
<1>5. CASE u \in {s, LearnVotes(s, m.from)}
  BY <1>1, <1>5, SteadyUnchanged, SteadyLearnVotes
<1>6. ASSUME NEW w \in NodeState, Firm(s, w), s.state = Initializing, w.state = Initializing,
             Steady(w, u)
      PROVE  Steady(s, u)
  <2>1. Firm(s, u) /\ ~Stable(w)
    BY <1>1, <1>3, <1>6, FirmTransitive DEF Steady, Stable
  <2>2. s.prepared.num \in Nat /\ w.prepared.num \in Nat /\ u.prepared.num \in Nat
    BY <1>1, <1>6, PreparedNum
  <2> QED
    BY <1>6, <2>1, <2>2 DEF Steady, Firm, Initializing, StablePrimary, Preparing
<1>7. CASE s.state = Initializing /\ \E r \in t.remote : u = LearnVotes(t, r.node)
  BY <1>1, <1>6, <1>7, SteadyLearnVotes
<1>8. t.election \in {Unset, Finite, Overflowed} /\ t.election # Overflowed
  BY <1>1, StateFields DEF Sound
<1>9. Sound(v) /\ v \in NodeState /\ v.state = t.state /\ Firm(s, v)
  <2>1. e = Finite
    BY <1>8
  <2> HIDE DEF e
  <2>2. Sound(v) /\ v \in NodeState /\ v.state = t.state
    BY <1>1, <2>1 DEF Sound, NodeState, Finite, Overflowed, Unset
  <2>3. /\ v.id = t.id /\ v.prepared = t.prepared /\ v.out = t.out /\ v.log = t.log
        /\ v.accepted = t.accepted /\ v.executed = t.executed
    BY <1>1 DEF NodeState
  <2> HIDE DEF v
  <2> QED
    BY <1>1, <2>2, <2>3 DEF Firm
<1> HIDE DEF v
<1>10. CASE s.state = Initializing /\ u = Prepare(v)
  <2>1. Steady(v, u)
    BY <1>1, <1>9, <1>10, SteadyPrepare
  <2> QED
    BY <1>1, <1>6, <1>9, <1>10, <2>1
<1>11. CASE u = Stabilize(v, StableSecondary)
  BY <1>1, <1>9, <1>11, FirmStabilize
<1> QED
  BY <1>2, <1>4, <1>5, <1>7, <1>10, <1>11

LEMMA PrepareRequestSteady ==
  ASSUME NEW s, Sound(s), s.state # Inactive, NEW m \in Message
  PROVE  Steady(s, AfterPrepareRequest(s, m))
<1> DEFINE x == [Msg("PrepareResp", s, m.from) EXCEPT
                   !.accept = TRUE, !.ballot = m.ballot,
                   !.proposalBallot = s.accepted.ballot,
                   !.decree = s.accepted.decree, !.command = s.accepted.command]
           w == Postponed([s EXCEPT !.prepared = m.ballot])
           t == IF Promises(s, m) THEN Send(w, x) ELSE s
           u == AfterPrepareRequest(s, m)
<1>1. s \in NodeState /\ m.ballot \in Ballots
  BY MessageFields DEF Sound
<1>2. \/ u \in {s, Refuse(s, m, "PrepareResp")}
      \/ s.state # Initializing /\ u \in {Initialize(t), Stabilize(t, StableSecondary)}
  BY DEF AfterPrepareRequest
<1>3. Mute(x) /\ x \in Message
  <2>1. Msg("PrepareResp", s, m.from) \in Message
    BY <1>1, MessageFields, NewMessageTo
  <2>2. /\ s.accepted.ballot \in Ballots /\ s.accepted.decree \in Nat
        /\ s.accepted.command \in Commands
    BY <1>1, StateFields, ProposalFields
  <2>3. x \in Message
    BY <1>1, <2>1, <2>2 DEF Message
  <2> QED
    BY <2>3 DEF Msg, Mute
<1> HIDE DEF x, u
<1>4. s.state # Initializing => t \in NodeState /\ Firm(s, t)
  <2>1. CASE ~Promises(s, m)
    BY <1>1, <2>1, SteadyUnchanged
  <2>2. CASE Promises(s, m) /\ s.state # Initializing
    <3>1. m.ballot.num > s.prepared.num /\ s.election = Finite /\ t = Send(w, x)
      BY <2>2 DEF Promises, Sound
    <3>2. w \in NodeState /\ Sound(w) /\ Firm(s, w)
      BY <1>1, <3>1, PostponedSound, FirmPostponed DEF Sound
    <3> HIDE DEF w
    <3>3. Send(w, x) \in NodeState /\ Firm(w, Send(w, x))
      BY <1>3, <3>2, SendSound, SteadySend DEF Sound
    <3> QED
      BY <1>1, <3>1, <3>2, <3>3, FirmTransitive
  <2> QED
    BY <2>1, <2>2
<1> HIDE DEF t
<1>5. Steady(s, u)
  BY <1>1, <1>2, <1>4, SteadyUnchanged, SteadyRefuse, FirmInitialize, FirmStabilize
<1> QED
  BY <1>5 DEF u

LEMMA CacheSteady ==
  ASSUME NEW s \in NodeState, NEW m PROVE Steady(s, Cache(s, m))
<1>1. PICK one, kept : Cache(s, m) \in {[s EXCEPT !.proposalQ = one], Refuse(s, m, "AcceptResp"), s,
                                        [s EXCEPT !.proposalQ = kept]}
  BY DEF Cache
<1>2. ASSUME NEW q PROVE Steady(s, [s EXCEPT !.proposalQ = q])
  <2> DEFINE t == [s EXCEPT !.proposalQ = q]
  <2>1. /\ t.id = s.id /\ t.prepared = s.prepared /\ t.state = s.state /\ t.remote = s.remote
        /\ t.accepted = s.accepted /\ t.log = s.log /\ t.executed = s.executed
        /\ t.ready = s.ready /\ t.out = s.out
    BY DEF NodeState
  <2> HIDE DEF t
  <2>2. Steady(s, t)
    BY <2>1, FirmSame, SteadySame
  <2> QED
    BY <2>2 DEF t
<1> QED
  BY <1>1, <1>2, SteadyRefuse, SteadyUnchanged

\* Unless the proposal is accepted.
AcceptsNow(s, m) ==
  /\ s.state # Initializing /\ ~Refuses(s, m) /\ Extends(s, m) /\ m.ballot.node = m.from
  /\ m.from # s.id
  /\ ~(m.decree = s.accepted.decree /\ m.ballot.num = s.accepted.ballot.num)

LEMMA AcceptRequestSteady ==
  ASSUME NEW s, Sound(s), NEW m \in Message
  PROVE  \/ Steady(s, AfterAcceptRequest(s, m))
         \/ AcceptsNow(s, m) /\ AfterAcceptRequest(s, m) = Accept(s, m)
<1>1. \/ AfterAcceptRequest(s, m) \in {s, Cache(s, m), Refuse(s, m, "AcceptResp"), Initialize(s)}
      \/ AcceptsNow(s, m) /\ AfterAcceptRequest(s, m) = Accept(s, m)
  BY DEF AfterAcceptRequest, AcceptsNow
<1>2. s \in NodeState /\ Firm(s, s) /\ Steady(s, s)
  BY SteadyUnchanged DEF Sound
<1> QED
  BY <1>1, <1>2, CacheSteady, SteadyRefuse, FirmInitialize

LEMMA NotAcceptSteady ==
  ASSUME NEW s, Sound(s), s.state # Inactive, NEW m \in Message
  PROVE  Steady(s, AfterNotAccept(s, m))
<1> DEFINE t == Postponed([s EXCEPT !.prepared = m.ballot])
<1>1. s \in NodeState /\ Steady(s, s) /\ Firm(s, s)
  BY SteadyUnchanged DEF Sound
<1>2. \/ AfterNotAccept(s, m) \in {s, Initialize(s)}
      \/ /\ s.state # Initializing /\ m.ballot.num > s.prepared.num
         /\ AfterNotAccept(s, m) = Stabilize(t, StableSecondary)
  BY DEF AfterNotAccept
<1>3. s.state # Initializing /\ m.ballot.num > s.prepared.num => t \in NodeState /\ Firm(s, t)
  BY <1>1, MessageFields, PostponedSound, FirmPostponed DEF Sound
<1> HIDE DEF t
<1> QED
  BY <1>1, <1>2, <1>3, FirmStabilize, FirmInitialize

LEMMA FetchRequestSteady ==
  ASSUME NEW s, Sound(s), Orderly(s), NEW m \in Message PROVE Steady(s, AfterFetchRequest(s, m))
<1>1. PICK x : AfterFetchRequest(s, m) = Send(s, x) /\ x.type = "FetchResp"
  BY FetchRequestTold
<1> QED
  BY <1>1, SteadySend DEF Mute, Sound

LEMMA FetchResponseSteady ==
  ASSUME NEW s, Sound(s), NEW m \in Message,
         m.proposals = <<>> \/ m.proposals[1].decree <= s.accepted.decree
  PROVE  Steady(s, AfterFetchResponse(s, m))
<1>1. ASSUME NEW t \in NodeState, Steady(s, t) PROVE Steady(s, [t EXCEPT !.learningFrom = Nobody])
  <2> DEFINE u == [t EXCEPT !.learningFrom = Nobody]
  <2>1. /\ u.id = t.id /\ u.prepared = t.prepared /\ u.state = t.state /\ u.remote = t.remote
        /\ u.accepted = t.accepted /\ u.log = t.log /\ u.executed = t.executed
        /\ u.ready = t.ready /\ u.out = t.out
    BY <1>1 DEF NodeState
  <2> HIDE DEF u
  <2>2. Steady(s, u)
    BY <1>1, <2>1 DEF Steady, Firm, Stable
  <2> QED
    BY <2>2 DEF u
<1>2. s \in NodeState /\ Steady(s, s) /\ Initialize(s) \in NodeState /\ Steady(s, Initialize(s))
  BY SteadyUnchanged, FirmInitialize, InitializeSound DEF Sound
<1> QED
  BY <1>1, <1>2, FetchResponseUnused

-----------------------------------------------------------------------------
(* What the other steps do *)

\* The node logs p, and nothing else of it is lost.
Logs(s, t, p) ==
  /\ t.id = s.id /\ t.accepted = p /\ t.log = Append(s.log, p)
  /\ t.prepared.num >= s.prepared.num

\* A request for p.
Asks(x, p) ==
  x.type = "AcceptReq" /\ x.ballot = p.ballot /\ x.decree = p.decree /\ x.command = p.command

Done(p) == [decree |-> p.decree, command |-> p.command]

LEMMA RequestAsks ==
  ASSUME NEW s \in NodeState, NEW t \in NodeState, NEW p
  PROVE  LET u == Broadcast(t, Request(s, p)) IN
           /\ u.id = t.id /\ u.log = t.log /\ u.accepted = t.accepted /\ u.executed = t.executed
           /\ u.prepared = t.prepared /\ u.state = t.state /\ u.remote = t.remote
           /\ u.ready = t.ready
           /\ \A x \in u.out : x \in t.out \/ Asks(x, p)
<1> DEFINE m == Request(s, p)
           sent == {[m EXCEPT !.to = n] : n \in Node \ {t.id}}
           u == Broadcast(t, m)
<1>1. /\ u.id = t.id /\ u.log = t.log /\ u.accepted = t.accepted /\ u.executed = t.executed
      /\ u.prepared = t.prepared /\ u.state = t.state /\ u.remote = t.remote
      /\ u.ready = t.ready /\ u.out = t.out \cup sent
  BY DEF Broadcast, NodeState
<1>2. \A x \in sent : Asks(x, p)
  <2>1. ASSUME NEW n PROVE Asks([m EXCEPT !.to = n], p)
    BY DEF Asks, Request, Msg
  <2> HIDE DEF m
  <2> QED
    BY <2>1
<1> HIDE DEF u, sent
<1>3. \A x \in u.out : x \in t.out \/ Asks(x, p)
  BY <1>1, <1>2
<1> QED
  BY <1>1, <1>3 DEF u

LEMMA LogProposalLogs ==
  ASSUME NEW s \in NodeState, NEW p \in Proposals
  PROVE  LET u == LogProposal(s, p) IN
           /\ Logs(s, u, p) /\ u.executed = s.executed /\ u.state = s.state
           /\ u.remote = s.remote /\ u.ready = s.ready /\ u.out = s.out
           /\ u.prepared.num >= p.ballot.num
<1> DEFINE log == Append(s.log, p)
           t == [s EXCEPT !.log = log, !.accepted = p]
           v == Postponed([t EXCEPT !.prepared = p.ballot])
           u == LogProposal(s, p)
<1>0. p.ballot.num \in Nat /\ s.prepared.num \in Nat
  BY PreparedNum, ProposalFields, BallotFields
<1>1. u = IF p.ballot.num > s.prepared.num THEN v ELSE t
  BY DEF LogProposal
<1>2. log = Append(s.log, p)
  OBVIOUS
<1> HIDE DEF log
<1>3. /\ t.id = s.id /\ t.prepared = s.prepared /\ t.out = s.out /\ t.state = s.state
      /\ t.accepted = p /\ t.remote = s.remote /\ t.log = log /\ t.executed = s.executed
      /\ t.ready = s.ready
  BY DEF NodeState
<1>4. /\ v.id = s.id /\ v.prepared = p.ballot /\ v.out = s.out /\ v.state = s.state
      /\ v.accepted = p /\ v.remote = s.remote /\ v.log = log /\ v.executed = s.executed
      /\ v.ready = s.ready
  BY DEF Postponed, NodeState
<1> HIDE DEF t, v, u
<1>5. CASE p.ballot.num > s.prepared.num
  BY <1>0, <1>1, <1>2, <1>4, <1>5 DEF Logs, u
<1>6. CASE ~(p.ballot.num > s.prepared.num)
  BY <1>0, <1>1, <1>2, <1>3, <1>6 DEF Logs, u
<1> QED
  BY <1>5, <1>6

LEMMA ExecuteDone ==
  ASSUME NEW s \in NodeState, NEW p
  PROVE  LET u == Execute(s, p) IN
           /\ u.id = s.id /\ u.log = s.log /\ u.accepted = s.accepted /\ u.prepared = s.prepared
           /\ u.state = s.state /\ u.remote = s.remote /\ u.ready = s.ready /\ u.out = s.out
           /\ u.executed = s.executed \cup {Done(p)}
  BY DEF Execute, Done, NodeState

LEMMA AcceptLogs ==
  ASSUME NEW s, Sound(s), s.election = Finite, NEW m \in Message
  PROVE  LET u == Accept(s, m) IN
           /\ Logs(s, u, Proposal(m.ballot, m.decree, m.command))
           /\ u.state = StableSecondary /\ u.remote = {}
           /\ \A e \in u.executed :
                e \in s.executed \/ (e = Done(s.accepted) /\ m.decree = s.accepted.decree + 1)
           /\ \A x \in u.out : \/ x \in s.out
                               \/ /\ x.type = "AcceptResp" /\ x.from = s.id /\ x.to = m.from
                                  /\ x.ballot = m.ballot /\ x.decree = m.decree
<1> DEFINE e == Execute(s, s.accepted)
           f == [e EXCEPT !.election = Finite]
           t == IF m.decree = s.accepted.decree + 1 THEN f ELSE s
           p == Proposal(m.ballot, m.decree, m.command)
           u == LogProposal(t, p)
           x == [Msg("AcceptResp", s, m.from) EXCEPT
                   !.accept = TRUE, !.ballot = m.ballot, !.decree = m.decree]
           v == Send(u, x)
           w == Stabilize(v, StableSecondary)
<1>1. p \in Proposals
  BY MessageFields DEF Proposal, Proposals
<1>2. x.type = "AcceptResp" /\ x.from = s.id /\ x.to = m.from /\ x.ballot = m.ballot
      /\ x.decree = m.decree /\ x \in Message
  <2>1. Msg("AcceptResp", s, m.from) \in Message
    BY MessageFields, NewMessageTo
  <2>2. x \in Message
    BY <2>1, MessageFields DEF Message
  <2> QED
    BY <2>2 DEF Msg
<1>3. Accept(s, m) = w
  BY DEF Accept
<1> HIDE DEF p, x
<1>4. s \in NodeState /\ Sound(e) /\ e \in NodeState
  BY StateFields, ExecuteSound DEF Sound
<1>5. /\ e.id = s.id /\ e.log = s.log /\ e.accepted = s.accepted /\ e.prepared = s.prepared
      /\ e.state = s.state /\ e.out = s.out /\ e.executed = s.executed \cup {Done(s.accepted)}
  BY <1>4, ExecuteDone
<1> HIDE DEF e
<1>6. /\ Sound(f) /\ f.election = Finite /\ f.id = s.id /\ f.log = s.log /\ f.prepared = s.prepared
      /\ f.state = s.state /\ f.out = s.out /\ f.executed = s.executed \cup {Done(s.accepted)}
  BY <1>4, <1>5 DEF Sound, NodeState, Finite, Overflowed
<1> HIDE DEF f
<1>7. /\ Sound(t) /\ t.election = Finite /\ t.id = s.id /\ t.log = s.log /\ t.prepared = s.prepared
      /\ t.state = s.state /\ t.out = s.out
      /\ \A y \in t.executed :
           y \in s.executed \/ (y = Done(s.accepted) /\ m.decree = s.accepted.decree + 1)
  <2>1. CASE m.decree = s.accepted.decree + 1
    BY <1>6, <2>1
  <2>2. CASE m.decree # s.accepted.decree + 1
    BY <1>4, <2>2
  <2> QED
    BY <2>1, <2>2
<1> HIDE DEF t
<1>8. /\ Sound(u) /\ Logs(t, u, p) /\ u.executed = t.executed /\ u.state = t.state
      /\ u.out = t.out
  BY <1>1, <1>7, LogProposalSound, LogProposalLogs DEF Sound
<1> HIDE DEF u
<1>9. /\ Sound(v) /\ v.id = u.id /\ v.log = u.log /\ v.accepted = u.accepted
      /\ v.prepared = u.prepared /\ v.executed = u.executed /\ v.out = u.out \cup {x}
  <2>1. v = [u EXCEPT !.out = u.out \cup {x}] /\ Sound(v)
    BY <1>2, <1>8, SendSound DEF Send
  <2> HIDE DEF v
  <2> QED
    BY <1>8, <2>1 DEF Sound, NodeState
<1> HIDE DEF v
<1>10. /\ w.id = v.id /\ w.log = v.log /\ w.accepted = v.accepted /\ w.prepared = v.prepared
       /\ w.executed = v.executed /\ w.out = v.out /\ w.state = StableSecondary /\ w.remote = {}
  BY <1>9 DEF Stabilize, Sound, NodeState
<1> HIDE DEF w
<1>11. Logs(s, w, p)
  BY <1>7, <1>8, <1>9, <1>10 DEF Logs
<1>12. \A y \in w.executed :
         y \in s.executed \/ (y = Done(s.accepted) /\ m.decree = s.accepted.decree + 1)
  BY <1>7, <1>8, <1>9, <1>10
<1>13. \A y \in w.out : y \in s.out \/ y = x
  BY <1>7, <1>8, <1>9, <1>10
<1> QED
  BY <1>2, <1>3, <1>10, <1>11, <1>12, <1>13 DEF p

\* Unless the node is elected.
LEMMA PrepareResponseLogs ==
  ASSUME NEW s, Sound(s), NEW m \in Message
  PROVE  LET u == AfterPrepareResponse(s, m) IN
           \/ Steady(s, u)
           \/ /\ s.state = Preparing
              /\ \E p \in Proposals :
                   /\ p.ballot = s.prepared /\ Logs(s, u, p) /\ u.prepared = s.prepared
                   /\ u.state = StablePrimary /\ ~u.ready /\ u.remote = {}
                   /\ u.executed = s.executed
                   /\ \A x \in u.out : x \in s.out \/ Asks(x, p)
<1> DEFINE f == Freshest(s, m)
           r == [s EXCEPT !.freshest = f]
           t == Heard(r, m, m.proposalBallot)
           p == [t.freshest EXCEPT !.ballot = s.prepared]
           q == [t EXCEPT !.freshest = p]
           b == Broadcast(q, Request(s, p))
           u == LogProposal(b, p)
           v == [u EXCEPT !.ready = FALSE]
           w == Stabilize(v, StablePrimary)
           z == AfterPrepareResponse(s, m)
<1>0. s.state = Preparing => ~Stable(s)
  BY DEF Stable, Preparing, StablePrimary, StableSecondary
<1>1. s \in NodeState /\ (z # s => s.state = Preparing /\ z \in {t, w})
  BY DEF AfterPrepareResponse, Sound
<1>2. f \in Proposals
  <2>1. Proposal(m.proposalBallot, m.decree, m.command) \in Proposals
    BY MessageFields DEF Proposal, Proposals
  <2>2. s.freshest \in Proposals
    BY <1>1, StateFields
  <2> QED
    BY <2>1, <2>2 DEF Freshest
<1> HIDE DEF f, z
<1>3. /\ Sound(r) /\ r \in NodeState /\ r.id = s.id /\ r.log = s.log /\ r.accepted = s.accepted
      /\ r.executed = s.executed /\ r.prepared = s.prepared /\ r.out = s.out /\ r.state = s.state
      /\ r.freshest = f /\ r.election = s.election /\ r.ready = s.ready
  BY <1>1, <1>2 DEF Sound, NodeState
<1> HIDE DEF r
<1>4. /\ Sound(t) /\ t \in NodeState /\ t.id = s.id /\ t.log = s.log /\ t.accepted = s.accepted
      /\ t.executed = s.executed /\ t.prepared = s.prepared /\ t.out = s.out /\ t.state = s.state
      /\ t.freshest = f /\ t.election = s.election /\ t.ready = s.ready
  <2>1. Sound(t)
    BY <1>3, MessageFields, HeardSound
  <2> QED
    BY <1>3, <2>1 DEF Heard, NodeState, Sound
<1> HIDE DEF t
<1>5. CASE z = s
  BY <1>1, <1>5, SteadyUnchanged DEF z
<1>6. CASE z = t /\ s.state = Preparing
  <2>1. Firm(s, t)
    BY <1>1, <1>4, FirmSame
  <2>2. Steady(s, t)
    BY <1>0, <1>1, <1>4, <1>6, <2>1, SteadySame DEF Stable
  <2> QED
    BY <1>6, <2>2 DEF z
<1>7. CASE z = w /\ s.state = Preparing
  <2>1. p \in Proposals /\ p.ballot = s.prepared
    BY <1>1, <1>2, <1>4, StateFields DEF Proposals
  <2> HIDE DEF p
  <2>2. /\ Sound(q) /\ q \in NodeState /\ q.id = s.id /\ q.log = s.log /\ q.accepted = s.accepted
        /\ q.executed = s.executed /\ q.prepared = s.prepared /\ q.out = s.out
        /\ q.election = s.election
    BY <1>4, <2>1 DEF Sound, NodeState
  <2> HIDE DEF q
  <2>3. /\ Sound(b) /\ b \in NodeState /\ b.id = s.id /\ b.log = s.log /\ b.accepted = s.accepted
        /\ b.executed = s.executed /\ b.prepared = s.prepared
        /\ \A x \in b.out : x \in s.out \/ Asks(x, p)
    BY <1>1, <2>1, <2>2, RequestSound, RequestAsks DEF Sound
  <2>4. b.election = Finite
    <3>1. s.election = Finite
      BY <1>7 DEF Sound, Preparing, Initializing, Inactive
    <3> QED
      BY <2>2, <3>1, BroadcastKeeps
  <2> HIDE DEF b
  <2>5. /\ Sound(u) /\ u \in NodeState /\ Logs(b, u, p) /\ u.executed = b.executed /\ u.out = b.out
        /\ u.prepared = b.prepared
    <3>1. p.ballot.num <= b.prepared.num
      BY <1>1, <2>1, <2>3, PreparedNum
    <3> QED
      BY <2>1, <2>3, <2>4, <3>1, LogProposalSound, LogProposalLogs, MildLogProposal DEF Sound
  <2> HIDE DEF u
  <2>6. /\ w.id = u.id /\ w.log = u.log /\ w.accepted = u.accepted /\ w.executed = u.executed
        /\ w.prepared = u.prepared /\ w.out = u.out /\ w.state = StablePrimary /\ w.remote = {}
        /\ w.ready = FALSE
    BY <2>5 DEF Stabilize, NodeState
  <2> HIDE DEF w
  <2>7. Logs(s, w, p)
    BY <2>3, <2>5, <2>6 DEF Logs
  <2>8. \A x \in w.out : x \in s.out \/ Asks(x, p)
    BY <2>3, <2>5, <2>6
  <2> QED
    BY <1>7, <2>1, <2>3, <2>5, <2>6, <2>7, <2>8 DEF z
<1> QED
  BY <1>1, <1>5, <1>6, <1>7

LEMMA AcceptResponseCounts ==
  ASSUME NEW s, Sound(s), NEW m \in Message
  PROVE  LET u == AfterAcceptResponse(s, m) IN
           \/ u = s
           \/ /\ Counts(s, m)
              /\ u.id = s.id /\ u.log = s.log /\ u.accepted = s.accepted
              /\ u.prepared = s.prepared /\ u.state = s.state /\ u.out = s.out
              /\ \A r \in u.remote : r \in s.remote \/ r.node = m.from
              /\ \/ u.executed = s.executed /\ u.ready = s.ready
                 \/ /\ u.executed = s.executed \cup {Done(s.accepted)} /\ u.ready
                    /\ Sound(u) /\ IsMajority(Cardinality(u.remote) + 1)
<1> DEFINE t == Heard(s, m, m.ballot)
           e == Execute(t, s.accepted)
           v == [e EXCEPT !.ready = TRUE]
           z == AfterAcceptResponse(s, m)
<1>1. z = s \/ (Counts(s, m) /\ (z = t \/ (z = v /\ IsMajority(Cardinality(t.remote) + 1))))
  BY DEF AfterAcceptResponse
<1>2. Sound(z)
  BY AcceptResponseSound
<1> HIDE DEF z
<1>3. /\ Sound(t) /\ t \in NodeState /\ t.id = s.id /\ t.log = s.log /\ t.accepted = s.accepted
      /\ t.executed = s.executed /\ t.prepared = s.prepared /\ t.out = s.out /\ t.state = s.state
      /\ t.ready = s.ready /\ \A r \in t.remote : r \in s.remote \/ r.node = m.from
  <2>1. Sound(t)
    BY MessageFields, HeardSound
  <2>2. \A r \in t.remote : r \in s.remote \/ r.node = m.from
    BY DEF Heard, NodeState, Sound
  <2>3. /\ t.id = s.id /\ t.log = s.log /\ t.accepted = s.accepted /\ t.executed = s.executed
        /\ t.prepared = s.prepared /\ t.out = s.out /\ t.state = s.state /\ t.ready = s.ready
    BY DEF Heard, NodeState, Sound
  <2> QED
    BY <2>1, <2>2, <2>3 DEF Sound
<1> HIDE DEF t
<1>4. /\ e \in NodeState /\ e.id = s.id /\ e.log = s.log /\ e.accepted = s.accepted
      /\ e.executed = s.executed \cup {Done(s.accepted)} /\ e.prepared = s.prepared
      /\ e.out = s.out /\ e.state = s.state /\ e.remote = t.remote
  <2>1. Sound(e)
    BY <1>3, StateFields, ExecuteSound DEF Sound
  <2> QED
    BY <1>3, <2>1, ExecuteDone DEF Sound
<1> HIDE DEF e
<1>5. /\ v.id = s.id /\ v.log = s.log /\ v.accepted = s.accepted
      /\ v.executed = s.executed \cup {Done(s.accepted)} /\ v.prepared = s.prepared
      /\ v.out = s.out /\ v.state = s.state /\ v.remote = t.remote /\ v.ready = TRUE
  BY <1>4 DEF NodeState
<1> HIDE DEF v
<1>6. CASE z = s
  BY <1>6 DEF z
<1>7. CASE Counts(s, m) /\ z = t
  BY <1>3, <1>7 DEF z
<1>8. CASE Counts(s, m) /\ z = v /\ IsMajority(Cardinality(t.remote) + 1)
  BY <1>2, <1>3, <1>5, <1>8 DEF z
<1> QED
  BY <1>1, <1>6, <1>7, <1>8

LEMMA RepeatAsks ==
  ASSUME NEW s \in NodeState
  PROVE  LET u == Repeat(s) IN
           /\ u.id = s.id /\ u.log = s.log /\ u.accepted = s.accepted /\ u.prepared = s.prepared
           /\ u.state = s.state /\ u.executed = s.executed /\ u.ready = s.ready /\ u.remote = {}
           /\ \A x \in u.out : x \in s.out \/ Asks(x, s.accepted)
<1> DEFINE t == [s EXCEPT !.remote = {}]
           p == s.accepted
           u == Broadcast(t, Request(s, p))
<1>1. /\ t \in NodeState /\ t.id = s.id /\ t.log = s.log /\ t.accepted = s.accepted
      /\ t.prepared = s.prepared /\ t.state = s.state /\ t.executed = s.executed
      /\ t.ready = s.ready /\ t.remote = {} /\ t.out = s.out
  BY DEF NodeState
<1>2. Repeat(s) = u
  BY DEF Repeat
<1> HIDE DEF t, p
<1>3. /\ u.id = t.id /\ u.log = t.log /\ u.accepted = t.accepted /\ u.executed = t.executed
      /\ u.prepared = t.prepared /\ u.state = t.state /\ u.remote = t.remote
      /\ u.ready = t.ready
      /\ \A x \in u.out : x \in t.out \/ Asks(x, p)
  BY <1>1, RequestAsks
<1> HIDE DEF u
<1> QED
  BY <1>1, <1>2, <1>3 DEF p

LEMMA ProposeLogs ==
  ASSUME NEW s, Sound(s), MaySend(s), s.commandQ # <<>>
  PROVE  LET u == Propose(s) IN
           \E p \in Proposals :
             /\ p.ballot = s.accepted.ballot /\ p.decree = s.accepted.decree + 1
             /\ Logs(s, u, p) /\ u.state = s.state /\ u.executed = s.executed
             /\ ~u.ready /\ u.remote = {}
             /\ \A x \in u.out : x \in s.out \/ Asks(x, p)
<1> DEFINE p == Proposal(s.accepted.ballot, s.accepted.decree + 1, Head(s.commandQ))
           q == Tail(s.commandQ)
           t == [s EXCEPT !.remote = {}, !.commandQ = q, !.ready = FALSE]
           u == Broadcast(t, Request(s, p))
           v == LogProposal(u, p)
<1>1. Head(s.commandQ) \in Commands \ {0} /\ q \in Seq(Commands \ {0})
  BY StateFields, HeadTailProperties DEF Sound
<1>2. p \in Proposals /\ p.ballot = s.accepted.ballot /\ p.decree = s.accepted.decree + 1
  BY <1>1, StateFields, ProposalFields DEF Proposal, Proposals, Sound
<1>3. Propose(s) = v
  BY DEF Propose
<1> HIDE DEF p, q
<1>4. /\ s \in NodeState /\ Sound(t) /\ t \in NodeState /\ t.id = s.id /\ t.log = s.log
      /\ t.prepared = s.prepared /\ t.state = s.state /\ t.executed = s.executed
      /\ t.ready = FALSE /\ t.remote = {} /\ t.out = s.out
  BY <1>1 DEF Sound, NodeState
<1> HIDE DEF t
<1>5. /\ u \in NodeState /\ u.id = t.id /\ u.log = t.log /\ u.executed = t.executed
      /\ u.prepared = t.prepared /\ u.state = t.state /\ u.remote = t.remote
      /\ u.ready = t.ready
      /\ \A x \in u.out : x \in t.out \/ Asks(x, p)
  BY <1>2, <1>4, RequestSound, RequestAsks DEF Sound
<1> HIDE DEF u
<1>6. /\ Logs(u, v, p) /\ v.executed = u.executed /\ v.state = u.state
      /\ v.remote = u.remote /\ v.ready = u.ready /\ v.out = u.out
  BY <1>2, <1>5, LogProposalLogs
<1> HIDE DEF v
<1>7. Logs(s, v, p)
  BY <1>4, <1>5, <1>6 DEF Logs
<1>8. \A x \in v.out : x \in s.out \/ Asks(x, p)
  BY <1>4, <1>5, <1>6
<1> QED
  BY <1>2, <1>3, <1>4, <1>5, <1>6, <1>7, <1>8

-----------------------------------------------------------------------------
(* What has been accepted, a history *)

\* Node by has accepted a proposal, as its proposer or at a request.
Taking(by, what) == [by |-> by, what |-> what]
Taken == [by : Node, what : Proposals]

Plus(A, by, what) == A \cup {Taking(by, what)}

Takers(A, p) == {q \in Node : Taking(q, p) \in A}

Chosen(A, p) == IsMajority(Cardinality(Takers(A, p)))

\* Of one ballot, whose node a majority has promised, a decree has one
\* proposal, and the next decree follows when that is chosen.
Settled(V, A) ==
  /\ A \subseteq Taken
  /\ \A a \in A :
       /\ a.what.ballot.num >= 1
       /\ IsMajority(Cardinality(PromisedTo(V, a.what.ballot.num, a.what.ballot.node)))
  /\ \A a, c \in A :
       a.what.ballot.num = c.what.ballot.num =>
         /\ a.what.decree = c.what.decree => a.what = c.what
         /\ c.what.decree = a.what.decree + 1 => Chosen(A, a.what)

\* What the acceptances say of a node.
HasAll(A, s) == \A a \in A : a.by = s.id => \E i \in DOMAIN s.log : s.log[i] = a.what

Leads(A, s) ==
  s.state = StablePrimary =>
    /\ s.accepted.ballot.node = s.id /\ s.accepted.ballot.num >= 1
    /\ s.ready => Chosen(A, s.accepted)
    /\ \A a \in A : a.what.ballot = s.accepted.ballot => a.what.decree <= s.accepted.decree

Votes(A, s) == Stable(s) => \A r \in s.remote : r.node # s.id /\ Taking(r.node, s.accepted) \in A

Executes(A, s) ==
  \A e \in s.executed : \E a \in A : a.by = s.id /\ Done(a.what) = e /\ Chosen(A, a.what)

Prepares(A, s) ==
  \A a \in A : a.what.ballot.node = s.id =>
    /\ a.what.ballot.num <= s.prepared.num
    /\ s.state = Preparing => a.what.ballot.num < s.prepared.num

Reports(A, s) ==
  /\ s.accepted.ballot.num >= 1 => Taking(s.id, s.accepted) \in A
  /\ HasAll(A, s) /\ Prepares(A, s) /\ Leads(A, s) /\ Votes(A, s) /\ Executes(A, s)

\* What they say of a message.
Tells(A, x) ==
  /\ x.type = "AcceptReq" => \E a \in A : Asks(x, a.what)
  /\ x.type = "AcceptResp" /\ x.accept =>
       /\ x.from # x.to
       /\ \E a \in A : a.by = x.from /\ a.what.ballot = x.ballot /\ a.what.decree = x.decree

\* A step of a node from s to t that makes the acceptances A those of B.
Adds(V, A, B, s, t) ==
  /\ A \subseteq B /\ Settled(V, B)
  /\ \A b \in B \ A : /\ b.by = s.id
                      /\ b.what.ballot.node = s.id \/ \E a \in A : a.what = b.what
  /\ t.id = s.id /\ Reports(B, t)
  /\ \A x \in t.out : Tells(B, x)

LEMMA TakersFinite ==
  ASSUME NEW A, NEW p
  PROVE  /\ Takers(A, p) \subseteq Node /\ IsFiniteSet(Takers(A, p))
         /\ Cardinality(Takers(A, p)) \in Nat
<1>1. Takers(A, p) \in SUBSET Node
  BY DEF Takers
<1> QED
  BY <1>1, NodesFinite, FS_Subset, FS_CardinalityType

LEMMA ChosenMore ==
  ASSUME NEW A, NEW B, A \subseteq B, NEW p, Chosen(A, p) PROVE Chosen(B, p)
<1> DEFINE S == Takers(A, p)
           T == Takers(B, p)
<1>1. S \subseteq T /\ IsMajority(Cardinality(S))
  BY DEF Takers, Chosen
<1>2. IsFiniteSet(T) /\ Cardinality(S) \in Nat /\ Cardinality(T) \in Nat
  BY TakersFinite
<1> HIDE DEF S, T
<1>3. Cardinality(S) <= Cardinality(T)
  BY <1>1, <1>2, FS_Subset
<1>4. IsMajority(Cardinality(T))
  BY <1>1, <1>2, <1>3, MajorityMore
<1> QED
  BY <1>4 DEF T, Chosen

LEMMA MajorityOfMore ==
  ASSUME NEW V, NEW W, V \subseteq W, NEW num, NEW n, IsMajority(Cardinality(PromisedTo(V, num, n)))
  PROVE  IsMajority(Cardinality(PromisedTo(W, num, n)))
<1> DEFINE S == PromisedTo(V, num, n)
           T == PromisedTo(W, num, n)
<1>1. S \subseteq T /\ IsMajority(Cardinality(S))
  BY DEF PromisedTo
<1>2. IsFiniteSet(T) /\ Cardinality(S) \in Nat /\ Cardinality(T) \in Nat
  BY PromisedFinite
<1> HIDE DEF S, T
<1>3. Cardinality(S) <= Cardinality(T)
  BY <1>1, <1>2, FS_Subset
<1>4. IsMajority(Cardinality(T))
  BY <1>1, <1>2, <1>3, MajorityMore
<1> QED
  BY <1>4 DEF T

LEMMA SettledMore ==
  ASSUME NEW V, NEW W, V \subseteq W, NEW A, Settled(V, A) PROVE Settled(W, A)
  BY MajorityOfMore DEF Settled

LEMMA TellsMore ==
  ASSUME NEW A, NEW B, A \subseteq B, NEW x, Tells(A, x) PROVE Tells(B, x)
  BY DEF Tells

LEMMA TellsMute ==
  ASSUME NEW A, NEW x, Mute(x) PROVE Tells(A, x)
  BY DEF Tells, Mute

LEMMA TakenFields ==
  ASSUME NEW A \in SUBSET Taken, NEW a \in A
  PROVE  /\ a.by \in Node /\ a.what \in Proposals /\ a = Taking(a.by, a.what)
         /\ a.what.ballot \in Ballots /\ a.what.ballot.num \in Nat /\ a.what.decree \in Nat
<1>1. a.by \in Node /\ a.what \in Proposals /\ a = Taking(a.by, a.what)
  BY DEF Taken, Taking
<1> QED
  BY <1>1, ProposalFields, BallotFields

\* Acceptances of one ballot number are of one ballot.
LEMMA OneBallot ==
  ASSUME NEW V, Once(V), NEW A, Settled(V, A), NEW a \in A, NEW c \in A,
         a.what.ballot.num = c.what.ballot.num
  PROVE  a.what.ballot = c.what.ballot
<1>1. a.what.ballot.node = c.what.ballot.node
  BY MajoritiesAgree DEF Settled
<1>2. a.what.ballot \in Ballots /\ c.what.ballot \in Ballots
  BY TakenFields DEF Settled
<1> QED
  BY <1>1, <1>2 DEF Ballots

\* The acceptances of the others change nothing for a node.
LEMMA ReportsMore ==
  ASSUME NEW A, NEW B, A \subseteq B, NEW s, Reports(A, s),
         \A b \in B \ A : /\ b.by # s.id
                          /\ b.what.ballot.node # s.id \/ \E a \in A : a.what = b.what
  PROVE  Reports(B, s)
<1>1. HasAll(B, s)
  BY DEF Reports, HasAll
<1>2. Prepares(B, s)
  <2> SUFFICES ASSUME NEW b \in B, b.what.ballot.node = s.id
               PROVE  /\ b.what.ballot.num <= s.prepared.num
                      /\ s.state = Preparing => b.what.ballot.num < s.prepared.num
    BY DEF Prepares
  <2>1. PICK a \in A : a.what = b.what
    OBVIOUS
  <2> QED
    BY <2>1 DEF Reports, Prepares
<1>3. Leads(B, s)
  <2> SUFFICES ASSUME s.state = StablePrimary
               PROVE  /\ s.accepted.ballot.node = s.id /\ s.accepted.ballot.num >= 1
                      /\ s.ready => Chosen(B, s.accepted)
                      /\ \A b \in B : b.what.ballot = s.accepted.ballot =>
                           b.what.decree <= s.accepted.decree
    BY DEF Leads
  <2>1. ASSUME NEW b \in B, b.what.ballot = s.accepted.ballot
        PROVE  b.what.decree <= s.accepted.decree
    <3>1. PICK a \in A : a.what = b.what
      BY <2>1 DEF Reports, Leads
    <3> QED
      BY <2>1, <3>1 DEF Reports, Leads
  <2> QED
    BY <2>1, ChosenMore DEF Reports, Leads
<1>4. Votes(B, s)
  BY DEF Reports, Votes
<1>5. Executes(B, s)
  BY ChosenMore DEF Reports, Executes
<1> QED
  BY <1>1, <1>2, <1>3, <1>4, <1>5 DEF Reports

LEMMA SteadyAdds ==
  ASSUME NEW V, NEW A, Settled(V, A), NEW s \in NodeState, NEW t \in NodeState, Reports(A, s),
         \A x \in s.out : Tells(A, x), Steady(s, t)
  PROVE  Adds(V, A, A, s, t)
<1>1. /\ t.id = s.id /\ t.log = s.log /\ t.accepted = s.accepted /\ t.executed = s.executed
      /\ t.prepared.num >= s.prepared.num
      /\ s.prepared.num \in Nat /\ t.prepared.num \in Nat
  BY PreparedNum DEF Steady, Firm
<1>2. \A a \in A : a.what.ballot.num \in Nat
  BY TakenFields DEF Settled
<1>3. HasAll(A, t) /\ Executes(A, t)
  BY <1>1 DEF Reports, HasAll, Executes
<1>4. Prepares(A, t)
  BY <1>1, <1>2 DEF Reports, Prepares, Steady
<1>5. Leads(A, t)
  BY <1>1 DEF Reports, Leads, Steady
<1>6. Votes(A, t)
  BY <1>1 DEF Reports, Votes, Steady
<1>7. Reports(A, t)
  BY <1>1, <1>3, <1>4, <1>5, <1>6 DEF Reports
<1>8. \A x \in t.out : Tells(A, x)
  BY TellsMute DEF Steady, Firm
<1> QED
  BY <1>1, <1>7, <1>8 DEF Adds

-----------------------------------------------------------------------------
(* The steps that accept, count votes and propose *)

LEMMA PlusTaken ==
  ASSUME NEW A \in SUBSET Taken, NEW by \in Node, NEW p \in Proposals
  PROVE  /\ A \subseteq Plus(A, by, p) /\ Plus(A, by, p) \subseteq Taken
         /\ Taking(by, p) \in Plus(A, by, p) /\ Taking(by, p).by = by /\ Taking(by, p).what = p
         /\ \A b \in Plus(A, by, p) : b \in A \/ b = Taking(by, p)
  BY DEF Plus, Taking, Taken

LEMMA SettledAgain ==
  ASSUME NEW V, NEW A, Settled(V, A), NEW by \in Node, NEW p \in Proposals,
         \E a \in A : a.what = p
  PROVE  Settled(V, Plus(A, by, p))
<1> DEFINE B == Plus(A, by, p)
<1>1. A \subseteq B /\ B \subseteq Taken /\ \A b \in B : \E a \in A : a.what = b.what
  BY PlusTaken DEF Settled
<1> HIDE DEF B
<1>2. Settled(V, B)
  <2>1. ASSUME NEW b \in B
        PROVE  /\ b.what.ballot.num >= 1
               /\ IsMajority(Cardinality(PromisedTo(V, b.what.ballot.num, b.what.ballot.node)))
    BY <1>1 DEF Settled
  <2>2. ASSUME NEW b \in B, NEW c \in B, b.what.ballot.num = c.what.ballot.num
        PROVE  /\ b.what.decree = c.what.decree => b.what = c.what
               /\ c.what.decree = b.what.decree + 1 => Chosen(B, b.what)
    <3>1. PICK a \in A, d \in A : a.what = b.what /\ d.what = c.what
      BY <1>1
    <3>2. c.what.decree = b.what.decree + 1 => Chosen(A, a.what)
      BY <2>2, <3>1 DEF Settled
    <3> QED
      BY <1>1, <2>2, <3>1, <3>2, ChosenMore DEF Settled
  <2> QED
    BY <1>1, <2>1, <2>2 DEF Settled
<1> QED
  BY <1>2 DEF B

\* A proposal above those of its ballot, of which the last one is chosen.
LEMMA SettledNew ==
  ASSUME NEW V, NEW A, Settled(V, A), NEW by \in Node, NEW p \in Proposals, p.ballot.num >= 1,
         IsMajority(Cardinality(PromisedTo(V, p.ballot.num, p.ballot.node))),
         \A a \in A : a.what.ballot.num = p.ballot.num =>
           a.what.decree < p.decree /\ (p.decree = a.what.decree + 1 => Chosen(A, a.what))
  PROVE  Settled(V, Plus(A, by, p))
<1> DEFINE B == Plus(A, by, p)
           b0 == Taking(by, p)
<1>1. /\ A \subseteq B /\ B \subseteq Taken /\ b0.what = p
      /\ \A b \in B : b \in A \/ b = b0
  BY PlusTaken DEF Settled
<1>2. p.decree \in Nat /\ \A a \in A : a.what.decree \in Nat
  BY ProposalFields, TakenFields DEF Settled
<1> HIDE DEF B, b0
<1>3. ASSUME NEW b \in B
      PROVE  /\ b.what.ballot.num >= 1
             /\ IsMajority(Cardinality(PromisedTo(V, b.what.ballot.num, b.what.ballot.node)))
  BY <1>1 DEF Settled
<1>4. ASSUME NEW b \in B, NEW c \in B, b.what.ballot.num = c.what.ballot.num
      PROVE  /\ b.what.decree = c.what.decree => b.what = c.what
             /\ c.what.decree = b.what.decree + 1 => Chosen(B, b.what)
  <2>1. CASE b \in A /\ c \in A
    <3>1. c.what.decree = b.what.decree + 1 => Chosen(A, b.what)
      BY <1>4, <2>1 DEF Settled
    <3> QED
      BY <1>1, <1>4, <2>1, <3>1, ChosenMore DEF Settled
  <2>2. CASE b \in A /\ c = b0
    <3>1. /\ b.what.decree < c.what.decree /\ b.what.decree \in Nat /\ c.what.decree \in Nat
          /\ c.what.decree = b.what.decree + 1 => Chosen(A, b.what)
      BY <1>1, <1>2, <1>4, <2>2
    <3> QED
      BY <1>1, <3>1, ChosenMore
  <2>3. CASE b = b0 /\ c \in A
    <3>1. c.what.decree < b.what.decree /\ b.what.decree \in Nat /\ c.what.decree \in Nat
      BY <1>1, <1>2, <1>4, <2>3
    <3> QED
      BY <3>1
  <2>4. CASE b = b0 /\ c = b0
    <3>1. c.what.decree # b.what.decree + 1
      BY <1>1, <1>2, <2>4
    <3> QED
      BY <2>4, <3>1
  <2> QED
    BY <1>1, <2>1, <2>2, <2>3, <2>4
<1>5. Settled(V, B)
  BY <1>1, <1>3, <1>4 DEF Settled
<1> QED
  BY <1>5 DEF B

LEMMA LogsHasAll ==
  ASSUME NEW A \in SUBSET Taken, NEW s \in NodeState, HasAll(A, s), NEW p \in Proposals,
         NEW t, Logs(s, t, p)
  PROVE  HasAll(Plus(A, s.id, p), t)
<1>1. /\ t.log = Append(s.log, p) /\ s.log \in Seq(Proposals) /\ t.id = s.id /\ s.id \in Node
  BY StateFields DEF Logs
<1>2. /\ DOMAIN s.log \subseteq DOMAIN t.log /\ \A i \in DOMAIN s.log : t.log[i] = s.log[i]
      /\ Len(s.log) + 1 \in DOMAIN t.log /\ t.log[Len(s.log) + 1] = p
  BY <1>1, AppendProperties, LenProperties
<1> SUFFICES ASSUME NEW b \in Plus(A, s.id, p), b.by = t.id
             PROVE  \E i \in DOMAIN t.log : t.log[i] = b.what
  BY DEF HasAll
<1>3. CASE b \in A
  BY <1>1, <1>2, <1>3 DEF HasAll
<1>4. CASE b = Taking(s.id, p)
  BY <1>2, <1>4 DEF Taking
<1> QED
  BY <1>1, <1>3, <1>4, PlusTaken

\* A node accepts what another has proposed, and executes what it has accepted
\* when the next decree is proposed.
LEMMA AcceptAdds ==
  ASSUME NEW V, NEW A, Settled(V, A), NEW s, Sound(s), s.state # Inactive, Reports(A, s),
         \A x \in s.out : Tells(A, x), NEW m \in Message, m.type = "AcceptReq", Tells(A, m),
         AcceptsNow(s, m)
  PROVE  \E B : Adds(V, A, B, s, Accept(s, m))
<1> DEFINE p == Proposal(m.ballot, m.decree, m.command)
           B == Plus(A, s.id, p)
           t == Accept(s, m)
<1>1. p \in Proposals /\ p.ballot = m.ballot /\ p.decree = m.decree
  BY MessageFields DEF Proposal, Proposals
<1>2. PICK a \in A : a.what = p
  <2>1. PICK a \in A : Asks(m, a.what)
    BY DEF Tells
  <2>2. a.what \in Proposals
    BY TakenFields DEF Settled
  <2> QED
    BY <2>1, <2>2 DEF Asks, Proposal, Proposals
<1>3. s \in NodeState /\ s.election = Finite /\ s.id \in Node /\ A \in SUBSET Taken
  BY StateFields DEF AcceptsNow, Sound, Settled
<1>4. /\ Logs(s, t, p) /\ t.state = StableSecondary /\ t.remote = {}
      /\ \A e \in t.executed :
           e \in s.executed \/ (e = Done(s.accepted) /\ m.decree = s.accepted.decree + 1)
      /\ \A x \in t.out : \/ x \in s.out
                          \/ /\ x.type = "AcceptResp" /\ x.from = s.id /\ x.to = m.from
                             /\ x.ballot = m.ballot /\ x.decree = m.decree
  BY <1>3, AcceptLogs
<1>5. t \in NodeState
  BY <1>3, AcceptSound DEF Sound
<1> HIDE DEF p, t
<1>6. /\ A \subseteq B /\ B \subseteq Taken /\ Taking(s.id, p) \in B
      /\ Taking(s.id, p).by = s.id /\ Taking(s.id, p).what = p
      /\ \A b \in B : b \in A \/ b = Taking(s.id, p)
  BY <1>1, <1>3, PlusTaken
<1>7. Settled(V, B) /\ HasAll(B, t)
  BY <1>1, <1>2, <1>3, <1>4, SettledAgain, LogsHasAll DEF Reports
<1> HIDE DEF B
<1>8. t.id = s.id /\ t.accepted = p /\ t.prepared.num >= s.prepared.num
      /\ t.prepared.num \in Nat /\ s.prepared.num \in Nat
  BY <1>3, <1>4, <1>5, PreparedNum DEF Logs
<1>9. Prepares(B, t)
  <2> SUFFICES ASSUME NEW b \in B, b.what.ballot.node = s.id
               PROVE  b.what.ballot.num <= t.prepared.num
    BY <1>4, <1>8 DEF Prepares, StableSecondary, Preparing
  <2>1. PICK c \in A : c.what = b.what
    BY <1>2, <1>6
  <2>2. c.what.ballot.num <= s.prepared.num /\ c.what.ballot.num \in Nat
    BY <1>3, <2>1, TakenFields DEF Reports, Prepares
  <2> QED
    BY <1>8, <2>1, <2>2
<1>10. Leads(B, t) /\ Votes(B, t)
  BY <1>4 DEF Leads, Votes, StablePrimary, StableSecondary
<1>11. Executes(B, t)
  <2> SUFFICES ASSUME NEW e \in t.executed
               PROVE  \E b \in B : b.by = s.id /\ Done(b.what) = e /\ Chosen(B, b.what)
    BY <1>8 DEF Executes
  <2>1. CASE e \in s.executed
    <3>1. PICK c \in A : c.by = s.id /\ Done(c.what) = e /\ Chosen(A, c.what)
      BY <2>1 DEF Reports, Executes
    <3> QED
      BY <1>6, <3>1, ChosenMore
  <2>2. CASE e = Done(s.accepted) /\ m.decree = s.accepted.decree + 1
    <3>1. m.ballot.num = s.accepted.ballot.num
      <4>1. s.accepted.decree \in Nat
        BY <1>3, StateFields, ProposalFields
      <4> QED
        BY <2>2, <4>1 DEF AcceptsNow, Extends
    <3>2. s.accepted.ballot.num >= 1
      BY <1>1, <1>2, <3>1 DEF Settled
    <3> DEFINE c == Taking(s.id, s.accepted)
    <3>3. c \in A /\ c.by = s.id /\ c.what = s.accepted
      BY <3>2 DEF Reports, Taking
    <3> HIDE DEF c
    <3>4. Chosen(A, c.what)
      BY <1>1, <1>2, <2>2, <3>1, <3>3 DEF Settled
    <3> QED
      BY <1>6, <2>2, <3>3, <3>4, ChosenMore
  <2> QED
    BY <1>4, <2>1, <2>2
<1>12. Reports(B, t)
  BY <1>6, <1>7, <1>8, <1>9, <1>10, <1>11 DEF Reports
<1>13. ASSUME NEW x \in t.out PROVE Tells(B, x)
  <2>1. CASE x \in s.out
    BY <1>6, <2>1, TellsMore
  <2>2. CASE /\ x.type = "AcceptResp" /\ x.from = s.id /\ x.to = m.from
             /\ x.ballot = m.ballot /\ x.decree = m.decree
    BY <1>1, <1>6, <2>2 DEF Tells, AcceptsNow
  <2> QED
    BY <1>4, <2>1, <2>2
<1>14. \A b \in B \ A : b.by = s.id /\ \E c \in A : c.what = b.what
  BY <1>2, <1>6
<1>15. Adds(V, A, B, s, t)
  BY <1>6, <1>7, <1>8, <1>12, <1>13, <1>14 DEF Adds
<1> QED
  BY <1>15 DEF t

\* A node that is elected proposes in a ballot in which nobody has.
LEMMA PrepareResponseAdds ==
  ASSUME NEW V, Once(V), NEW A, Settled(V, A), NEW s, Sound(s), Preparer(s), Trusts(V, s),
         Reports(A, s), \A x \in s.out : Tells(A, x), NEW m \in Message,
         Trusts(V, AfterPrepareResponse(s, m))
  PROVE  \E B : Adds(V, A, B, s, AfterPrepareResponse(s, m))
<1> DEFINE t == AfterPrepareResponse(s, m)
<1>1. s \in NodeState /\ t \in NodeState /\ s.id \in Node /\ A \in SUBSET Taken
  BY StateFields, PrepareResponseSound DEF Sound, Settled
<1>2. ASSUME Steady(s, t) PROVE \E B : Adds(V, A, B, s, t)
  <2>1. Adds(V, A, A, s, t)
    BY <1>1, <1>2, SteadyAdds
  <2> QED
    BY <2>1
<1>3. ASSUME s.state = Preparing, NEW p \in Proposals, p.ballot = s.prepared, Logs(s, t, p),
             t.prepared = s.prepared, t.state = StablePrimary, ~t.ready, t.remote = {},
             t.executed = s.executed, \A x \in t.out : x \in s.out \/ Asks(x, p)
      PROVE  \E B : Adds(V, A, B, s, t)
  <2> DEFINE B == Plus(A, s.id, p)
  <2> HIDE DEF t
  <2>1. t.id = s.id /\ t.accepted = p /\ p.ballot.num \in Nat /\ p.ballot.node = s.id
        /\ p.ballot.num >= 1
    BY <1>1, <1>3, PreparedNum DEF Logs, Trusts, Preparer
  <2>2. IsMajority(Cardinality(PromisedTo(V, p.ballot.num, s.id)))
    BY <1>3, <2>1 DEF Trusts, t
  <2>3. ASSUME NEW a \in A PROVE a.what.ballot.num # p.ballot.num
    <3>1. a.what.ballot.num \in Nat
      BY <1>1, TakenFields
    <3>2. CASE a.what.ballot.node = s.id
      BY <1>3, <2>1, <3>1, <3>2 DEF Reports, Prepares
    <3>3. CASE a.what.ballot.node # s.id
      BY <2>2, <3>3, MajoritiesAgree DEF Settled
    <3> QED
      BY <3>2, <3>3
  <2>4. Settled(V, B)
    BY <1>1, <2>1, <2>2, <2>3, SettledNew
  <2>5. /\ A \subseteq B /\ B \subseteq Taken /\ Taking(s.id, p) \in B
        /\ Taking(s.id, p).by = s.id /\ Taking(s.id, p).what = p
        /\ \A b \in B : b \in A \/ b = Taking(s.id, p)
    BY <1>1, PlusTaken
  <2>6. HasAll(B, t)
    BY <1>1, <1>3, LogsHasAll DEF Reports
  <2> HIDE DEF B
  <2>7. Prepares(B, t)
    <3> SUFFICES ASSUME NEW b \in B, b.what.ballot.node = s.id
                 PROVE  b.what.ballot.num <= t.prepared.num
      BY <1>3, <2>1 DEF Prepares, StablePrimary, Preparing
    <3>1. CASE b \in A
      BY <1>3, <3>1 DEF Reports, Prepares
    <3>2. CASE b = Taking(s.id, p)
      BY <1>3, <2>1, <2>5, <3>2
    <3> QED
      BY <2>5, <3>1, <3>2
  <2>8. Leads(B, t)
    <3>1. p.decree \in Nat
      BY ProposalFields
    <3>2. \A b \in B : b.what.ballot = p.ballot => b.what.decree <= p.decree
      BY <2>3, <2>5, <3>1
    <3> QED
      BY <1>3, <2>1, <3>2 DEF Leads
  <2>9. Votes(B, t)
    BY <1>3 DEF Votes
  <2>10. Executes(B, t)
    BY <1>3, <2>1, <2>5, ChosenMore DEF Reports, Executes
  <2>11. Reports(B, t)
    BY <2>1, <2>5, <2>6, <2>7, <2>8, <2>9, <2>10 DEF Reports
  <2>12. ASSUME NEW x \in t.out PROVE Tells(B, x)
    <3>1. CASE x \in s.out
      BY <2>5, <3>1, TellsMore
    <3>2. CASE Asks(x, p)
      BY <2>5, <3>2 DEF Tells, Asks
    <3> QED
      BY <1>3, <3>1, <3>2
  <2>13. \A b \in B \ A : b.by = s.id /\ b.what.ballot.node = s.id
    BY <2>1, <2>5
  <2>14. Adds(V, A, B, s, t)
    BY <2>1, <2>4, <2>5, <2>11, <2>12, <2>13 DEF Adds
  <2> QED
    BY <2>14
<1>4. \/ Steady(s, t)
      \/ /\ s.state = Preparing
         /\ \E p \in Proposals :
              /\ p.ballot = s.prepared /\ Logs(s, t, p) /\ t.prepared = s.prepared
              /\ t.state = StablePrimary /\ ~t.ready /\ t.remote = {}
              /\ t.executed = s.executed
              /\ \A x \in t.out : x \in s.out \/ Asks(x, p)
  BY PrepareResponseLogs
<1> HIDE DEF t
<1>5. ASSUME ~Steady(s, t) PROVE \E B : Adds(V, A, B, s, t)
  <2>1. PICK p \in Proposals :
          /\ p.ballot = s.prepared /\ Logs(s, t, p) /\ t.prepared = s.prepared
          /\ t.state = StablePrimary /\ ~t.ready /\ t.remote = {}
          /\ t.executed = s.executed
          /\ \A x \in t.out : x \in s.out \/ Asks(x, p)
    BY <1>4, <1>5
  <2> QED
    BY <1>3, <1>4, <1>5, <2>1
<1>6. \E B : Adds(V, A, B, s, t)
  BY <1>2, <1>5
<1> QED
  BY <1>6 DEF t

\* The votes a node has heard are acceptances of its proposal.
LEMMA VotesMajority ==
  ASSUME NEW A, NEW s, Sound(s), NEW n \in Node, NEW p, Taking(n, p) \in A,
         \A r \in s.remote : r.node # n /\ Taking(r.node, p) \in A,
         IsMajority(Cardinality(s.remote) + 1)
  PROVE  Chosen(A, p)
<1> DEFINE T == Takers(A, p)
           U == T \ {n}
           f == [r \in s.remote |-> r.node]
<1>1. IsFiniteSet(T) /\ Cardinality(T) \in Nat /\ n \in T
  BY TakersFinite DEF Takers
<1>2. \A r \in s.remote : r.node \in U
  BY StateFields DEF Takers, Sound
<1> HIDE DEF T
<1>3. IsFiniteSet(U) /\ Cardinality(U) = Cardinality(T) - 1
  BY <1>1, FS_RemoveElement
<1> HIDE DEF U
<1>4. f \in Injection(s.remote, U)
  BY <1>2 DEF Injection, IsInjective, Sound
<1> HIDE DEF f
<1>5. IsFiniteSet(s.remote) /\ Cardinality(s.remote) <= Cardinality(U)
  BY <1>3, <1>4, FS_Injection
<1>6. Cardinality(s.remote) \in Nat /\ Cardinality(U) \in Nat
  BY <1>3, <1>5, FS_CardinalityType
<1>7. Cardinality(s.remote) + 1 <= Cardinality(T) /\ Cardinality(s.remote) + 1 \in Nat
  BY <1>1, <1>3, <1>5, <1>6
<1> QED
  BY <1>1, <1>7, MajorityMore DEF T, Chosen

LEMMA AcceptResponseAdds ==
  ASSUME NEW V, Once(V), NEW A, Settled(V, A), NEW s, Sound(s), Reports(A, s),
         \A x \in s.out : Tells(A, x), NEW m \in Message, m.type = "AcceptResp", m.accept,
         m.to = s.id, Tells(A, m)
  PROVE  Adds(V, A, A, s, AfterAcceptResponse(s, m))
<1> DEFINE t == AfterAcceptResponse(s, m)
<1>1. s \in NodeState /\ t \in NodeState /\ s.id \in Node /\ A \in SUBSET Taken
  BY StateFields, AcceptResponseSound DEF Sound, Settled
<1>2. ASSUME t = s PROVE Adds(V, A, A, s, t)
  BY <1>1, <1>2, SteadyUnchanged, SteadyAdds
<1>3. ASSUME Counts(s, m), t.id = s.id, t.log = s.log, t.accepted = s.accepted,
             t.prepared = s.prepared, t.state = s.state, t.out = s.out,
             \A r \in t.remote : r \in s.remote \/ r.node = m.from,
             \/ t.executed = s.executed /\ t.ready = s.ready
             \/ /\ t.executed = s.executed \cup {Done(s.accepted)} /\ t.ready
                /\ Sound(t) /\ IsMajority(Cardinality(t.remote) + 1)
      PROVE  Adds(V, A, A, s, t)
  <2> HIDE DEF t
  <2>1. PICK a \in A : a.by = m.from /\ a.what.ballot = m.ballot /\ a.what.decree = m.decree
    BY DEF Tells
  <2>2. m.from # s.id
    BY DEF Tells
  <2>3. /\ s.accepted.ballot.num = a.what.ballot.num /\ s.accepted.decree = a.what.decree
        /\ s.accepted.ballot.num >= 1 /\ Stable(s)
    BY <1>3, <2>1 DEF Counts, Settled, Stable
  <2>4. Taking(s.id, s.accepted) \in A
    BY <2>3 DEF Reports
  <2>5. Taking(s.id, s.accepted).what = s.accepted /\ Taking(s.id, s.accepted).by = s.id
    BY DEF Taking
  <2>6. a.what = s.accepted
    BY <2>3, <2>4, <2>5 DEF Settled
  <2>7. Taking(m.from, s.accepted) \in A
    BY <1>1, <2>1, <2>6, TakenFields
  <2>8. \A r \in t.remote : r.node # s.id /\ Taking(r.node, s.accepted) \in A
    BY <1>3, <2>2, <2>3, <2>7 DEF Reports, Votes
  <2>9. CASE t.executed = s.executed /\ t.ready = s.ready
    <3>1. HasAll(A, t) /\ Prepares(A, t) /\ Leads(A, t) /\ Executes(A, t)
      BY <1>3, <2>9 DEF Reports, HasAll, Prepares, Leads, Executes
    <3>2. Reports(A, t)
      BY <1>3, <2>8, <3>1 DEF Reports, Votes
    <3> QED
      BY <1>3, <3>2 DEF Adds
  <2>10. CASE /\ t.executed = s.executed \cup {Done(s.accepted)} /\ t.ready
              /\ Sound(t) /\ IsMajority(Cardinality(t.remote) + 1)
    <3>1. Chosen(A, s.accepted)
      BY <1>1, <2>4, <2>8, <2>10, VotesMajority
    <3>2. HasAll(A, t) /\ Prepares(A, t)
      BY <1>3 DEF Reports, HasAll, Prepares
    <3>3. Leads(A, t)
      BY <1>3, <3>1 DEF Reports, Leads
    <3>4. Executes(A, t)
      BY <1>3, <2>4, <2>5, <2>10, <3>1 DEF Reports, Executes
    <3>5. Reports(A, t)
      BY <1>3, <2>8, <3>2, <3>3, <3>4 DEF Reports, Votes
    <3> QED
      BY <1>3, <3>5 DEF Adds
  <2> QED
    BY <1>3, <2>9, <2>10
<1>4. \/ t = s
      \/ /\ Counts(s, m)
         /\ t.id = s.id /\ t.log = s.log /\ t.accepted = s.accepted
         /\ t.prepared = s.prepared /\ t.state = s.state /\ t.out = s.out
         /\ \A r \in t.remote : r \in s.remote \/ r.node = m.from
         /\ \/ t.executed = s.executed /\ t.ready = s.ready
            \/ /\ t.executed = s.executed \cup {Done(s.accepted)} /\ t.ready
               /\ Sound(t) /\ IsMajority(Cardinality(t.remote) + 1)
  BY AcceptResponseCounts
<1> HIDE DEF t
<1>5. ASSUME t # s PROVE Adds(V, A, A, s, t)
  BY <1>3, <1>4, <1>5
<1>6. Adds(V, A, A, s, t)
  BY <1>2, <1>5
<1> QED
  BY <1>6 DEF t

LEMMA RepeatAdds ==
  ASSUME NEW V, NEW A, Settled(V, A), NEW s, Sound(s), MaySend(s), Reports(A, s),
         \A x \in s.out : Tells(A, x)
  PROVE  Adds(V, A, A, s, Repeat(s))
<1> DEFINE t == Repeat(s)
           p == s.accepted
<1>1. /\ t.id = s.id /\ t.log = s.log /\ t.accepted = p /\ t.prepared = s.prepared
      /\ t.state = s.state /\ t.executed = s.executed /\ t.ready = s.ready /\ t.remote = {}
      /\ \A x \in t.out : x \in s.out \/ Asks(x, p)
  BY RepeatAsks DEF Sound
<1> HIDE DEF t
<1>2. Taking(s.id, p) \in A /\ Taking(s.id, p).what = p
  BY DEF MaySend, Reports, Leads, Taking
<1>3. HasAll(A, t) /\ Prepares(A, t) /\ Leads(A, t) /\ Votes(A, t) /\ Executes(A, t)
  BY <1>1 DEF Reports, HasAll, Prepares, Leads, Votes, Executes
<1>4. Reports(A, t)
  BY <1>1, <1>3 DEF Reports
<1>5. \A x \in t.out : Tells(A, x)
  BY <1>1, <1>2 DEF Tells, Asks
<1>6. Adds(V, A, A, s, t)
  BY <1>1, <1>4, <1>5 DEF Adds
<1> QED
  BY <1>6 DEF t

\* A primary proposes the next decree when the last one is chosen.
LEMMA ProposeAdds ==
  ASSUME NEW V, Once(V), NEW A, Settled(V, A), NEW s, Sound(s), MaySend(s), s.ready,
         s.commandQ # <<>>, Reports(A, s), \A x \in s.out : Tells(A, x)
  PROVE  \E B : Adds(V, A, B, s, Propose(s))
<1> DEFINE t == Propose(s)
           old == s.accepted
<1>1. PICK p \in Proposals :
        /\ p.ballot = old.ballot /\ p.decree = old.decree + 1
        /\ Logs(s, t, p) /\ t.state = s.state /\ t.executed = s.executed
        /\ ~t.ready /\ t.remote = {} /\ \A x \in t.out : x \in s.out \/ Asks(x, p)
  BY ProposeLogs
<1> DEFINE B == Plus(A, s.id, p)
<1>2. /\ s \in NodeState /\ t \in NodeState /\ s.id \in Node /\ A \in SUBSET Taken
      /\ old \in Proposals /\ old.decree \in Nat /\ old.ballot.num \in Nat
      /\ p.ballot.num \in Nat /\ p.decree \in Nat
  BY StateFields, ProposeSound, ProposalFields, BallotFields DEF Sound, Settled
<1> HIDE DEF t
<1>3. /\ s.state = StablePrimary /\ old.ballot.node = s.id /\ old.ballot.num >= 1
      /\ Chosen(A, old) /\ Taking(s.id, old) \in A
      /\ \A a \in A : a.what.ballot = old.ballot => a.what.decree <= old.decree
  BY DEF MaySend, Reports, Leads
<1>4. Taking(s.id, old).what = old
  BY DEF Taking
<1>5. IsMajority(Cardinality(PromisedTo(V, p.ballot.num, p.ballot.node)))
  BY <1>1, <1>3, <1>4 DEF Settled
<1>6. ASSUME NEW a \in A, a.what.ballot.num = p.ballot.num
      PROVE  a.what.decree < p.decree /\ (p.decree = a.what.decree + 1 => Chosen(A, a.what))
  <2>1. a.what.ballot = old.ballot /\ a.what.decree \in Nat
    BY <1>1, <1>2, <1>3, <1>4, <1>6, OneBallot, TakenFields
  <2>2. a.what.decree <= old.decree
    BY <1>3, <2>1
  <2>3. ASSUME p.decree = a.what.decree + 1 PROVE a.what = old
    <3>1. a.what.decree = old.decree
      BY <1>1, <1>2, <2>1, <2>3
    <3> QED
      BY <1>3, <1>4, <2>1, <3>1 DEF Settled
  <2> QED
    BY <1>1, <1>2, <1>3, <2>1, <2>2, <2>3
<1>7. Settled(V, B)
  BY <1>1, <1>2, <1>3, <1>5, <1>6, SettledNew
<1>8. /\ A \subseteq B /\ B \subseteq Taken /\ Taking(s.id, p) \in B
      /\ Taking(s.id, p).by = s.id /\ Taking(s.id, p).what = p
      /\ \A b \in B : b \in A \/ b = Taking(s.id, p)
  BY <1>2, PlusTaken
<1>9. HasAll(B, t)
  BY <1>1, <1>2, LogsHasAll DEF Reports
<1> HIDE DEF B
<1>10. t.id = s.id /\ t.accepted = p /\ t.prepared.num >= s.prepared.num
       /\ t.prepared.num \in Nat /\ s.prepared.num \in Nat /\ old.ballot.num <= s.prepared.num
  BY <1>1, <1>2, PreparedNum DEF Logs, Sound
<1>11. Prepares(B, t)
  <2> SUFFICES ASSUME NEW b \in B, b.what.ballot.node = s.id
               PROVE  b.what.ballot.num <= t.prepared.num
    BY <1>1, <1>3, <1>10 DEF Prepares, StablePrimary, Preparing
  <2>1. CASE b \in A
    <3>1. b.what.ballot.num <= s.prepared.num /\ b.what.ballot.num \in Nat
      BY <1>2, <2>1, TakenFields DEF Reports, Prepares
    <3> QED
      BY <1>10, <3>1
  <2>2. CASE b = Taking(s.id, p)
    BY <1>1, <1>2, <1>8, <1>10, <2>2
  <2> QED
    BY <1>8, <2>1, <2>2
<1>12. Leads(B, t)
  <2>1. \A b \in B : b.what.ballot = p.ballot => b.what.decree <= p.decree
    BY <1>2, <1>6, <1>8, TakenFields
  <2> QED
    BY <1>1, <1>3, <1>10, <2>1 DEF Leads
<1>13. Votes(B, t)
  BY <1>1 DEF Votes
<1>14. Executes(B, t)
  BY <1>1, <1>8, <1>10, ChosenMore DEF Reports, Executes
<1>15. Reports(B, t)
  BY <1>8, <1>9, <1>10, <1>11, <1>12, <1>13, <1>14 DEF Reports
<1>16. ASSUME NEW x \in t.out PROVE Tells(B, x)
  <2>1. CASE x \in s.out
    BY <1>8, <2>1, TellsMore
  <2>2. CASE Asks(x, p)
    BY <1>8, <2>2 DEF Tells, Asks
  <2> QED
    BY <1>1, <2>1, <2>2
<1>17. \A b \in B \ A : b.by = s.id /\ b.what.ballot.node = s.id
  BY <1>1, <1>3, <1>8
<1>18. Adds(V, A, B, s, t)
  BY <1>7, <1>8, <1>10, <1>15, <1>16, <1>17 DEF Adds
<1> QED
  BY <1>18 DEF t

-----------------------------------------------------------------------------
(* The environment and the acceptances *)

VotesKept(V, A) ==
  /\ Settled(V, A)
  /\ \A n \in Node : Reports(A, node[n]) \/ (node[n].state = Inactive /\ node[n].executed = {})
  /\ \A n \in Running : Reports(A, node[n])
  /\ \A m \in messages : Tells(A, m)

ChosenInv == LogInv /\ (~disturbed => \E V, A : PromisesKept(V) /\ VotesKept(V, A))

LEMMA ReportsSame ==
  ASSUME NEW A, NEW s, Reports(A, s), NEW t, t.id = s.id, t.log = s.log, t.prepared = s.prepared,
         t.accepted = s.accepted, t.state = s.state, t.remote = s.remote, t.ready = s.ready,
         t.executed = s.executed
  PROVE  Reports(A, t)
<1>1. HasAll(A, t) /\ Prepares(A, t) /\ Leads(A, t) /\ Votes(A, t) /\ Executes(A, t)
  BY DEF Reports, HasAll, Prepares, Leads, Votes, Executes, Stable
<1> QED
  BY <1>1 DEF Reports

LEMMA TidyTells ==
  ASSUME Tidy, NEW n \in Node, NEW A, NEW x \in node[n].out PROVE Tells(A, x)
  BY DEF Tidy, Tells

LEMMA CollectedAdds ==
  ASSUME IInv, Tidy, NEW V, NEW A, VotesKept(V, A), NEW n \in Running, NEW s, s \in NodeState,
         NEW gone, Collected(n, s, gone), NEW B, Adds(V, A, B, node[n], s)
  PROVE  VotesKept(V, B)'
<1> DEFINE of(p) == IF p = n THEN s ELSE node[p]
<1>0. n \in Node /\ node[n].id = n
  BY DEF Running, Tidy
<1>1. node' = [p \in Node |-> [of(p) EXCEPT !.out = {}]]
  BY DEF Collected
<1>2. ASSUME NEW p \in Node
      PROVE  /\ Reports(B, node'[p]) \/ (node'[p].state = Inactive /\ node'[p].executed = {})
             /\ p \in Running' => Reports(B, node'[p])
  <2> DEFINE u == [of(p) EXCEPT !.out = {}]
  <2>1. node'[p] = u
    BY <1>1
  <2>2. of(p) \in NodeState
    BY DEF IInv, Nodes
  <2>3. Reports(B, of(p)) \/ (of(p).state = Inactive /\ of(p).executed = {})
    <3>1. CASE p = n
      BY <3>1 DEF Adds
    <3>2. CASE p # n /\ Reports(A, node[p])
      <4>1. of(p) = node[p] /\ node[p].id = p
        BY <3>2 DEF Tidy
      <4>2. /\ A \subseteq B
            /\ \A b \in B \ A : /\ b.by # p
                                /\ b.what.ballot.node # p \/ \E a \in A : a.what = b.what
        BY <1>0, <3>2 DEF Adds
      <4> HIDE DEF of
      <4> QED
        BY <3>2, <4>1, <4>2, ReportsMore
    <3>3. CASE p # n /\ ~Reports(A, node[p])
      BY <3>3 DEF VotesKept
    <3> QED
      BY <3>1, <3>2, <3>3
  <2> HIDE DEF of
  <2>4. /\ u.id = of(p).id /\ u.prepared = of(p).prepared /\ u.state = of(p).state
        /\ u.remote = of(p).remote /\ u.accepted = of(p).accepted /\ u.log = of(p).log
        /\ u.ready = of(p).ready /\ u.executed = of(p).executed
    BY <2>2 DEF NodeState
  <2> HIDE DEF u
  <2>5. Reports(B, of(p)) => Reports(B, u)
    BY <2>4, ReportsSame
  <2>6. p \in Running' => of(p).state # Inactive
    BY <2>1, <2>4 DEF Running
  <2> QED
    BY <2>1, <2>3, <2>4, <2>5, <2>6
<1>3. ASSUME NEW m \in messages' PROVE Tells(B, m)
  <2> DEFINE sent == s.out \cup UNION {node[p].out : p \in Node \ {n}}
             rest == messages \ gone
  <2>1. \E k : \E kept \in kSubset(k, sent \ rest) : messages' = rest \cup kept
    BY DEF Collected
  <2>2. \E kept \in SUBSET (sent \ rest) : messages' = rest \cup kept
    <3> HIDE DEF sent, rest
    <3> QED
      BY <2>1 DEF kSubset
  <2>3. m \in messages \/ m \in sent
    BY <2>2
  <2>4. CASE m \in messages
    BY <2>4, TellsMore DEF VotesKept, Adds
  <2>5. CASE m \in sent
    BY <2>5, TidyTells DEF Adds
  <2> QED
    BY <2>3, <2>4, <2>5
<1>4. Running' \subseteq Node
  BY DEF Running
<1>5. Settled(V, B)
  BY DEF Adds
<1> QED
  BY <1>2, <1>3, <1>4, <1>5 DEF VotesKept

LEMMA RunningVotes ==
  ASSUME Tidy, NEW V, NEW A, VotesKept(V, A), NEW n \in Running
  PROVE  /\ Settled(V, A) /\ Reports(A, node[n]) /\ \A x \in node[n].out : Tells(A, x)
  BY TidyTells DEF VotesKept, Running

LEMMA StepVotes ==
  ASSUME IInv, Tidy, NEW V, NEW A, VotesKept(V, A), NEW n \in Running, NEW s, Sound(s),
         NEW gone, Collected(n, s, gone), \E B : Adds(V, A, B, node[n], s)
  PROVE  \E B : VotesKept(V, B)'
<1>1. PICK B : Adds(V, A, B, node[n], s)
  OBVIOUS
<1>2. s \in NodeState
  BY DEF Sound
<1>3. VotesKept(V, B)'
  BY <1>1, <1>2, CollectedAdds
<1> QED
  BY <1>3

LEMMA SteadyStepVotes ==
  ASSUME IInv, Tidy, NEW V, PromisesKept(V), NEW A, VotesKept(V, A), NEW n \in Running, NEW s,
         Sound(s), NEW gone, Collected(n, s, gone), Steady(node[n], s)
  PROVE  \E B : VotesKept(V, B)'
<1>1. s \in NodeState
  BY DEF Sound
<1>2. Adds(V, A, A, node[n], s)
  BY <1>1, RunningNode, RunningVotes, SteadyAdds
<1> QED
  BY <1>2, StepVotes

LEMMA HandleVotes ==
  ASSUME IInv, Tidy, NEW V, PromisesKept(V), NEW A, VotesKept(V, A), NEW m \in messages, Handle(m)
  PROVE  \E B : VotesKept(V, B)'
<1> DEFINE n == m.to
           s == node[n]
<1>1. m \in Message /\ Told(m) /\ Carries(V, m) /\ Tells(A, m)
  BY DEF IInv, Tidy, PromisesKept, VotesKept
<1>2. ASSUME NEW type, NEW t, Deliver(m, type, t), Sound(t), Steady(s, t)
      PROVE  \E B : VotesKept(V, B)'
  BY <1>2, SteadyStepVotes DEF Deliver
<1>3. ASSUME NEW type, NEW t, Deliver(m, type, t), Sound(t), \E B : Adds(V, A, B, s, t)
      PROVE  \E B : VotesKept(V, B)'
  BY <1>3, StepVotes DEF Deliver
<1>4. ASSUME NEW type, NEW t, Deliver(m, type, t)
      PROVE  n \in Running /\ m.type = type /\ t.prepared.num <= MaxBallot
  BY <1>4 DEF Deliver, Collected
<1>5. ASSUME n \in Running
      PROVE  /\ Sound(s) /\ s \in NodeState /\ Orderly(s) /\ Preparer(s)
             /\ s.state # Inactive /\ s.id = n /\ V \in SUBSET Given /\ Once(V) /\ Trusts(V, s)
             /\ \A x \in s.out : Carries(V, x)
  BY <1>5, RunningNode
<1>6. ASSUME n \in Running
      PROVE  Settled(V, A) /\ Reports(A, s) /\ \A x \in s.out : Tells(A, x)
  BY <1>6, RunningVotes
<1> HIDE DEF s
<1>7. CASE StatusRequest(m)
  BY <1>1, <1>2, <1>4, <1>5, <1>7, StatusRequestSound, StatusRequestSteady DEF StatusRequest, s
<1>8. CASE StatusResponse(m)
  <2>1. PICK u \in AfterStatusResponse(s, m) : Deliver(m, "StatusResp", u)
    BY <1>8 DEF StatusResponse, s
  <2>2. n \in Running /\ u.prepared.num <= MaxBallot
    BY <1>4, <2>1
  <2>3. Sound(u)
    BY <1>1, <1>5, <2>2, StatusResponseSound
  <2>4. Steady(s, u)
    BY <1>1, <1>5, <2>2, <2>3, StatusResponseSteady DEF Sound
  <2> QED
    BY <1>2, <2>1, <2>3, <2>4
<1>9. CASE PrepareRequest(m)
  BY <1>1, <1>2, <1>4, <1>5, <1>9, PrepareRequestSound, PrepareRequestSteady DEF PrepareRequest, s
<1>10. CASE PrepareResponse(m)
  <2> DEFINE t == AfterPrepareResponse(s, m)
  <2>1. Deliver(m, "PrepareResp", t) /\ m.accept
    BY <1>10 DEF PrepareResponse, s
  <2>2. n \in Running /\ m.type = "PrepareResp"
    BY <1>4, <2>1
  <2>3. Sound(t)
    BY <1>1, <1>5, <2>2, PrepareResponseSound
  <2>4. Trusts(V, t)
    BY <1>1, <1>5, <2>1, <2>2, PrepareResponseKeeps DEF Keeps
  <2>5. \E B : Adds(V, A, B, s, t)
    BY <1>1, <1>5, <1>6, <2>2, <2>4, PrepareResponseAdds
  <2> HIDE DEF t
  <2> QED
    BY <1>3, <2>1, <2>3, <2>5
<1>11. CASE AcceptRequest(m)
  <2> DEFINE t == AfterAcceptRequest(s, m)
  <2>1. Deliver(m, "AcceptReq", t)
    BY <1>11 DEF AcceptRequest, s
  <2>2. n \in Running /\ m.type = "AcceptReq"
    BY <1>4, <2>1
  <2>3. Sound(t)
    BY <1>1, <1>5, <2>2, AcceptRequestSound
  <2>4. Steady(s, t) \/ (AcceptsNow(s, m) /\ t = Accept(s, m))
    BY <1>1, <1>5, <2>2, AcceptRequestSteady
  <2> HIDE DEF t
  <2>5. CASE Steady(s, t)
    BY <1>2, <2>1, <2>3, <2>5
  <2>6. CASE AcceptsNow(s, m) /\ t = Accept(s, m)
    <3>1. \E B : Adds(V, A, B, s, t)
      BY <1>1, <1>5, <1>6, <2>2, <2>6, AcceptAdds
    <3> QED
      BY <1>3, <2>1, <2>3, <3>1
  <2> QED
    BY <2>4, <2>5, <2>6
<1>12. CASE AcceptResponse(m)
  <2> DEFINE t == AfterAcceptResponse(s, m)
  <2>1. Deliver(m, "AcceptResp", t) /\ m.accept
    BY <1>12 DEF AcceptResponse, s
  <2>2. n \in Running /\ m.type = "AcceptResp"
    BY <1>4, <2>1
  <2>3. Sound(t)
    BY <1>1, <1>5, <2>2, AcceptResponseSound
  <2>4. Adds(V, A, A, s, t)
    BY <1>1, <1>5, <1>6, <2>1, <2>2, AcceptResponseAdds
  <2> HIDE DEF t
  <2> QED
    BY <1>3, <2>1, <2>3, <2>4
<1>13. CASE NotPrepared(m)
  BY <1>1, <1>2, <1>4, <1>5, <1>13, NotAcceptSound, NotAcceptSteady DEF NotPrepared, s
<1>14. CASE NotAccepted(m)
  BY <1>1, <1>2, <1>4, <1>5, <1>14, NotAcceptSound, NotAcceptSteady DEF NotAccepted, s
<1>15. CASE FetchRequest(m)
  BY <1>1, <1>2, <1>4, <1>5, <1>15, FetchRequestSound, FetchRequestSteady DEF FetchRequest, s
<1>16. CASE FetchResponse(m)
  <2>1. Deliver(m, "FetchResp", AfterFetchResponse(s, m))
    BY <1>16 DEF FetchResponse, s
  <2>2. m.proposals = <<>> \/ m.proposals[1].decree <= s.accepted.decree
    BY <1>1, <1>4, <2>1 DEF Told, s
  <2> QED
    BY <1>1, <1>2, <1>4, <1>5, <2>1, <2>2, FetchResponseSound, FetchResponseSteady
<1> QED
  BY <1>7, <1>8, <1>9, <1>10, <1>11, <1>12, <1>13, <1>14, <1>15, <1>16 DEF Handle

LEMMA TickVotes ==
  ASSUME IInv, Tidy, NEW V, PromisesKept(V), NEW A, VotesKept(V, A), NEW n \in Node,
         TickElection(n) \/ TickRetry(n) \/ TickRepeat(n) \/ TickPropose(n)
  PROVE  \E B : VotesKept(V, B)'
<1> DEFINE s == node[n]
<1>1. s.state # Inactive /\ n \in Running
  BY DEF TickElection, TickRetry, TickRepeat, TickPropose, MaySend, StablePrimary,
         StableSecondary, Initializing, Preparing, Inactive, Running
<1>2. /\ Sound(s) /\ s \in NodeState /\ Once(V) /\ Firm(s, s) /\ s.id = n
      /\ Settled(V, A) /\ Reports(A, s) /\ \A x \in s.out : Tells(A, x)
  BY <1>1, RunningNode, RunningVotes, SteadyUnchanged
<1>3. ASSUME NEW t, TimeOut(n, t), Sound(t), Steady(s, t) PROVE \E B : VotesKept(V, B)'
  BY <1>1, <1>3, SteadyStepVotes DEF TimeOut
<1>4. ASSUME NEW t, Collected(n, t, {}), Sound(t), \E B : Adds(V, A, B, s, t)
      PROVE  \E B : VotesKept(V, B)'
  BY <1>1, <1>4, StepVotes
<1> HIDE DEF s
<1>5. CASE TimeOut(n, Initialize(s))
  BY <1>2, <1>3, <1>5, InitializeSound, FirmInitialize
<1>6. CASE s.state = Preparing /\ TimeOut(n, Prepare(s))
  <2>1. Prepare(s).prepared.num <= MaxBallot
    BY <1>6 DEF TimeOut, Collected
  <2> QED
    BY <1>1, <1>2, <1>3, <1>6, <2>1, PrepareSound, SteadyPrepare
<1>7. CASE MaySend(s) /\ TimeOut(n, Repeat(s))
  <2>1. Collected(n, Repeat(s), {})
    BY <1>7 DEF TimeOut
  <2>2. Adds(V, A, A, s, Repeat(s))
    BY <1>2, <1>7, RepeatAdds
  <2> QED
    BY <1>2, <1>4, <2>1, <2>2, RepeatSound
<1>8. CASE MaySend(s) /\ s.ready /\ s.commandQ # <<>> /\ Collected(n, Propose(s), {})
  <2>1. \E B : Adds(V, A, B, s, Propose(s))
    BY <1>2, <1>8, ProposeAdds
  <2> QED
    BY <1>2, <1>4, <1>8, <2>1, ProposeSound
<1> QED
  BY <1>5, <1>6, <1>7, <1>8 DEF TickElection, TickRetry, TickRepeat, TickPropose, s

LEMMA FreshReports ==
  ASSUME NEW n \in Node PROVE Reports({}, Fresh(n))
<1> DEFINE s == NewNode(n)
           t == [s EXCEPT !.state = Initializing, !.remote = {}]
           m == Msg("StatusReq", s, Nobody)
           u == Broadcast(t, m)
<1>1. Fresh(n) = u
  BY DEF Fresh, Initialize
<1>2. s \in NodeState /\ s.accepted = NoProposal /\ s.executed = {}
  BY NewNodeSound DEF NewNode, Sound
<1> HIDE DEF s, m
<1>3. /\ t \in NodeState /\ t.state = Initializing /\ t.accepted = NoProposal /\ t.executed = {}
  BY <1>2 DEF NodeState
<1> HIDE DEF t
<1>4. u.state = Initializing /\ u.accepted = NoProposal /\ u.executed = {}
  BY <1>3 DEF Broadcast, NodeState
<1> HIDE DEF u
<1>5. NoProposal.ballot.num = 0
  BY DEF NoProposal, Proposal, NoBallot
<1>6. Reports({}, u)
  BY <1>4, <1>5 DEF Reports, HasAll, Prepares, Leads, Votes, Executes, Stable,
                    Initializing, Preparing, StablePrimary, StableSecondary
<1> QED
  BY <1>1, <1>6

LEMMA NothingSettled == ASSUME NEW V PROVE Settled(V, {})
  BY DEF Settled

LEMMA FreshVotes ==
  ASSUME node' = [n \in Node |-> Fresh(n)], messages' = {} PROVE VotesKept({}, {})'
<1>1. \A n \in Node : Reports({}, node'[n])
  BY FreshReports
<1> QED
  BY <1>1, NothingSettled DEF VotesKept, Running

LEMMA InitVotes == Init => VotesKept({}, {})
<1> SUFFICES ASSUME Init PROVE VotesKept({}, {})
  OBVIOUS
<1>1. \A n \in Node : Reports({}, node[n])
  BY FreshReports DEF Init
<1> QED
  BY <1>1, NothingSettled DEF VotesKept, Running, Init

LEMMA ReceiveRequestVotes ==
  ASSUME IInv, NEW V, NEW A, VotesKept(V, A), ReceiveRequest PROVE VotesKept(V, A)'
<1>1. PICK n \in Node : node' = [node EXCEPT ![n].commandQ = Append(@, Head(requests))]
  BY DEF ReceiveRequest
<1> DEFINE q == Append(node[n].commandQ, Head(requests))
           t == [node[n] EXCEPT !.commandQ = q]
<1>2. node \in [Node -> NodeState] /\ node' = [node EXCEPT ![n] = t] /\ messages' = messages
  BY <1>1 DEF IInv, Nodes, ReceiveRequest
<1> HIDE DEF q
<1>3. /\ t.id = node[n].id /\ t.prepared = node[n].prepared /\ t.state = node[n].state
      /\ t.remote = node[n].remote /\ t.accepted = node[n].accepted /\ t.log = node[n].log
      /\ t.ready = node[n].ready /\ t.executed = node[n].executed
  BY <1>2 DEF NodeState
<1> HIDE DEF t
<1>4. ASSUME NEW p \in Node
      PROVE  /\ Reports(A, node[p]) => Reports(A, node'[p])
             /\ node'[p].state = node[p].state /\ node'[p].executed = node[p].executed
  <2>1. node'[p] = IF p = n THEN t ELSE node[p]
    BY <1>2
  <2> QED
    BY <1>3, <2>1, ReportsSame
<1> QED
  BY <1>2, <1>4 DEF VotesKept, Running

LEMMA Joined ==
  ASSUME NEW V, NEW W, V \subseteq W, PromisesKept(W)', NEW B, VotesKept(V, B)'
  PROVE  \E X, Y : (PromisesKept(X) /\ VotesKept(X, Y))'
<1>1. Settled(W, B)
  BY SettledMore DEF VotesKept
<1>2. VotesKept(W, B)'
  BY <1>1 DEF VotesKept
<1> QED
  BY <1>2

LEMMA NextVotes ==
  ASSUME LogInv, [Next]_vars, ~disturbed => \E V, A : PromisesKept(V) /\ VotesKept(V, A), ~disturbed'
  PROVE  \E X, Y : (PromisesKept(X) /\ VotesKept(X, Y))'
<1>1. IInv /\ (~disturbed => Tidy)
  BY DEF LogInv
<1>2. CASE Reset
  <2>1. PromisesKept({})' /\ VotesKept({}, {})'
    BY <1>2, FreshKept, FreshVotes DEF Reset
  <2> QED
    BY <2>1
<1>3. ASSUME NEW n \in Node, Start(n) PROVE \E X, Y : (PromisesKept(X) /\ VotesKept(X, Y))'
  BY <1>3 DEF Start
<1>4. ASSUME disturbed' = disturbed, [Next]_vars, ~Reset, \A n \in Node : ~Start(n)
      PROVE  \E X, Y : (PromisesKept(X) /\ VotesKept(X, Y))'
  <2>1. PICK V, A : PromisesKept(V) /\ VotesKept(V, A)
    BY <1>4
  <2>2. Tidy /\ IInv
    BY <1>1, <1>4
  <2>3. ASSUME \E W : V \subseteq W /\ PromisesKept(W)', \E B : VotesKept(V, B)'
        PROVE  \E X, Y : (PromisesKept(X) /\ VotesKept(X, Y))'
    BY <2>3, Joined
  <2>4. CASE TickIdle
    <3>1. PICK n \in Running : Collected(n, node[n], {})
      BY <2>4 DEF TickIdle
    <3>2. Sound(node[n]) /\ Calm(node[n], node[n]) /\ Steady(node[n], node[n])
      BY <2>1, <2>2, RunningNode, CalmUnchanged, SteadyUnchanged
    <3>3. \E W : V \subseteq W /\ PromisesKept(W)'
      BY <2>1, <2>2, <3>1, <3>2, CalmStepKept
    <3>4. \E B : VotesKept(V, B)'
      BY <2>1, <2>2, <3>1, <3>2, SteadyStepVotes
    <3> QED
      BY <2>3, <3>3, <3>4
  <2>5. CASE ReceiveRequest
    BY <2>1, <2>2, <2>5, ReceiveRequestKept, ReceiveRequestVotes
  <2>6. ASSUME NEW m \in messages, Handle(m)
        PROVE  \E X, Y : (PromisesKept(X) /\ VotesKept(X, Y))'
    <3>1. \E W : V \subseteq W /\ PromisesKept(W)'
      BY <2>1, <2>2, <2>6, HandleKept
    <3>2. \E B : VotesKept(V, B)'
      BY <2>1, <2>2, <2>6, HandleVotes
    <3> QED
      BY <2>3, <3>1, <3>2
  <2>7. ASSUME NEW m \in messages, Drop(m)
        PROVE  \E X, Y : (PromisesKept(X) /\ VotesKept(X, Y))'
    <3>1. messages' \subseteq messages /\ node' = node
      BY <2>7 DEF Drop
    <3>2. PromisesKept(V)' /\ VotesKept(V, A)'
      BY <2>1, <3>1 DEF PromisesKept, VotesKept, Running
    <3> QED
      BY <3>2
  <2>8. ASSUME NEW n \in Node, Stop(n)
        PROVE  \E X, Y : (PromisesKept(X) /\ VotesKept(X, Y))'
    <3>1. node' = [node EXCEPT ![n] = NewNode(n)] /\ messages' = messages
      BY <2>8 DEF Stop
    <3>2. node \in [Node -> NodeState] /\ NewNode(n).state = Inactive /\ NewNode(n).executed = {}
      BY <2>2 DEF IInv, Nodes, NewNode
    <3>3. \A p \in Running' : p \in Running /\ node'[p] = node[p]
      BY <3>1, <3>2 DEF Running
    <3>4. \A p \in Node : \/ node'[p] = node[p]
                          \/ node'[p].state = Inactive /\ node'[p].executed = {}
      BY <3>1, <3>2
    <3>5. PromisesKept(V)'
      BY <2>1, <3>1, <3>3 DEF PromisesKept
    <3>6. VotesKept(V, A)'
      BY <2>1, <3>1, <3>3, <3>4 DEF VotesKept
    <3> QED
      BY <3>5, <3>6
  <2>9. ASSUME NEW n \in Node,
               TickElection(n) \/ TickRetry(n) \/ TickRepeat(n) \/ TickPropose(n)
        PROVE  \E X, Y : (PromisesKept(X) /\ VotesKept(X, Y))'
    <3>1. \E W : V \subseteq W /\ PromisesKept(W)'
      BY <2>1, <2>2, <2>9, TickKept
    <3>2. \E B : VotesKept(V, B)'
      BY <2>1, <2>2, <2>9, TickVotes
    <3> QED
      BY <2>3, <3>1, <3>2
  <2>10. CASE UNCHANGED vars
    <3>1. PromisesKept(V)' /\ VotesKept(V, A)'
      BY <2>1, <2>10 DEF vars, PromisesKept, VotesKept, Running
    <3> QED
      BY <3>1
  <2> QED
    BY <1>4, <2>4, <2>5, <2>6, <2>7, <2>8, <2>9, <2>10 DEF Next
<1>5. CASE ~Reset /\ \A n \in Node : ~Start(n)
  <2>1. disturbed' = disturbed
    BY <1>5 DEF Next, TickIdle, ReceiveRequest, Handle, Drop, Stop, TickElection, TickRetry,
                TickRepeat, TickPropose, TimeOut, StatusRequest, StatusResponse, PrepareRequest,
                PrepareResponse, AcceptRequest, AcceptResponse, NotPrepared, NotAccepted,
                FetchRequest, FetchResponse, Deliver, bounds, vars
  <2> QED
    BY <1>4, <1>5, <2>1
<1> QED
  BY <1>2, <1>3, <1>5

-----------------------------------------------------------------------------
(* What is executed is chosen *)

THEOREM InvariantChosenInv == Spec => []ChosenInv
<1>1. Init => ChosenInv
  BY InitIInv, InitTidy, InitKept, InitVotes DEF ChosenInv, LogInv
<1>2. ChosenInv /\ [Next]_vars => ChosenInv'
  BY NextLogInv, NextVotes DEF ChosenInv
<1> QED
  BY <1>1, <1>2, PTL DEF Spec

\* What a node executes is logged by a majority, the stopped nodes counted, until
\* a node is restarted or meets messages of before a reset: a primary proposes a
\* decree when the last one is chosen, and a node executes a decree when it has
\* counted a majority's votes or the next one is proposed (algo.go:606 and :706).
THEOREM ExecutedAreChosen == Spec => []ExecutedIsChosen
<1>1. ASSUME ChosenInv PROVE ExecutedIsChosen
  <2> SUFFICES ASSUME ~disturbed, NEW n \in Node, NEW e \in node[n].executed
               PROVE  \E i \in DOMAIN node[n].log :
                        LET p == node[n].log[i] IN
                        /\ p.decree = e.decree /\ p.command = e.command
                        /\ 2 * Cardinality({q \in Node : HasAccepted(q, p)}) > Cardinality(Node)
    BY DEF ExecutedIsChosen
  <2>1. PICK V, A : VotesKept(V, A)
    BY <1>1 DEF ChosenInv
  <2>2. Tidy
    BY <1>1 DEF ChosenInv, LogInv
  <2>3. Reports(A, node[n]) /\ node[n].id = n
    BY <2>1, <2>2 DEF VotesKept, Tidy
  <2>4. PICK a \in A : a.by = n /\ Done(a.what) = e /\ Chosen(A, a.what)
    BY <2>3 DEF Reports, Executes
  <2>5. PICK i \in DOMAIN node[n].log : node[n].log[i] = a.what
    BY <2>3, <2>4 DEF Reports, HasAll
  <2> DEFINE S == Takers(A, a.what)
             T == {q \in Node : HasAccepted(q, a.what)}
  <2>6. S \subseteq T
    <3> SUFFICES ASSUME NEW q \in Node, Taking(q, a.what) \in A, q \in Running
                 PROVE  \E j \in DOMAIN node[q].log : node[q].log[j] = a.what
      BY DEF Takers, HasAccepted
    <3>1. Reports(A, node[q]) /\ node[q].id = q
      BY <2>1, <2>2 DEF VotesKept, Tidy
    <3> QED
      BY <3>1 DEF Reports, HasAll, Taking
  <2>7. T \in SUBSET Node
    OBVIOUS
  <2>8. IsFiniteSet(T) /\ Cardinality(S) \in Nat /\ Cardinality(T) \in Nat
    BY <2>7, TakersFinite, NodesFinite, FS_Subset, FS_CardinalityType
  <2>9. IsMajority(Cardinality(S))
    BY <2>4 DEF Chosen
  <2> HIDE DEF S, T
  <2>10. Cardinality(S) <= Cardinality(T)
    BY <2>6, <2>8, FS_Subset
  <2>11. 2 * Cardinality(T) > Cardinality(Node)
    BY <2>8, <2>9, <2>10, NodesFinite DEF IsMajority
  <2>12. a.what.decree = e.decree /\ a.what.command = e.command
    BY <2>4 DEF Done
  <2> QED
    BY <2>5, <2>11, <2>12 DEF T
<1> QED
  BY <1>1, InvariantChosenInv, PTL
=============================================================================
