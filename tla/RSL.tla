-------------------------------- MODULE RSL --------------------------------
(***************************************************************************)
(* rsl: the Replicated State Library's Paxos (algo.go, log.go, messages.go)*)
(* in the environment that exposes it to the partition environment         *)
(* (env.go).                                                               *)
(*                                                                         *)
(* A handler is an operator from the state of a node, its unsent messages  *)
(* included, to the state after it, or to the set of the possible ones     *)
(* where a clock or a random choice decides.  The network is a set:        *)
(* messages are kept in a map keyed by their content.                      *)
(*                                                                         *)
(* Ticks are not counted: a timer that is set may be due or not.  The      *)
(* configuration commands of reconfig.go are never issued, and what decides*)
(* nothing, Ballot entries of the log and timestamps, is left out.         *)
(***************************************************************************)
EXTENDS Integers, Sequences, FiniteSets, FiniteSetsExt

CONSTANTS
  Node,             \* the nodes
  Nobody,           \* node 0, which no node is
  NumCommands,      \* commands of an episode, numbered from 1
  MaxCachedLength,  \* proposals a node caches while it initializes
  MaxBallot,        \* bound on ballot numbers
  MaxEvents,        \* bound on timeouts, stops, and resets that leave messages
  MaxInTransit      \* bound on the messages in transit

ASSUME RSLAssumption ==
  /\ IsFiniteSet(Node) /\ Node # {} /\ Nobody \notin Node
  /\ NumCommands \in Nat /\ MaxCachedLength \in Nat \ {0}
  /\ MaxBallot \in Nat /\ MaxEvents \in Nat /\ MaxInTransit \in Nat

VARIABLES
  node,         \* the Node of each replica; a stopped one is Inactive
  messages,     \* r.messages, the messages in transit
  requests,     \* curState.Requests, the commands the clients still hold
  events,       \* timeouts, stops and resets that left messages, so far
  disturbed     \* history: a node was restarted or there are old messages

bounds == <<events, disturbed>>
vars == <<node, messages, requests, bounds>>

Inactive == "Inactive"
StablePrimary == "StablePrimary"
StableSecondary == "StableSecondary"
Initializing == "Initializing"
Preparing == "Preparing"

-----------------------------------------------------------------------------
\* Commands are numbers, 0 the empty one.  Ballots are compared by number only.
NoBallot == [num |-> 0, node |-> Nobody]
Proposal(ballot, decree, command) ==
  [ballot |-> ballot, decree |-> decree, command |-> command]
NoProposal == Proposal(NoBallot, 0, 0)

\* nextElectionTime: at the largest integer, a time, or past the overflow.
Unset == "unset"
Finite == "finite"
Overflowed == "overflowed"

\* NewNode.  out are its pendingMessagesToSend; log its accepted entries;
\* executed, a history, what it has put on its execution queue.
NewNode(n) ==
  [id |-> n, state |-> Inactive, accepted |-> NoProposal, prepared |-> NoBallot,
   freshest |-> NoProposal, log |-> <<>>, decided |-> <<>>, commandQ |-> <<>>,
   proposalQ |-> <<>>, ready |-> FALSE, election |-> Unset, remote |-> {},
   learningFrom |-> Nobody, out |-> {}, executed |-> {}]

Msg(type, s, to) ==
  [type |-> type, from |-> s.id, to |-> to, accept |-> FALSE,
   ballot |-> NoBallot, decree |-> 0, command |-> 0, proposalBallot |-> NoBallot,
   proposals |-> <<>>]

Send(s, m) == [s EXCEPT !.out = @ \cup {m}]

Broadcast(s, m) == [s EXCEPT !.out = @ \cup {[m EXCEPT !.to = n] : n \in Node \ {s.id}}]

IsMajority(count) == count >= Cardinality(Node) \div 2 + 1

\* remoteStates keeps the last answer of each node.
Heard(s, m, ballot) ==
  [s EXCEPT !.remote = {r \in @ : r.node # m.from}
                         \cup {[node |-> m.from, num |-> ballot.num, decree |-> m.decree]}]

-----------------------------------------------------------------------------
(* The helpers of the handlers *)

\* max(ticks, nextElectionTime) + NewLeaderGracePeriod
Postponed(s) == [s EXCEPT !.election = IF @ = Unset THEN Overflowed ELSE Finite]

Initialize(s) ==
  Broadcast([s EXCEPT !.state = Initializing, !.remote = {}],
            Msg("StatusReq", s, Nobody))

Stabilize(s, role) == [s EXCEPT !.state = role, !.remote = {}]

\* addtoExecutionQueue
Execute(s, p) ==
  [s EXCEPT !.decided = Append(@, p.command),
            !.executed = @ \cup {[decree |-> p.decree, command |-> p.command]}]

\* A logged proposal is prepared too.  (Mutant: it is not.)
LoggedOnly(s, p) == [s EXCEPT !.log = Append(@, p), !.accepted = p]

LogProposal(s, p) ==
  LET t == [s EXCEPT !.log = Append(@, p), !.accepted = p]
  IN  IF p.ballot.num > s.prepared.num
      THEN Postponed([t EXCEPT !.prepared = p.ballot]) ELSE t

\* prepare, of an initializing node and of one that prepares again.
Prepare(s) ==
  LET ballot == IF s.state = Initializing
                THEN [num |-> s.prepared.num + 1, node |-> s.id] ELSE s.prepared
      t == [s EXCEPT !.state = Preparing, !.prepared = ballot, !.remote = {},
                     !.freshest = s.accepted,
                     !.election = IF s.state = Initializing THEN Finite ELSE @]
  IN  Broadcast(t, [Msg("PrepareReq", s, Nobody) EXCEPT
                      !.ballot = ballot, !.decree = s.accepted.decree])

Request(s, p) ==
  [Msg("AcceptReq", s, Nobody) EXCEPT
     !.ballot = p.ballot, !.decree = p.decree, !.command = p.command]

\* sendNextCommand
MaySend(s) ==
  /\ s.state = StablePrimary /\ s.prepared.node = s.id
  /\ s.prepared.num = s.accepted.ballot.num

Propose(s) ==
  LET p == Proposal(s.accepted.ballot, s.accepted.decree + 1, Head(s.commandQ))
      t == [s EXCEPT !.remote = {}, !.commandQ = Tail(@), !.ready = FALSE]
  IN  LogProposal(Broadcast(t, Request(s, p)), p)

Repeat(s) == Broadcast([s EXCEPT !.remote = {}], Request(s, s.accepted))

\* The message that tells the sender of m that it is behind.
Refuse(s, m, type) ==
  Send(s, [Msg(type, s, m.from) EXCEPT
             !.ballot = s.prepared, !.decree = s.accepted.decree])

LearnVotes(s, n) ==
  [Send(s, [Msg("FetchReq", s, n) EXCEPT
              !.ballot = s.accepted.ballot, !.decree = s.accepted.decree])
   EXCEPT !.learningFrom = n]

-----------------------------------------------------------------------------
(* The message handlers *)

AfterStatusRequest(s, m) ==
  Send(s, [Msg("StatusResp", s, m.from) EXCEPT
             !.ballot = s.accepted.ballot, !.decree = s.accepted.decree])

\* The nodes known to have what the first cached proposal builds on, and those
\* known to have a later proposal.
Ahead(s) == {r \in s.remote : r.decree >= s.proposalQ[1].decree}
Newer(s) ==
  {r \in s.remote :
     \/ r.decree = s.accepted.decree /\ r.num > s.accepted.ballot.num
     \/ r.decree > s.accepted.decree /\ r.num >= s.accepted.ballot.num}

\* The end of handleStatusResponse: the timer is set, and is due or not.
\* (Mutant: it is not set.)
ElectOrFollowUntimed(s) ==
  {Prepare(s)} \cup IF s.prepared.node = s.id THEN {} ELSE {Stabilize(s, StableSecondary)}

ElectOrFollow(s) ==
  LET t == [s EXCEPT !.election = IF @ = Unset THEN Finite ELSE @]
  IN  {Prepare(t)} \cup
      IF t.prepared.node = t.id THEN {} ELSE {Stabilize(t, StableSecondary)}

AfterStatusResponse(s, m) ==
  LET t == Heard(s, m, m.ballot)
      Learn(remotes) == {LearnVotes(t, r.node) : r \in remotes}
      Cached == t.proposalQ # <<>>
  IN  IF s.state # Initializing
      THEN IF m.ballot.num >= s.accepted.ballot.num /\ m.decree = s.accepted.decree
                /\ s.proposalQ = <<>>
           THEN {LearnVotes(s, m.from)} ELSE {s}
      ELSE IF ~IsMajority(1 + Cardinality(t.remote)) THEN {t}
      ELSE IF Cached /\ t.proposalQ[1].decree < t.accepted.decree THEN {t}
      ELSE IF Cached /\ Ahead(t) # {} THEN Learn(Ahead(t))
      ELSE IF Newer(t) # {} THEN Learn(Newer(t))
      ELSE ElectOrFollow(t)

\* (Mutant: a promise for the node's own ballot number is given again.)
PromisesAgain(s, m) == m.ballot.num >= s.prepared.num

Promises(s, m) == m.ballot.num > s.prepared.num

AfterPrepareRequest(s, m) ==
  LET t == IF Promises(s, m)
           THEN Send(Postponed([s EXCEPT !.prepared = m.ballot]),
                     [Msg("PrepareResp", s, m.from) EXCEPT
                        !.accept = TRUE, !.ballot = m.ballot,
                        !.proposalBallot = s.accepted.ballot,
                        !.decree = s.accepted.decree, !.command = s.accepted.command])
           ELSE s
  IN  IF m.ballot.num < s.prepared.num \/ m.decree < s.accepted.decree
      THEN Refuse(s, m, "PrepareResp")
      ELSE IF s.state = Initializing THEN s
      ELSE IF m.decree > s.accepted.decree THEN Initialize(t)
      ELSE Stabilize(t, StableSecondary)

Freshest(s, m) ==
  IF m.decree = s.freshest.decree /\ m.proposalBallot.num > s.freshest.ballot.num
  THEN Proposal(m.proposalBallot, m.decree, m.command) ELSE s.freshest

AfterPrepareResponse(s, m) ==
  LET t == Heard([s EXCEPT !.freshest = Freshest(s, m)], m, m.proposalBallot)
      p == [t.freshest EXCEPT !.ballot = s.prepared]
      u == LogProposal(Broadcast([t EXCEPT !.freshest = p], Request(s, p)), p)
  IN  IF \/ s.state # Preparing \/ s.prepared.num # m.ballot.num
         \/ s.accepted.decree # m.decree \/ m.ballot.node # s.id
      THEN s
      ELSE IF ~IsMajority(Cardinality(t.remote) + 1) THEN t
      ELSE Stabilize([u EXCEPT !.ready = FALSE], StablePrimary)

\* The proposal of m extends what the node has accepted.  (Mutant: the next
\* decree of any later ballot does.)
ExtendsLater(s, m) ==
  /\ m.decree \in {s.accepted.decree, s.accepted.decree + 1}
  /\ m.ballot.num >= s.accepted.ballot.num

Extends(s, m) ==
  \/ m.decree = s.accepted.decree /\ m.ballot.num >= s.accepted.ballot.num
  \/ m.decree = s.accepted.decree + 1 /\ m.ballot.num = s.accepted.ballot.num

Accept(s, m) ==
  LET t == IF m.decree = s.accepted.decree + 1
           THEN [Execute(s, s.accepted) EXCEPT !.election = Finite] ELSE s
      u == LogProposal(t, Proposal(m.ballot, m.decree, m.command))
  IN  Stabilize(Send(u, [Msg("AcceptResp", s, m.from) EXCEPT
                           !.accept = TRUE, !.ballot = m.ballot, !.decree = m.decree]),
                StableSecondary)

\* An initializing node caches proposals that follow each other.  (Mutant: any
\* number of them.)
KeptAll(s) == s.proposalQ

Kept(s) == IF Len(s.proposalQ) = MaxCachedLength THEN <<>> ELSE s.proposalQ

Cache(s, m) ==
  LET p    == Proposal(m.ballot, m.decree, m.command)
      last == s.proposalQ[Len(s.proposalQ)]
  IN  IF s.proposalQ = <<>> THEN [s EXCEPT !.proposalQ = <<p>>]
      ELSE IF m.decree < last.decree \/ m.ballot.num < last.ballot.num
      THEN IF m.decree < s.accepted.decree \/ m.ballot.num < s.accepted.ballot.num
           THEN Refuse(s, m, "AcceptResp") ELSE s
      ELSE IF m.decree = last.decree /\ m.ballot.num = last.ballot.num THEN s
      ELSE IF \/ m.decree = last.decree
              \/ m.decree = last.decree + 1 /\ m.ballot.num = last.ballot.num
      THEN [s EXCEPT !.proposalQ = Append(Kept(s), p)]
      ELSE [s EXCEPT !.proposalQ = <<p>>]

Refuses(s, m) == m.decree < s.accepted.decree \/ m.ballot.num < s.prepared.num

AfterAcceptRequest(s, m) ==
  IF \/ m.ballot.node # m.from \/ m.from = s.id
     \/ s.prepared.num < s.accepted.ballot.num
  THEN s
  ELSE IF s.state = Initializing THEN Cache(s, m)
  ELSE IF Refuses(s, m) THEN Refuse(s, m, "AcceptResp")
  ELSE IF m.decree = s.accepted.decree /\ m.ballot.num = s.accepted.ballot.num THEN s
  ELSE IF Extends(s, m) THEN Accept(s, m)
  ELSE Initialize(s)

AfterNotAccept(s, m) ==
  IF \/ m.decree < s.accepted.decree \/ m.ballot.num < s.accepted.ballot.num
     \/ s.state = Initializing
  THEN s
  ELSE IF m.decree > s.accepted.decree THEN Initialize(s)
  ELSE IF m.ballot.num > s.prepared.num
  THEN Stabilize(Postponed([s EXCEPT !.prepared = m.ballot]), StableSecondary)
  ELSE s

\* The answer is a vote for the node's open proposal.  (Mutant: an answer to an
\* earlier proposal of the ballot counts.)
CountsOfBallot(s, m) ==
  /\ s.state \in {StablePrimary, StableSecondary}
  /\ s.prepared.num = m.ballot.num /\ s.prepared.node = s.id /\ ~s.ready
  /\ s.prepared.num = s.accepted.ballot.num

Counts(s, m) ==
  /\ s.state \in {StablePrimary, StableSecondary}
  /\ s.prepared.num = m.ballot.num /\ s.prepared.node = s.id /\ ~s.ready
  /\ s.prepared.num = s.accepted.ballot.num
  /\ s.accepted.decree = m.decree

AfterAcceptResponse(s, m) ==
  LET t == Heard(s, m, m.ballot)
  IN  IF ~Counts(s, m) THEN s
      ELSE IF IsMajority(Cardinality(t.remote) + 1)
      THEN [Execute(t, s.accepted) EXCEPT !.ready = TRUE]
      ELSE t

AfterFetchRequest(s, m) ==
  LET valid[k \in 0..Len(s.log)] ==
        IF k = 0 THEN <<>>
        ELSE IF s.log[k].decree >= m.decree THEN Append(valid[k - 1], s.log[k])
        ELSE valid[k - 1]
  IN  Send(s, [Msg("FetchResp", s, m.from) EXCEPT !.proposals = valid[Len(s.log)]])

\* One proposal p of a fetch response.  After the first alternative has logged
\* what p follows, p is of the node's own decree or not looked at.
NextDecree(s, p) == p.decree = s.accepted.decree + 1

Learned(s, p) ==
  LET t == IF NextDecree(s, p)
           THEN [Execute(s, s.accepted) EXCEPT !.election = Finite] ELSE s
  IN  LogProposal(t, p)

LearnAll(s, proposals) ==
  LET after[k \in 0..Len(proposals)] ==
        IF k = 0 THEN s ELSE Learned(after[k - 1], proposals[k])
  IN  after[Len(proposals)]

\* [state, done]: whether the handler returns at p.
Fetch(s, p) ==
  LET t == Learned(s, Proposal(s.accepted.ballot, p.decree, p.command))
      u == LogProposal(t, p)
  IN  IF p.ballot.num <= s.accepted.ballot.num \/ ~NextDecree(s, p)
      THEN [state |-> s, done |-> TRUE]
      ELSE IF s.proposalQ = <<>> \/ s.proposalQ[1].decree <= 0
      THEN [state |-> Stabilize(LearnAll(u, s.proposalQ), StableSecondary), done |-> TRUE]
      ELSE [state |-> u, done |-> FALSE]

AfterFetchResponse(s, m) ==
  LET after[k \in 0..Len(m.proposals)] ==
        IF k = 0 THEN [state |-> s, done |-> FALSE]
        ELSE IF after[k - 1].done THEN after[k - 1]
        ELSE Fetch(after[k - 1].state, m.proposals[k])
      last == after[Len(m.proposals)]
  IN  IF s.learningFrom # m.from THEN s
      ELSE [(IF last.done THEN last.state ELSE Initialize(last.state))
            EXCEPT !.learningFrom = Nobody]

-----------------------------------------------------------------------------
(* The environment *)

Fresh(n) == Initialize(NewNode(n))

Running == {n \in Node : node[n].state # Inactive}

Init ==
  /\ node = [n \in Node |-> Fresh(n)]
  /\ messages = {}
  /\ requests = [i \in 1..NumCommands |-> i]
  /\ events = 0 /\ disturbed = FALSE

\* Reset makes new nodes and keeps the messages.
Reset ==
  /\ node' = [n \in Node |-> Fresh(n)]
  /\ requests' = [i \in 1..NumCommands |-> i]
  /\ disturbed' = (messages # {})
  /\ messages # {} => events < MaxEvents
  /\ events' = IF messages = {} THEN 0 ELSE events + 1
  /\ UNCHANGED messages

Stop(n) ==
  /\ n \in Running
  /\ events < MaxEvents
  /\ events' = events + 1
  /\ node' = [node EXCEPT ![n] = NewNode(n)]
  /\ UNCHANGED <<messages, requests, disturbed>>

\* A started node has forgotten everything.
Start(n) ==
  /\ n \notin Running
  /\ node' = [node EXCEPT ![n] = Fresh(n)]
  /\ disturbed' = TRUE
  /\ UNCHANGED <<messages, requests, events>>

\* A step of node n to state s: gone leaves the network and what the nodes
\* want to send enters it.  Where the bound leaves no room for all of it, the
\* step stands for the code's followed by drops.
Collected(n, s, gone) ==
  LET sent == s.out \cup UNION {node[p].out : p \in Node \ {n}}
      rest == messages \ gone
      room == MaxInTransit - Cardinality(rest)
      fits == IF Cardinality(sent \ rest) <= room THEN Cardinality(sent \ rest) ELSE room
  IN  /\ s.prepared.num <= MaxBallot
      /\ node' = [p \in Node |-> [(IF p = n THEN s ELSE node[p]) EXCEPT !.out = {}]]
      /\ \E kept \in kSubset(fits, sent \ rest) : messages' = rest \cup kept

\* A message to a stopped node stays in transit.
Deliver(m, type, s) ==
  /\ m.type = type
  /\ m.to \in Running
  /\ Collected(m.to, s, {m})
  /\ UNCHANGED <<requests, bounds>>

StatusRequest(m) == Deliver(m, "StatusReq", AfterStatusRequest(node[m.to], m))
PrepareRequest(m) == Deliver(m, "PrepareReq", AfterPrepareRequest(node[m.to], m))
PrepareResponse(m) == m.accept /\ Deliver(m, "PrepareResp", AfterPrepareResponse(node[m.to], m))
AcceptRequest(m) == Deliver(m, "AcceptReq", AfterAcceptRequest(node[m.to], m))
AcceptResponse(m) == m.accept /\ Deliver(m, "AcceptResp", AfterAcceptResponse(node[m.to], m))
NotPrepared(m) == ~m.accept /\ Deliver(m, "PrepareResp", AfterNotAccept(node[m.to], m))
NotAccepted(m) == ~m.accept /\ Deliver(m, "AcceptResp", AfterNotAccept(node[m.to], m))
FetchRequest(m) == Deliver(m, "FetchReq", AfterFetchRequest(node[m.to], m))
FetchResponse(m) == Deliver(m, "FetchResp", AfterFetchResponse(node[m.to], m))

StatusResponse(m) ==
  /\ m.type = "StatusResp"
  /\ \E s \in AfterStatusResponse(node[m.to], m) : Deliver(m, "StatusResp", s)

Drop(m) ==
  /\ messages' = messages \ {m}
  /\ UNCHANGED <<node, requests, bounds>>

\* Tick, of one node after the other.  No timer is due, or the node has made
\* no progress for too long.
TickIdle ==
  /\ \E n \in Running : Collected(n, node[n], {})
  /\ UNCHANGED <<requests, bounds>>

TimeOut(n, s) ==
  /\ Collected(n, s, {})
  /\ events < MaxEvents
  /\ events' = events + 1
  /\ UNCHANGED <<requests, disturbed>>

TickElection(n) ==
  /\ node[n].state \in {StablePrimary, StableSecondary}
  /\ node[n].prepared.node # n
  /\ node[n].election # Unset
  /\ TimeOut(n, Initialize(node[n]))

TickRetry(n) ==
  \/ node[n].state = Initializing /\ TimeOut(n, Initialize(node[n]))
  \/ node[n].state = Preparing /\ TimeOut(n, Prepare(node[n]))

TickRepeat(n) ==
  /\ MaySend(node[n])
  /\ ~(node[n].ready /\ node[n].commandQ # <<>>)
  /\ TimeOut(n, Repeat(node[n]))

TickPropose(n) ==
  /\ MaySend(node[n])
  /\ node[n].ready /\ node[n].commandQ # <<>>
  /\ Collected(n, Propose(node[n]), {})
  /\ UNCHANGED <<requests, bounds>>

\* The request stays where it is when nobody is the primary.
ReceiveRequest ==
  /\ requests # <<>>
  /\ \E n \in Node :
       /\ node[n].state = StablePrimary
       /\ node' = [node EXCEPT ![n].commandQ = Append(@, Head(requests))]
  /\ requests' = Tail(requests)
  /\ UNCHANGED <<messages, bounds>>

-----------------------------------------------------------------------------
Handle(m) ==
  \/ StatusRequest(m) \/ StatusResponse(m) \/ PrepareRequest(m) \/ PrepareResponse(m)
  \/ AcceptRequest(m) \/ AcceptResponse(m) \/ NotPrepared(m) \/ NotAccepted(m)
  \/ FetchRequest(m) \/ FetchResponse(m)

Next ==
  \/ Reset \/ TickIdle \/ ReceiveRequest
  \/ \E m \in messages : Handle(m) \/ Drop(m)
  \/ \E n \in Node : Stop(n) \/ Start(n) \/ TickElection(n) \/ TickRetry(n)
                       \/ TickRepeat(n) \/ TickPropose(n)

Spec == Init /\ [][Next]_vars

-----------------------------------------------------------------------------
Ballots == [num : 0..MaxBallot, node : Node \cup {Nobody}]
Commands == 0..NumCommands
Proposals == [ballot : Ballots, decree : Nat, command : Commands]

Message ==
  [type : {"StatusReq", "StatusResp", "PrepareReq", "PrepareResp", "AcceptReq",
           "AcceptResp", "FetchReq", "FetchResp"},
   from : Node, to : Node, accept : BOOLEAN, ballot : Ballots, decree : Nat,
   command : Commands, proposalBallot : Ballots, proposals : Seq(Proposals)]

NodeState ==
  [id : Node, accepted : Proposals, prepared : Ballots, freshest : Proposals,
   state : {Inactive, StablePrimary, StableSecondary, Initializing, Preparing},
   log : Seq(Proposals), decided : Seq(Commands), commandQ : Seq(Commands \ {0}),
   proposalQ : Seq(Proposals), ready : BOOLEAN, election : {Unset, Finite, Overflowed},
   remote : SUBSET [node : Node, num : 0..MaxBallot, decree : Nat],
   learningFrom : Node \cup {Nobody}, out : SUBSET Message,
   executed : SUBSET [decree : Nat, command : Commands]]

\* Every variable has its type; a node caches MaxCachedLength proposals at most
\* and remembers one answer of a node.
TypeOK ==
  /\ node \in [Node -> NodeState]
  /\ \A n \in Node :
       /\ Len(node[n].proposalQ) <= MaxCachedLength
       /\ \A r, q \in node[n].remote : r.node = q.node => r = q
  /\ messages \subseteq Message
  /\ requests \in Seq(Commands \ {0})
  /\ events \in 0..MaxEvents /\ disturbed \in BOOLEAN

\* Two nodes are never primaries of one ballot, unless a node was restarted or
\* met messages of before a reset: MultiplePrimaries (rsl/bugs.go:49) calls it
\* a bug.
OnePrimary ==
  ~disturbed =>
    \A n, m \in Node :
      /\ node[n].state = StablePrimary /\ node[m].state = StablePrimary
      /\ node[n].accepted.ballot.num = node[m].accepted.ballot.num
      => n = m

\* A decree a node has executed was accepted by a majority in one ballot
\* (handleAcceptRequest and handleAcceptResponse, algo.go:606 and :706).  A
\* stopped node may have accepted it.
HasAccepted(n, p) == n \notin Running \/ \E i \in DOMAIN node[n].log : node[n].log[i] = p

ExecutedIsChosen ==
  ~disturbed =>
    \A n \in Node : \A e \in node[n].executed :
      \E i \in DOMAIN node[n].log :
        LET p == node[n].log[i] IN
        /\ p.decree = e.decree /\ p.command = e.command
        /\ 2 * Cardinality({q \in Node : HasAccepted(q, p)}) > Cardinality(Node)

\* The assertion of algo.go:586 and :696 never fails: no node has accepted in a
\* ballot above the one it has prepared, whatever is restarted or late.
PreparedCoversAccepted ==
  \A n \in Node : node[n].accepted.ballot.num <= node[n].prepared.num

\* A grace period is never added to an election timer at the largest integer
\* (algo.go:462, :527, :684), and a node that follows or leads has a timer.
ElectionTimerSet ==
  \A n \in Node : /\ node[n].election # Overflowed
                  /\ node[n].state \notin {Initializing, Inactive} => node[n].election = Finite

\* A log has no gap (algo.go:605, :760): an entry replaces the one before it in
\* a ballot not lower or is of the next decree of its ballot.  A node that was
\* restarted may learn later decrees and then log a cached proposal of decree 0
\* (algo.go:770).
Follows(p, q) ==
  \/ q.decree = p.decree /\ q.ballot.num >= p.ballot.num
  \/ q.decree = p.decree + 1 /\ q.ballot.num = p.ballot.num

LogHasNoGap ==
  ~disturbed =>
    \A n \in Node : LET log == node[n].log IN
      \A i \in DOMAIN log : IF i = 1 THEN Follows(NoProposal, log[1])
                                     ELSE Follows(log[i - 1], log[i])

-----------------------------------------------------------------------------
\* What rsl/bugs.go:5 calls a bug, InconsistentLogState, never happens: the
\* decided logs of the nodes agree wherever both have an entry.
DecidedLogsAgree ==
  \A n, m \in Node : \A i \in DOMAIN node[n].decided \cap DOMAIN node[m].decided :
    node[n].decided[i] = node[m].decided[i]
=============================================================================
