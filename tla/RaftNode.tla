------------------------------- MODULE RaftNode -------------------------------
(***************************************************************************)
(* The raft library (go.etcd.io/raft), which is not part of the            *)
(* repository: what a RawNode does with a message, a proposal and a tick,  *)
(* as far as the environments of raft/ can tell.  Each operator yields the *)
(* new node and the messages that wait in it for the next Ready.           *)
(*                                                                         *)
(* A MsgApp carries the whole log of the leader and heartbeats are such    *)
(* messages: probing for the common prefix, rejections and flow control    *)
(* are left out.  One entry stands for the configuration entries that      *)
(* Bootstrap writes.                                                       *)
(***************************************************************************)
EXTENDS Naturals, Sequences, FiniteSets, FiniteSetsExt

CONSTANTS
  NumNodes,       \* replicas are 1..NumNodes
  MaxTerm,        \* terms in which a node campaigns (a bound)
  Campaigners     \* nodes that campaign (a bound)

ASSUME NodeAssumption ==
  NumNodes \in Nat \ {0} /\ MaxTerm \in Nat \ {0} /\ Campaigners \subseteq 1..NumNodes

Node == 1..NumNodes
IsMajority(S) == 2 * Cardinality(S) > NumNodes

Entry(t, d) == [term |-> t, data |-> d]
Configuration == Entry(1, 0)

LastTerm(log) == IF log = <<>> THEN 0 ELSE log[Len(log)].term

\* A node: voter tells whether it has a configuration, without which it never
\* campaigns; vote is whom it voted for or follows in its term.
FromStorage(log, voter) ==
  [term |-> 0, vote |-> 0, role |-> "follower", granted |-> {}, log |-> log,
   commit |-> 0, match |-> [n \in Node |-> 0], voter |-> voter]

\* Bootstrap of a node with an empty storage.
Bootstrapped ==
  [FromStorage(<<Configuration>>, TRUE) EXCEPT !.term = 1, !.commit = 1]

Outcome(s, out) == [node |-> s, out |-> out]
Ignored(s) == Outcome(s, {})

Follower(s, t) ==
  [s EXCEPT !.term = t, !.vote = 0, !.role = "follower", !.granted = {},
            !.match = [n \in Node |-> 0]]

Appends(n, s) ==
  {[type |-> "App", from |-> n, to |-> q, term |-> s.term, log |-> s.log,
    commit |-> s.commit] : q \in Node \ {n}}

AppendEntry(n, s, d) ==
  LET log == Append(s.log, Entry(s.term, d))
      led == [s EXCEPT !.log = log, !.match[n] = Len(log)]
  IN  Outcome(led, Appends(n, led))

-----------------------------------------------------------------------------
Campaign(n, s) ==
  LET c == [Follower(s, s.term + 1) EXCEPT !.vote = n, !.role = "candidate", !.granted = {n}]
  IN  Outcome(c, {[type |-> "Vote", from |-> n, to |-> q, term |-> c.term,
                   last |-> LastTerm(c.log), index |-> Len(c.log)] : q \in Node \ {n}})

HandleVote(n, s, m) ==
  IF /\ s.vote \in {0, m.from}
     /\ \/ m.last > LastTerm(s.log)
        \/ m.last = LastTerm(s.log) /\ m.index >= Len(s.log)
  THEN Outcome([s EXCEPT !.vote = m.from],
               {[type |-> "VoteResp", from |-> n, to |-> m.from, term |-> s.term]})
  ELSE Ignored(s)

HandleVoteResp(n, s, m) ==
  LET c == [s EXCEPT !.granted = @ \union {m.from}]
  IN  IF s.role # "candidate" THEN Ignored(s)
      ELSE IF IsMajority(c.granted) THEN AppendEntry(n, [c EXCEPT !.role = "leader"], 0)
      ELSE Ignored(c)

\* Entries are told apart by index and term: an entry of the same term is kept.
Merged(mine, theirs) ==
  LET differ == {i \in DOMAIN theirs : i > Len(mine) \/ mine[i].term # theirs[i].term}
  IN  IF differ = {} THEN mine
      ELSE SubSeq(mine, 1, Min(differ) - 1) \o SubSeq(theirs, Min(differ), Len(theirs))

HandleApp(n, s, m) ==
  IF s.role = "leader" THEN Ignored(s)
  ELSE Outcome([s EXCEPT !.role = "follower", !.vote = IF @ = 0 THEN m.from ELSE @,
                         !.granted = {}, !.log = Merged(@, m.log),
                         !.commit = Max({@, Min({m.commit, Len(m.log)})})],
               {[type |-> "AppResp", from |-> n, to |-> m.from, term |-> s.term,
                 index |-> Len(m.log)]})

Committable(s) ==
  {i \in DOMAIN s.log : s.log[i].term = s.term /\ IsMajority({q \in Node : s.match[q] >= i})}

HandleAppResp(n, s, m) ==
  LET l == [s EXCEPT !.match[m.from] = Max({@, m.index})]
      c == [l EXCEPT !.commit = Max({@} \union Committable(l))]
  IN  IF s.role # "leader" THEN Ignored(s)
      ELSE Outcome(c, IF c.commit > s.commit THEN Appends(n, c) ELSE {})

\* A message of an earlier term is ignored.
Handled(n, s, m) ==
  CASE m.type = "Vote" -> HandleVote(n, s, m)
    [] m.type = "VoteResp" -> HandleVoteResp(n, s, m)
    [] m.type = "App" -> HandleApp(n, s, m)
    [] m.type = "AppResp" -> HandleAppResp(n, s, m)

StepNode(n, s, m) ==
  IF m.term < s.term THEN Ignored(s)
  ELSE Handled(n, IF m.term > s.term THEN Follower(s, m.term) ELSE s, m)

\* What a tick may do besides counting.
MayAct(n, s) ==
  s.role = "leader" \/ (s.voter /\ n \in Campaigners /\ s.term < MaxTerm)

Act(n, s) == IF s.role = "leader" THEN Outcome(s, Appends(n, s)) ELSE Campaign(n, s)
=============================================================================
