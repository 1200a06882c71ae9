----------------------------- MODULE RaftEnv_proofs -----------------------------
(***************************************************************************)
(* Theorems about RaftEnv, for any number of nodes, terms, requests, stops *)
(* and messages.                                                           *)
(*                                                                         *)
(* What the agent is shown and where a request ends.  A request has a      *)
(* place: the index at which the leader that was given it appended it.     *)
(* Logs are only ever copied place by place, so that no log has it         *)
(* anywhere else (IInv).                                                   *)
(*                                                                         *)
(* What raft promises, as long as no node was started again.  The state    *)
(* does not say what happened in a term, therefore the invariant (SInv)    *)
(* says that there is a history the state fits: L[t] is the log of the     *)
(* leader of term t, V[q][t] the node that q voted for in term t, A[q][t]  *)
(* how far q accepted the log of the leader of t, and M is what was ever   *)
(* sent.  An entry that a leader made itself is chosen when a majority     *)
(* accepted it; it is in the log of every later leader (LaterLeaders)      *)
(* unless a majority left its term without it, and what a node committed   *)
(* is chosen.                                                              *)
(*                                                                         *)
(* What a node acknowledged, when nodes were started again too.  A node    *)
(* started again has its log but not its vote, two leaders of a term are   *)
(* possible and nothing is chosen; what is left is that a log only loses   *)
(* entries to end in a later term or as another leader's log does (AInv).  *)
(***************************************************************************)
EXTENDS RaftEnv, Integers, SequenceTheorems, FiniteSetTheorems, WellFoundedInduction, TLAPS

-----------------------------------------------------------------------------
(* The minimum of a set of numbers *)

LEMMA Smaller ==
  \E R : IsWellFoundedOn(R, Nat) /\ \A x, y \in Nat : x < y => <<x, y>> \in R
<1> DEFINE R == {ss \in Nat \X Nat : ss[1] < ss[2]}
<1>1. IsWellFoundedOn(R, Nat)
  BY NatLessThanWellFounded DEF OpToRel
<1>2. \A x, y \in Nat : x < y => <<x, y>> \in R
  OBVIOUS
<1> QED
  BY <1>1, <1>2

LEMMA MinIsLeast ==
  ASSUME NEW S \in SUBSET Nat, S # {} PROVE Min(S) \in S /\ \A y \in S : Min(S) <= y
<1>1. PICK R : IsWellFoundedOn(R, Nat) /\ \A x, y \in Nat : x < y => <<x, y>> \in R
  BY Smaller
<1>2. S \subseteq Nat
  OBVIOUS
<1>3. \E x \in S : \A y \in S : ~(<<y, x>> \in R)
  <2>1. IsWellFoundedOn(R, Nat) /\ S \subseteq Nat /\ S # {}
    BY <1>1
  <2> QED
    BY ONLY <2>1, WFMin
<1>4. PICK x \in S : \A y \in S : ~(<<y, x>> \in R)
  BY <1>3
<1>5. \A y \in S : ~(y < x)
  BY <1>1, <1>2, <1>4
<1>6. \E z \in S : \A y \in S : z <= y
  BY <1>2, <1>5
<1> QED
  BY <1>6 DEF Min

-----------------------------------------------------------------------------
(* Logs, nodes and messages in which every request is in its place *)

Logged == [term : Nat, data : Nat]

\* A log has no request of R, and the others at the index that p tells.
Fits(log, p, R) ==
  /\ log \in Seq(Logged)
  /\ \A i \in DOMAIN log : log[i].data # 0 => p[log[i].data] = i /\ log[i].data \notin R

FittingNode(s, p, R) ==
  /\ DOMAIN s = {"term", "vote", "role", "granted", "log", "commit", "match", "voter"}
  /\ s.term \in Nat
  /\ Fits(s.log, p, R)

FittingMessage(m, p, R) ==
  /\ m.type \in {"Vote", "VoteResp", "App", "AppResp"}
  /\ m.term \in Nat
  /\ m.type = "App" => Fits(m.log, p, R)

\* What node n sends: at most one message to another.
FittingOut(n, out, p, R) ==
  \A x \in out : /\ x.from = n /\ FittingMessage(x, p, R)
                 /\ \A y \in out : x.to = y.to => x = y

LEMMA FitsFields ==
  ASSUME NEW log, NEW p, NEW R, Fits(log, p, R)
  PROVE  /\ log \in Seq(Logged) /\ Len(log) \in Nat /\ DOMAIN log = 1..Len(log)
         /\ \A i \in 1..Len(log) : log[i] \in Logged
         /\ \A i \in 1..Len(log) : log[i].data # 0 => p[log[i].data] = i /\ log[i].data \notin R
  BY LenProperties DEF Fits

LEMMA AppendFits ==
  ASSUME NEW log, NEW p, NEW R, Fits(log, p, R), NEW t \in Nat, NEW d \in Nat,
         d # 0 => p[d] = Len(log) + 1 /\ d \notin R
  PROVE  Fits(Append(log, Entry(t, d)), p, R)
<1> DEFINE e == Entry(t, d)
           new == Append(log, e)
<1>1. e \in Logged /\ e.data = d
  BY DEF Entry, Logged
<1>2. /\ Len(log) \in Nat /\ log \in Seq(Logged)
      /\ \A i \in 1..Len(log) : log[i].data # 0 => p[log[i].data] = i /\ log[i].data \notin R
  BY FitsFields
<1> HIDE DEF e
<1>3. /\ new \in Seq(Logged) /\ DOMAIN new = 1..(Len(log) + 1) /\ new[Len(log) + 1] = e
      /\ \A i \in 1..Len(log) : new[i] = log[i]
  BY <1>1, <1>2, AppendProperties, LenProperties
<1> HIDE DEF new
<1>4. ASSUME NEW i \in DOMAIN new, new[i].data # 0
      PROVE  p[new[i].data] = i /\ new[i].data \notin R
  <2>1. CASE i \in 1..Len(log)
    BY <1>2, <1>3, <1>4, <2>1
  <2>2. CASE i = Len(log) + 1
    BY <1>1, <1>3, <1>4, <2>2
  <2> QED
    BY <1>2, <1>3, <2>1, <2>2
<1>5. Fits(new, p, R)
  BY <1>3, <1>4 DEF Fits
<1> QED
  BY <1>5 DEF new, e

\* What is kept of a log: all of it, when it has the leader's entries, or what
\* precedes the first entry that differs.
LEMMA MergedIs ==
  ASSUME NEW S, NEW mine \in Seq(S), NEW theirs \in Seq(S)
  PROVE  /\ Merged(mine, theirs) \in Seq(S)
         /\ \/ /\ Merged(mine, theirs) = mine
               /\ \A i \in 1..Len(theirs) : i <= Len(mine) /\ mine[i].term = theirs[i].term
            \/ \E k \in 1..Len(theirs) :
                 /\ k - 1 <= Len(mine) /\ (k > Len(mine) \/ mine[k].term # theirs[k].term)
                 /\ \A i \in 1..(k - 1) : mine[i].term = theirs[i].term
                 /\ Len(Merged(mine, theirs)) = Len(theirs)
                 /\ \A i \in 1..Len(theirs) :
                      Merged(mine, theirs)[i] = IF i < k THEN mine[i] ELSE theirs[i]
<1> DEFINE differ == {i \in DOMAIN theirs : i > Len(mine) \/ mine[i].term # theirs[i].term}
           k == Min(differ)
           head == SubSeq(mine, 1, k - 1)
           tail == SubSeq(theirs, k, Len(theirs))
           new == head \o tail
<1>1. Len(mine) \in Nat /\ \A i \in 1..Len(mine) : mine[i] \in S
  BY LenProperties, ElementOfSeq
<1>2. /\ Len(theirs) \in Nat /\ DOMAIN theirs = 1..Len(theirs)
      /\ \A i \in 1..Len(theirs) : theirs[i] \in S
  BY LenProperties, ElementOfSeq
<1>3. CASE differ = {}
  <2>1. Merged(mine, theirs) = mine
    BY <1>3 DEF Merged
  <2>2. \A i \in 1..Len(theirs) : i <= Len(mine) /\ mine[i].term = theirs[i].term
    BY <1>1, <1>2, <1>3
  <2> HIDE DEF differ
  <2> QED
    BY <2>1, <2>2
<1>4. CASE differ # {}
  <2>1. Merged(mine, theirs) = new
    BY <1>4 DEF Merged
  <2>2. k \in differ /\ \A i \in differ : k <= i
    <3>1. differ \in SUBSET Nat
      BY <1>2
    <3> HIDE DEF differ
    <3> QED
      BY <1>4, <3>1, MinIsLeast
  <2>3. k \in 1..Len(theirs) /\ (k > Len(mine) \/ mine[k].term # theirs[k].term)
    <3>1. \A i \in differ : i \in 1..Len(theirs) /\ (i > Len(mine) \/ mine[i].term # theirs[i].term)
      BY <1>2
    <3> HIDE DEF differ, k
    <3> QED
      BY <2>2, <3>1
  <2>4. \A i \in 1..(k - 1) : i <= Len(mine) /\ mine[i].term = theirs[i].term
    <3>1. \A i \in 1..Len(theirs) : (i <= Len(mine) /\ mine[i].term = theirs[i].term) \/ i \in differ
      BY <1>1, <1>2
    <3> HIDE DEF differ, k
    <3> QED
      BY <1>2, <2>2, <2>3, <3>1
  <2> HIDE DEF k, differ
  <2>5. k \in Nat /\ k >= 1 /\ k <= Len(theirs)
    BY <1>2, <2>3
  <2>6. k - 1 <= Len(mine)
    <3>1. CASE k = 1
      BY <1>1, <3>1
    <3>2. CASE k # 1
      <4>1. k - 1 \in 1..(k - 1)
        BY <2>5, <3>2
      <4> QED
        BY <2>4, <4>1
    <3> QED
      BY <3>1, <3>2
  <2>7. /\ head \in Seq(S) /\ Len(head) = k - 1
        /\ \A i \in 1..(k - 1) : head[i] = mine[i]
    <3>1. \A i \in 1..(k - 1) : mine[i] \in S
      BY <1>1, <2>5, <2>6
    <3>2. /\ head \in Seq(S) /\ Len(head) = IF 1 <= k - 1 THEN k - 1 - 1 + 1 ELSE 0
          /\ \A i \in 1..(k - 1 - 1 + 1) : head[i] = mine[1 + i - 1]
      BY <2>5, <3>1, SubSeqProperties
    <3> QED
      BY <2>5, <3>2
  <2>8. /\ tail \in Seq(S) /\ Len(tail) = Len(theirs) - k + 1
        /\ \A i \in 1..(Len(theirs) - k + 1) : tail[i] = theirs[k + i - 1]
    <3>1. \A i \in k..Len(theirs) : theirs[i] \in S
      BY <1>2, <2>5
    <3> QED
      BY <1>2, <2>5, <3>1, SubSeqProperties
  <2> HIDE DEF head, tail
  <2>9. /\ new \in Seq(S) /\ Len(new) = Len(theirs)
        /\ \A i \in 1..Len(theirs) : new[i] = IF i <= k - 1 THEN head[i] ELSE tail[i - (k - 1)]
    <3>1. /\ new \in Seq(S) /\ Len(new) = Len(head) + Len(tail)
          /\ \A i \in 1..(Len(head) + Len(tail)) :
               new[i] = IF i <= Len(head) THEN head[i] ELSE tail[i - Len(head)]
      BY <2>7, <2>8, ConcatProperties
    <3>2. Len(head) + Len(tail) = Len(theirs)
      BY <1>2, <2>5, <2>7, <2>8
    <3> HIDE DEF new
    <3> QED
      BY <2>7, <3>1, <3>2
  <2> HIDE DEF new
  <2>10. ASSUME NEW i \in 1..Len(theirs) PROVE new[i] = IF i < k THEN mine[i] ELSE theirs[i]
    <3>1. CASE i < k
      <4>1. i \in 1..(k - 1) /\ i <= k - 1
        BY <2>5, <3>1
      <4> QED
        BY <2>7, <2>9, <3>1, <4>1
    <3>2. CASE ~(i < k)
      <4>1. ~(i <= k - 1) /\ i - (k - 1) \in 1..(Len(theirs) - k + 1) /\ k + (i - (k - 1)) - 1 = i
        BY <1>2, <2>5, <3>2
      <4> QED
        BY <2>8, <2>9, <3>2, <4>1
    <3> QED
      BY <3>1, <3>2
  <2> QED
    BY <2>1, <2>3, <2>4, <2>6, <2>9, <2>10
<1> QED
  BY <1>3, <1>4

LEMMA MergedFits ==
  ASSUME NEW mine, NEW theirs, NEW p, NEW R, Fits(mine, p, R), Fits(theirs, p, R)
  PROVE  Fits(Merged(mine, theirs), p, R)
<1> DEFINE new == Merged(mine, theirs)
<1>1. /\ Len(mine) \in Nat /\ mine \in Seq(Logged)
      /\ \A i \in 1..Len(mine) : mine[i].data # 0 => p[mine[i].data] = i /\ mine[i].data \notin R
  BY FitsFields
<1>2. /\ Len(theirs) \in Nat /\ theirs \in Seq(Logged)
      /\ \A i \in 1..Len(theirs) : theirs[i].data # 0 => p[theirs[i].data] = i /\ theirs[i].data \notin R
  BY FitsFields
<1>3. /\ new \in Seq(Logged)
      /\ \/ new = mine
         \/ \E k \in 1..Len(theirs) :
              /\ k - 1 <= Len(mine) /\ Len(new) = Len(theirs)
              /\ \A i \in 1..Len(theirs) : new[i] = IF i < k THEN mine[i] ELSE theirs[i]
  BY <1>1, <1>2, MergedIs
<1> HIDE DEF new
<1>4. CASE new = mine
  BY <1>4 DEF new
<1>5. CASE new # mine
  <2>1. PICK k \in 1..Len(theirs) :
          /\ k - 1 <= Len(mine) /\ Len(new) = Len(theirs)
          /\ \A i \in 1..Len(theirs) : new[i] = IF i < k THEN mine[i] ELSE theirs[i]
    BY <1>3, <1>5
  <2>2. ASSUME NEW i \in 1..Len(theirs), new[i].data # 0
        PROVE  p[new[i].data] = i /\ new[i].data \notin R
    <3>1. CASE i < k
      <4>1. i \in 1..Len(mine)
        BY <1>1, <2>1, <3>1
      <4> QED
        BY <1>1, <2>1, <2>2, <3>1, <4>1
    <3>2. CASE ~(i < k)
      BY <1>2, <2>1, <2>2, <3>2
    <3> QED
      BY <3>1, <3>2
  <2>3. DOMAIN new = 1..Len(theirs)
    BY <1>3, <2>1, LenProperties
  <2>4. Fits(new, p, R)
    BY <1>3, <2>2, <2>3 DEF Fits
  <2> QED
    BY <2>4 DEF new
<1> QED
  BY <1>4, <1>5

-----------------------------------------------------------------------------
(* The node *)

LEMMA FollowerFits ==
  ASSUME NEW s, NEW p, NEW R, FittingNode(s, p, R), NEW t \in Nat
  PROVE  FittingNode(Follower(s, t), p, R)
  BY DEF FittingNode, Follower

LEMMA AppendsFit ==
  ASSUME NEW n, NEW s, NEW p, NEW R, FittingNode(s, p, R)
  PROVE  FittingOut(n, Appends(n, s), p, R)
  BY DEF FittingNode, Appends, FittingOut, FittingMessage

LEMMA AppendEntryFits ==
  ASSUME NEW n, NEW s, NEW p, NEW R, FittingNode(s, p, R), NEW d \in Nat,
         d # 0 => p[d] = Len(s.log) + 1 /\ d \notin R
  PROVE  /\ FittingNode(AppendEntry(n, s, d).node, p, R)
         /\ FittingOut(n, AppendEntry(n, s, d).out, p, R)
<1> DEFINE log == Append(s.log, Entry(s.term, d))
           led == [s EXCEPT !.log = log, !.match[n] = Len(log)]
<1>1. Fits(log, p, R)
  BY AppendFits DEF FittingNode
<1> HIDE DEF log
<1>2. FittingNode(led, p, R)
  BY <1>1 DEF FittingNode
<1> HIDE DEF led
<1>3. AppendEntry(n, s, d) = [node |-> led, out |-> Appends(n, led)]
  BY DEF AppendEntry, Outcome, led, log
<1> QED
  BY <1>2, <1>3, AppendsFit

\* A node's answers and what they leave of it.
LEMMA HandledFits ==
  ASSUME NEW n, NEW s, NEW m, NEW p, NEW R, FittingNode(s, p, R), FittingMessage(m, p, R)
  PROVE  /\ FittingNode(Handled(n, s, m).node, p, R)
         /\ FittingOut(n, Handled(n, s, m).out, p, R)
<1> DEFINE Fine(r) == FittingNode(r.node, p, R) /\ FittingOut(n, r.out, p, R)
<1>0. Fine(Ignored(s))
  BY DEF Ignored, Outcome, FittingOut
<1>1. CASE m.type = "Vote"
  <2>1. Handled(n, s, m) = HandleVote(n, s, m)
    BY <1>1 DEF Handled
  <2> DEFINE v == [s EXCEPT !.vote = m.from]
             x == [type |-> "VoteResp", from |-> n, to |-> m.from, term |-> s.term]
  <2>2. FittingNode(v, p, R)
    BY DEF FittingNode
  <2>3. FittingOut(n, {x}, p, R)
    BY DEF FittingOut, FittingMessage, FittingNode
  <2>4. HandleVote(n, s, m) \in {Ignored(s), [node |-> v, out |-> {x}]}
    BY DEF HandleVote, Outcome
  <2> HIDE DEF v, x
  <2>5. Fine([node |-> v, out |-> {x}])
    BY <2>2, <2>3
  <2> QED
    BY <1>0, <2>1, <2>4, <2>5
<1>2. CASE m.type = "VoteResp"
  <2>1. Handled(n, s, m) = HandleVoteResp(n, s, m)
    BY <1>2 DEF Handled
  <2> DEFINE c == [s EXCEPT !.granted = @ \union {m.from}]
             l == [c EXCEPT !.role = "leader"]
  <2>2. FittingNode(c, p, R)
    BY DEF FittingNode
  <2>3. HandleVoteResp(n, s, m) \in {Ignored(s), AppendEntry(n, l, 0), Ignored(c)}
    BY DEF HandleVoteResp
  <2> HIDE DEF c
  <2>4. FittingNode(l, p, R)
    BY <2>2 DEF FittingNode
  <2> HIDE DEF l
  <2>5. Fine(AppendEntry(n, l, 0))
    BY <2>4, AppendEntryFits
  <2>6. Fine(Ignored(c))
    BY <2>2 DEF Ignored, Outcome, FittingOut
  <2> QED
    BY <1>0, <2>1, <2>3, <2>5, <2>6
<1>3. CASE m.type = "App"
  <2>1. Handled(n, s, m) = HandleApp(n, s, m)
    BY <1>3 DEF Handled
  <2> DEFINE c == Max({s.commit, Min({m.commit, Len(m.log)})})
             log == Merged(s.log, m.log)
             f == [s EXCEPT !.role = "follower", !.vote = IF @ = 0 THEN m.from ELSE @,
                            !.granted = {}, !.log = log, !.commit = c]
             x == [type |-> "AppResp", from |-> n, to |-> m.from, term |-> s.term,
                   index |-> Len(m.log)]
  <2>2. Fits(log, p, R)
    BY <1>3, MergedFits DEF FittingNode, FittingMessage
  <2>3. HandleApp(n, s, m) \in {Ignored(s), [node |-> f, out |-> {x}]}
    BY DEF HandleApp, Outcome
  <2> HIDE DEF c, log
  <2>4. FittingNode(f, p, R)
    BY <2>2 DEF FittingNode
  <2>5. FittingOut(n, {x}, p, R)
    BY DEF FittingOut, FittingMessage, FittingNode
  <2> HIDE DEF f, x
  <2>6. Fine([node |-> f, out |-> {x}])
    BY <2>4, <2>5
  <2> QED
    BY <1>0, <2>1, <2>3, <2>6
<1>4. CASE m.type = "AppResp"
  <2>1. Handled(n, s, m) = HandleAppResp(n, s, m)
    BY <1>4 DEF Handled
  <2> DEFINE l == [s EXCEPT !.match[m.from] = Max({@, m.index})]
             k == Max({l.commit} \union Committable(l))
             c == [l EXCEPT !.commit = k]
             out == IF c.commit > s.commit THEN Appends(n, c) ELSE {}
  <2>2. HandleAppResp(n, s, m) \in {Ignored(s), [node |-> c, out |-> out]}
    BY DEF HandleAppResp, Outcome
  <2>3. FittingNode(l, p, R)
    BY DEF FittingNode
  <2> HIDE DEF l, k
  <2>4. FittingNode(c, p, R)
    BY <2>3 DEF FittingNode
  <2> HIDE DEF c
  <2>5. FittingOut(n, out, p, R)
    BY <2>4, AppendsFit DEF FittingOut
  <2> HIDE DEF out
  <2>6. Fine([node |-> c, out |-> out])
    BY <2>4, <2>5
  <2> QED
    BY <1>0, <2>1, <2>2, <2>6
<1> QED
  BY <1>1, <1>2, <1>3, <1>4 DEF FittingMessage

LEMMA StepNodeFits ==
  ASSUME NEW n, NEW s, NEW m, NEW p, NEW R, FittingNode(s, p, R), FittingMessage(m, p, R)
  PROVE  /\ FittingNode(StepNode(n, s, m).node, p, R)
         /\ FittingOut(n, StepNode(n, s, m).out, p, R)
<1>1. CASE m.term < s.term
  <2>1. StepNode(n, s, m) = [node |-> s, out |-> {}]
    BY <1>1 DEF StepNode, Ignored, Outcome
  <2> QED
    BY <2>1 DEF FittingOut
<1>2. CASE ~(m.term < s.term)
  <2> DEFINE t == IF m.term > s.term THEN Follower(s, m.term) ELSE s
  <2>1. FittingNode(t, p, R)
    BY FollowerFits DEF FittingMessage
  <2>2. StepNode(n, s, m) = Handled(n, t, m)
    BY <1>2 DEF StepNode
  <2> HIDE DEF t
  <2> QED
    BY <2>1, <2>2, HandledFits
<1> QED
  BY <1>1, <1>2

LEMMA ActFits ==
  ASSUME NEW n, NEW s, NEW p, NEW R, FittingNode(s, p, R)
  PROVE  /\ FittingNode(Act(n, s).node, p, R)
         /\ FittingOut(n, Act(n, s).out, p, R)
<1>1. CASE s.role = "leader"
  <2>1. Act(n, s) = [node |-> s, out |-> Appends(n, s)]
    BY <1>1 DEF Act, Outcome
  <2> QED
    BY <2>1, AppendsFit
<1>2. CASE s.role # "leader"
  <2> DEFINE f == Follower(s, s.term + 1)
             c == [f EXCEPT !.vote = n, !.role = "candidate", !.granted = {n}]
             out == {[type |-> "Vote", from |-> n, to |-> q, term |-> c.term,
                      last |-> LastTerm(c.log), index |-> Len(c.log)] : q \in Node \ {n}}
  <2>1. Act(n, s) = [node |-> c, out |-> out]
    BY <1>2 DEF Act, Campaign, Outcome
  <2>2. FittingNode(f, p, R)
    BY FollowerFits DEF FittingNode
  <2> HIDE DEF f
  <2>3. FittingNode(c, p, R)
    BY <2>2 DEF FittingNode
  <2> HIDE DEF c
  <2>4. FittingOut(n, out, p, R)
    BY <2>3 DEF FittingOut, FittingMessage, FittingNode
  <2> HIDE DEF out
  <2> QED
    BY <2>1, <2>3, <2>4
<1> QED
  BY <1>1, <1>2

-----------------------------------------------------------------------------
(* The invariant *)

Pending == ToSet(requests)

\* Requests have the places p, and every message is one of M.
Placed(p, M) ==
  /\ p \in [Nat -> Nat]
  /\ requests \in Seq(Nat \ {0})
  /\ \A i, j \in DOMAIN requests : requests[i] = requests[j] => i = j
  /\ Live \subseteq Node
  /\ \A n \in Live : FittingNode(nodes[n], p, Pending)
  /\ \A n \in Node : Fits(stored[n], p, Pending)
  /\ \A m \in M : FittingMessage(m, p, Pending)
  /\ waiting \subseteq M /\ messages \subseteq M
  /\ links \in [Link -> Seq(M)]

IInv == shown = messages /\ \E p, M : Placed(p, M)

LEMMA NothingFits == ASSUME NEW p, NEW R PROVE Fits(<<>>, p, R)
<1>1. <<>> \in Seq(Logged) /\ DOMAIN <<>> = {}
  BY EmptySeq
<1> QED
  BY <1>1 DEF Fits

LEMMA NewNodeFits ==
  ASSUME NEW log, NEW v, NEW p, NEW R, Fits(log, p, R)
  PROVE  FittingNode(FromStorage(log, v), p, R) /\ FittingNode(Bootstrapped, p, R)
<1> DEFINE c == <<Configuration>>
           b == FromStorage(c, TRUE)
<1>1. Fits(c, p, R)
  <2>1. c \in Seq(Logged) /\ DOMAIN c = {1} /\ c[1].data = 0
    BY DEF Configuration, Entry, Logged
  <2> QED
    BY <2>1 DEF Fits
<1> HIDE DEF c
<1>2. FittingNode(FromStorage(log, v), p, R) /\ FittingNode(b, p, R)
  BY <1>1 DEF FittingNode, FromStorage
<1> HIDE DEF b
<1>3. Bootstrapped = [b EXCEPT !.term = 1, !.commit = 1]
  BY DEF Bootstrapped, b, c
<1> QED
  BY <1>2, <1>3 DEF FittingNode

\* The beginning of an episode.
LEMMA NewEpisode ==
  /\ Requests \in Seq(Nat \ {0})
  /\ \A i, j \in DOMAIN Requests : Requests[i] = Requests[j] => i = j
  /\ \A l \in Link : [k \in Link |-> <<>>][l] = <<>>
<1> DEFINE k == IF mode = "link" THEN 1 ELSE NumRequests
<1>1. k \in Nat
  BY EnvAssumption
<1>2. Requests = [i \in 1..k |-> i]
  BY DEF Requests
<1> HIDE DEF k
<1> QED
  BY <1>1, <1>2

LEMMA Beginning ==
  ASSUME NEW p \in [Nat -> Nat],
         nodes = Made, stored = [n \in Node |-> <<>>],
         waiting = {}, messages = {}, links = [l \in Link |-> <<>>], requests = Requests
  PROVE  Placed(p, {})
<1>1. \A n \in Live : FittingNode(nodes[n], p, Pending)
  <2>1. FittingNode(Bootstrapped, p, Pending)
    BY NothingFits, NewNodeFits
  <2> QED
    BY <2>1 DEF Made, Live
<1>2. \A n \in Node : Fits(stored[n], p, Pending)
  BY NothingFits
<1>3. links \in [Link -> Seq({})]
  BY EmptySeq
<1>4. Live \subseteq Node
  BY DEF Made, Live
<1> QED
  BY <1>1, <1>2, <1>3, <1>4, NewEpisode DEF Placed

LEMMA InitIInv == Init => IInv
<1> SUFFICES ASSUME Init PROVE IInv
  OBVIOUS
<1> DEFINE p == [d \in Nat |-> 0]
<1>1. p \in [Nat -> Nat]
  OBVIOUS
<1> HIDE DEF p
<1>2. Placed(p, {})
  BY <1>1, Beginning DEF Init
<1> QED
  BY <1>2 DEF IInv, Init

LEMMA ResetKeeps == ASSUME Reset PROVE IInv'
<1> DEFINE p == [d \in Nat |-> 0]
<1>1. p \in [Nat -> Nat]
  OBVIOUS
<1> HIDE DEF p
<1>2. Requests' = Requests
  BY DEF Reset, Requests
<1>3. Placed(p, {})'
  <2>1. \A n \in Live' : FittingNode(nodes'[n], p, Pending')
    <3>1. FittingNode(Bootstrapped, p, Pending')
      BY NothingFits, NewNodeFits
    <3> QED
      BY <3>1 DEF Reset, Made, Live
  <2>2. \A n \in Node : Fits(stored'[n], p, Pending')
    BY NothingFits DEF Reset
  <2>3. links' \in [Link -> Seq({})]
    BY EmptySeq DEF Reset
  <2>4. /\ requests' \in Seq(Nat \ {0})
        /\ \A i, j \in DOMAIN requests' : requests'[i] = requests'[j] => i = j
    BY NewEpisode DEF Reset
  <2>5. Live' \subseteq Node
    BY DEF Reset, Made, Live
  <2> QED
    BY <1>1, <2>1, <2>2, <2>3, <2>4, <2>5 DEF Placed, Reset
<1> QED
  BY <1>3 DEF IInv, Reset

-----------------------------------------------------------------------------
(* What a proposal does to the places *)

LEMMA FirstPending ==
  ASSUME NEW p, NEW M, Placed(p, M), requests # <<>>
  PROVE  /\ Head(requests) \in Nat \ {0} /\ Head(requests) \in Pending
         /\ Tail(requests) \in Seq(Nat \ {0})
         /\ \A i, j \in DOMAIN Tail(requests) : Tail(requests)[i] = Tail(requests)[j] => i = j
         /\ ToSet(Tail(requests)) \subseteq Pending \ {Head(requests)}
<1>1. requests \in Seq(Nat \ {0})
      /\ \A i, j \in DOMAIN requests : requests[i] = requests[j] => i = j
  BY DEF Placed
<1>2. Len(requests) \in Nat \ {0} /\ DOMAIN requests = 1..Len(requests)
  BY <1>1, EmptySeq, LenProperties
<1>3. /\ Head(requests) \in Nat \ {0} /\ Tail(requests) \in Seq(Nat \ {0})
      /\ Len(Tail(requests)) = Len(requests) - 1
      /\ \A i \in 1..Len(Tail(requests)) : Tail(requests)[i] = requests[i + 1]
      /\ Head(requests) = requests[1]
  BY <1>1, HeadTailProperties
<1>4. DOMAIN Tail(requests) = 1..(Len(requests) - 1)
  BY <1>3, LenProperties
<1> DEFINE t == Tail(requests)
           h == Head(requests)
           k == Len(requests)
<1>5. \A i \in DOMAIN t : t[i] = requests[i + 1] /\ i + 1 \in DOMAIN requests /\ i + 1 # 1
  BY <1>2, <1>3, <1>4
<1>6. 1 \in DOMAIN requests
  BY <1>2
<1>7. \A i \in DOMAIN t : t[i] \in Pending /\ t[i] # h
  BY <1>1, <1>3, <1>5, <1>6 DEF Pending, ToSet
<1>8. \A i, j \in DOMAIN t : t[i] = t[j] => i = j
  <2>1. ASSUME NEW i \in DOMAIN t, NEW j \in DOMAIN t, t[i] = t[j] PROVE i = j
    <3>1. i + 1 = j + 1
      BY <1>1, <1>5, <2>1
    <3>2. i \in Int /\ j \in Int
      BY <1>4
    <3> QED
      BY <3>1, <3>2
  <2> QED
    BY <2>1
<1>9. h \in Pending
  BY <1>3, <1>6 DEF Pending, ToSet
<1>10. ToSet(t) \subseteq Pending \ {h}
  BY <1>7 DEF ToSet
<1> QED
  BY <1>3, <1>8, <1>9, <1>10

\* A request that is no longer pending may get a place: no log had it.
LEMMA FitsWithPlace ==
  ASSUME NEW p \in [Nat -> Nat], NEW R, NEW d \in R, NEW k \in Nat,
         NEW Q, Q \subseteq R, NEW log, Fits(log, p, R)
  PROVE  Fits(log, [p EXCEPT ![d] = k], Q)
<1>1. ASSUME NEW i \in DOMAIN log, log[i].data # 0
      PROVE  [p EXCEPT ![d] = k][log[i].data] = i /\ log[i].data \notin Q
  <2>0. /\ DOMAIN log = 1..Len(log)
        /\ \A j \in 1..Len(log) : log[j] \in Logged
        /\ \A j \in 1..Len(log) : log[j].data # 0 => p[log[j].data] = j /\ log[j].data \notin R
    BY FitsFields
  <2>1. /\ i \in 1..Len(log) /\ log[i] \in Logged
        /\ p[log[i].data] = i /\ log[i].data \notin R
    BY <1>1, <2>0
  <2>2. log[i].data \in Nat /\ log[i].data # d
    BY <2>1 DEF Logged
  <2> QED
    BY <2>1, <2>2
<1> QED
  BY <1>1 DEF Fits

\* The outcome of a proposal: what is in the network and the other nodes fits
\* the new places too.
LEMMA ProposedFits ==
  ASSUME NEW p, NEW M, Placed(p, M), requests # <<>>,
         NEW r \in Proposed(Head(requests)), requests' = Remaining
  PROVE  \E q \in [Nat -> Nat] :
           /\ requests' \in Seq(Nat \ {0})
           /\ \A i, j \in DOMAIN requests' : requests'[i] = requests'[j] => i = j
           /\ DOMAIN r.node = Live
           /\ \A n \in Live : FittingNode(r.node[n], q, Pending')
           /\ \A n \in Node : Fits(stored[n], q, Pending')
           /\ \A m \in M : FittingMessage(m, q, Pending')
           /\ \E n \in Node \union {0} : FittingOut(n, r.out, q, Pending')
<1>1. CASE Leaders = {}
  <2>1. r = [node |-> nodes, out |-> {}] /\ requests' = requests
    BY <1>1 DEF Proposed, Outcome, Remaining
  <2>2. Pending' = Pending
    BY <2>1 DEF Pending
  <2>3. FittingOut(0, r.out, p, Pending')
    BY <2>1 DEF FittingOut
  <2> QED
    BY <2>1, <2>2, <2>3 DEF Placed, Live
<1>2. CASE Leaders # {}
  <2> DEFINE d == Head(requests)
  <2>1. PICK n \in Leaders : r = [node |-> [nodes EXCEPT ![n] = AppendEntry(n, nodes[n], d).node],
                                  out |-> AppendEntry(n, nodes[n], d).out]
    BY <1>2 DEF Proposed, Outcome
  <2>2. requests' = Tail(requests)
    BY <1>2 DEF Remaining
  <2>3. /\ d \in Nat \ {0} /\ d \in Pending
        /\ requests' \in Seq(Nat \ {0})
        /\ \A i, j \in DOMAIN requests' : requests'[i] = requests'[j] => i = j
        /\ Pending' \subseteq Pending \ {d}
    BY <2>2, FirstPending DEF Pending
  <2> HIDE DEF d
  <2>4. n \in Live /\ n \in Node
    BY DEF Leaders, Placed
  <2>5. Len(nodes[n].log) \in Nat
    BY <2>4, FitsFields DEF Placed, FittingNode
  <2> DEFINE k == Len(nodes[n].log) + 1
             q == [p EXCEPT ![d] = k]
  <2>6. k \in Nat /\ p \in [Nat -> Nat]
    <3>1. k \in Nat
      BY <2>5
    <3>2. p \in [Nat -> Nat]
      BY DEF Placed
    <3> QED
      BY <3>1, <3>2
  <2>7. q \in [Nat -> Nat] /\ q[d] = k
    BY <2>3, <2>6
  <2>8. ASSUME NEW log, Fits(log, p, Pending) PROVE Fits(log, q, Pending')
    <3> HIDE DEF k
    <3>1. Pending' \subseteq Pending
      BY <2>3
    <3> QED
      BY <2>3, <2>6, <2>8, <3>1, FitsWithPlace
  <2> HIDE DEF q
  <2>9. ASSUME NEW o \in Live PROVE FittingNode(nodes[o], q, Pending')
    BY <2>8 DEF Placed, FittingNode
  <2>10. ASSUME NEW m \in M PROVE FittingMessage(m, q, Pending')
    BY <2>8 DEF Placed, FittingMessage
  <2>11. \A o \in Node : Fits(stored[o], q, Pending')
    BY <2>8 DEF Placed
  <2> DEFINE a == AppendEntry(n, nodes[n], d)
  <2>12. FittingNode(a.node, q, Pending') /\ FittingOut(n, a.out, q, Pending')
    <3>1. FittingNode(nodes[n], q, Pending')
      BY <2>4, <2>9
    <3>2. q[d] = Len(nodes[n].log) + 1 /\ d \notin Pending' /\ d \in Nat
      BY <2>3, <2>7
    <3> QED
      BY <3>1, <3>2, AppendEntryFits
  <2> HIDE DEF a
  <2>13. r.node = [nodes EXCEPT ![n] = a.node] /\ r.out = a.out
    BY <2>1 DEF a
  <2>14. DOMAIN r.node = Live /\ \A o \in Live : r.node[o] = IF o = n THEN a.node ELSE nodes[o]
    BY <2>4, <2>13 DEF Live
  <2>15. \A o \in Live : FittingNode(r.node[o], q, Pending')
    BY <2>9, <2>12, <2>14
  <2> QED
    BY <2>3, <2>4, <2>7, <2>10, <2>11, <2>12, <2>13, <2>14, <2>15
<1> QED
  BY <1>1, <1>2

\* The outcome of a delivery.
LEMMA DeliveredFits ==
  ASSUME NEW p, NEW M, Placed(p, M), NEW m \in M
  PROVE  LET r == Delivered(m) IN
           /\ DOMAIN r.node = Live
           /\ \A n \in Live : FittingNode(r.node[n], p, Pending)
           /\ FittingOut(m.to, r.out, p, Pending)
<1>1. CASE m.to \notin Live
  <2>1. Delivered(m) = [node |-> nodes, out |-> {}]
    BY <1>1 DEF Delivered, Outcome
  <2> QED
    BY <2>1 DEF Placed, Live, FittingOut
<1>2. CASE m.to \in Live
  <2> DEFINE n == m.to
             a == StepNode(n, nodes[n], m)
  <2>1. FittingNode(a.node, p, Pending) /\ FittingOut(n, a.out, p, Pending)
    BY <1>2, StepNodeFits DEF Placed
  <2>2. Delivered(m) = [node |-> [nodes EXCEPT ![n] = a.node], out |-> a.out]
    BY <1>2 DEF Delivered, Outcome
  <2> HIDE DEF n, a
  <2>3. \A o \in Live : [nodes EXCEPT ![n] = a.node][o] = IF o = n THEN a.node ELSE nodes[o]
    BY DEF Live
  <2>4. DOMAIN [nodes EXCEPT ![n] = a.node] = Live
    BY DEF Live
  <2>5. \A o \in Live : FittingNode([nodes EXCEPT ![n] = a.node][o], p, Pending)
    BY <2>1, <2>3 DEF Placed
  <2> QED
    BY <2>1, <2>2, <2>4, <2>5 DEF n
<1> QED
  BY <1>1, <1>2

-----------------------------------------------------------------------------
(* Ready, the ticks and the queues *)

LEMMA ReadyFits ==
  ASSUME NEW ns, DOMAIN ns \subseteq Node, NEW p, NEW R,
         \A n \in DOMAIN ns : FittingNode(ns[n], p, R),
         \A n \in Node : Fits(stored[n], p, R), Ready(ns)
  PROVE  /\ nodes' = ns /\ waiting' = {} /\ Live' = DOMAIN ns
         /\ \A n \in Node : Fits(stored'[n], p, R)
<1>1. ASSUME NEW n \in Node PROVE Fits(stored'[n], p, R)
  <2>1. stored'[n] = IF n \in DOMAIN ns THEN ns[n].log ELSE stored[n]
    BY DEF Ready, Appended
  <2> QED
    BY <2>1 DEF FittingNode
<1> QED
  BY <1>1 DEF Ready, Live

LEMMA TickedFits ==
  ASSUME NEW ns, NEW p, NEW R, \A n \in DOMAIN ns : FittingNode(ns[n], p, R),
         NEW o \in Ticked(ns)
  PROVE  /\ DOMAIN NodesOf(o) = DOMAIN ns
         /\ \A n \in DOMAIN ns : FittingNode(NodesOf(o)[n], p, R)
         /\ \A x \in SentBy(o) : FittingMessage(x, p, R)
         /\ \A x, y \in SentBy(o) : x.from = y.from /\ x.to = y.to => x = y
<1>1. PICK S : o = [n \in DOMAIN ns |-> IF n \in S THEN Act(n, ns[n]) ELSE Ignored(ns[n])]
  BY DEF Ticked
<1>2. ASSUME NEW n \in DOMAIN ns
      PROVE  FittingNode(o[n].node, p, R) /\ FittingOut(n, o[n].out, p, R)
  <2>1. CASE n \in S
    <3>1. o[n] = Act(n, ns[n])
      BY <1>1, <2>1
    <3> QED
      BY <3>1, ActFits
  <2>2. CASE n \notin S
    <3>1. o[n] = [node |-> ns[n], out |-> {}]
      BY <1>1, <2>2 DEF Ignored, Outcome
    <3> QED
      BY <3>1 DEF FittingOut
  <2> QED
    BY <2>1, <2>2
<1>3. DOMAIN o = DOMAIN ns
  BY <1>1
<1>4. ASSUME NEW x \in SentBy(o)
      PROVE  \E n \in DOMAIN ns : x \in o[n].out /\ x.from = n /\ FittingMessage(x, p, R)
  <2>1. PICK n \in DOMAIN ns : x \in o[n].out
    BY <1>3 DEF SentBy
  <2> QED
    BY <1>2, <2>1 DEF FittingOut
<1>5. ASSUME NEW x \in SentBy(o), NEW y \in SentBy(o), x.from = y.from, x.to = y.to PROVE x = y
  <2>1. PICK n \in DOMAIN ns : x \in o[n].out /\ x.from = n
    BY <1>4
  <2>2. y \in o[n].out
    BY <1>4, <1>5, <2>1
  <2> QED
    BY <1>2, <1>5, <2>1, <2>2 DEF FittingOut
<1> QED
  BY <1>2, <1>3, <1>4, <1>5 DEF NodesOf

LEMMA OneInOrder ==
  ASSUME NEW M, NEW S, S \subseteq M, \A x, y \in S : x = y
  PROVE  SetToSeq(S) \in Seq(M)
<1>1. CASE S = {}
  <2>1. Cardinality(S) = 0
    BY <1>1, FS_EmptySet
  <2> DEFINE e == [i \in 1..0 |-> i]
  <2>2. e \in [1..0 -> S] /\ IsInjective(e)
    BY DEF IsInjective
  <2> HIDE DEF e
  <2>3. SetToSeq(S) = CHOOSE f \in [1..0 -> S] : IsInjective(f)
    BY <2>1 DEF SetToSeq
  <2>4. SetToSeq(S) \in [1..0 -> S]
    BY <2>2, <2>3
  <2>5. SetToSeq(S) \in [1..0 -> M]
    BY <2>4
  <2> QED
    BY <2>5
<1>2. CASE S # {}
  <2>1. PICK x \in S : S = {x}
    BY <1>2
  <2>2. Cardinality(S) = 1
    BY <2>1, FS_Singleton
  <2> DEFINE e == [i \in 1..1 |-> x]
  <2>3. e \in [1..1 -> S] /\ IsInjective(e)
    BY DEF IsInjective
  <2> HIDE DEF e
  <2>4. SetToSeq(S) = CHOOSE f \in [1..1 -> S] : IsInjective(f)
    BY <2>2 DEF SetToSeq
  <2>5. SetToSeq(S) \in [1..1 -> S]
    BY <2>3, <2>4
  <2>6. SetToSeq(S) \in [1..1 -> M]
    BY <2>5
  <2> QED
    BY <2>6
<1> QED
  BY <1>1, <1>2

OnePerLink(ms) == \A x, y \in ms : x.from = y.from /\ x.to = y.to => x = y

LEMMA AddedFits ==
  ASSUME NEW M, NEW q, \A l \in Link : q[l] \in Seq(M),
         NEW A, A \subseteq M, OnePerLink(A), NEW B, B \subseteq M, OnePerLink(B)
  PROVE  Added(q, A, B) \in [Link -> Seq(M)]
<1>1. ASSUME NEW l \in Link
      PROVE  q[l] \o SetToSeq(On(l, A)) \o SetToSeq(On(l, B)) \in Seq(M)
  <2>1. SetToSeq(On(l, A)) \in Seq(M)
    <3>1. On(l, A) \subseteq M /\ \A x, y \in On(l, A) : x = y
      BY DEF On, OnePerLink
    <3> QED
      BY <3>1, OneInOrder
  <2>2. SetToSeq(On(l, B)) \in Seq(M)
    <3>1. On(l, B) \subseteq M /\ \A x, y \in On(l, B) : x = y
      BY DEF On, OnePerLink
    <3> QED
      BY <3>1, OneInOrder
  <2>3. q[l] \o SetToSeq(On(l, A)) \in Seq(M)
    BY <2>1, ConcatProperties
  <2> QED
    BY <2>2, <2>3, ConcatProperties
<1> QED
  BY <1>1 DEF Added

LEMMA MoreMessages ==
  ASSUME NEW M, NEW N, NEW s \in Seq(M) PROVE s \in Seq(M \union N)
  BY SeqMonotonic

-----------------------------------------------------------------------------
(* The actions *)

LEMMA StartKeeps ==
  ASSUME NEW p, NEW M, Placed(p, M), NEW n \in Node, Start(n) PROVE Placed(p, M)'
<1> DEFINE new == NewNode(n)
<1>1. FittingNode(new, p, Pending)
  <2>1. Fits(stored[n], p, Pending)
    BY DEF Placed
  <2> QED
    BY <2>1, NewNodeFits DEF NewNode
<1>2. nodes' = [q \in Live \union {n} |-> IF q = n THEN new ELSE nodes[q]]
  BY DEF Start
<1> HIDE DEF new
<1>3. /\ UNCHANGED <<stored, waiting, messages, links, requests>>
      /\ Live' = Live \union {n}
  BY <1>2 DEF Start, messageVars, Live
<1>4. \A q \in Live' : FittingNode(nodes'[q], p, Pending)
  BY <1>1, <1>2, <1>3 DEF Placed
<1>5. Pending' = Pending
  BY <1>3 DEF Pending
<1> QED
  BY <1>3, <1>4, <1>5 DEF Placed

LEMMA StopKeeps ==
  ASSUME NEW p, NEW M, Placed(p, M), NEW n \in Node, Stop(n) PROVE Placed(p, M)'
<1>1. /\ nodes' = [q \in Live \ {n} |-> nodes[q]]
      /\ waiting' \subseteq waiting
      /\ UNCHANGED <<stored, messages, links, requests>>
  BY DEF Stop, messageVars
<1>2. Live' = Live \ {n} /\ \A q \in Live' : nodes'[q] = nodes[q]
  BY <1>1 DEF Live
<1>3. Pending' = Pending
  BY <1>1 DEF Pending
<1> QED
  BY <1>1, <1>2, <1>3 DEF Placed

LEMMA dropKeeps ==
  ASSUME NEW p, NEW M, Placed(p, M), NEW m, dropMessage(m) PROVE Placed(p, M)'
<1>1. /\ UNCHANGED <<nodes, stored, waiting, links, requests>>
      /\ messages' \subseteq messages
  BY DEF dropMessage, WithoutDropped, nodeVars
<1>2. Pending' = Pending /\ Live' = Live
  BY <1>1 DEF Pending, Live
<1> QED
  BY <1>1, <1>2 DEF Placed

LEMMA LinkDropKeeps ==
  ASSUME NEW p, NEW M, Placed(p, M), NEW l \in Link, LinkDrop(l) PROVE Placed(p, M)'
<1>1. /\ UNCHANGED <<nodes, stored, waiting, messages, requests>>
      /\ links' = [links EXCEPT ![l] = Tail(@)] /\ links[l] # <<>>
  BY DEF LinkDrop, nodeVars
<1>2. links \in [Link -> Seq(M)]
  BY DEF Placed
<1>3. Tail(links[l]) \in Seq(M)
  BY <1>1, <1>2, HeadTailProperties
<1>4. links' \in [Link -> Seq(M)]
  BY <1>1, <1>2, <1>3
<1>5. Pending' = Pending /\ Live' = Live
  BY <1>1 DEF Pending, Live
<1> QED
  BY <1>1, <1>4, <1>5 DEF Placed

LEMMA TickKeeps ==
  ASSUME NEW p, NEW M, Placed(p, M), Tick PROVE \E N : Placed(p, N)'
<1>1. PICK o \in Ticked(nodes) : /\ Ready(NodesOf(o))
                                 /\ messages' = messages \union waiting \union SentBy(o)
  BY DEF Tick
<1>2. UNCHANGED <<links, requests>>
  BY DEF Tick
<1> DEFINE N == M \union SentBy(o)
<1>3. /\ DOMAIN NodesOf(o) = Live
      /\ \A n \in Live : FittingNode(NodesOf(o)[n], p, Pending)
      /\ \A x \in SentBy(o) : FittingMessage(x, p, Pending)
  <2>1. \A n \in DOMAIN nodes : FittingNode(nodes[n], p, Pending)
    BY DEF Placed, Live
  <2> QED
    BY <2>1, TickedFits DEF Live
<1>4. /\ nodes' = NodesOf(o) /\ waiting' = {} /\ Live' = Live
      /\ \A n \in Node : Fits(stored'[n], p, Pending)
  BY <1>1, <1>3, ReadyFits DEF Placed
<1>5. Pending' = Pending
  BY <1>2 DEF Pending
<1>6. links \in [Link -> Seq(N)]
  BY MoreMessages DEF Placed
<1>7. \A m \in N : FittingMessage(m, p, Pending)
  BY <1>3 DEF Placed
<1>8. messages' \subseteq N
  BY <1>1 DEF Placed
<1> HIDE DEF N
<1>9. Placed(p, N)'
  BY <1>2, <1>3, <1>4, <1>5, <1>6, <1>7, <1>8 DEF Placed
<1> QED
  BY <1>9

LEMMA ReceiveKeeps ==
  ASSUME NEW p, NEW M, Placed(p, M), ReceiveRequest PROVE \E q, N : Placed(q, N)'
<1>1. PICK r \in Proposed(Head(requests)) :
        nodes' = r.node /\ waiting' = waiting \union r.out
  BY DEF ReceiveRequest
<1>2. /\ requests # <<>> /\ requests' = Remaining
      /\ UNCHANGED <<stored, messages, links>>
  BY DEF ReceiveRequest, messageVars
<1>3. PICK q \in [Nat -> Nat] :
        /\ requests' \in Seq(Nat \ {0})
        /\ \A i, j \in DOMAIN requests' : requests'[i] = requests'[j] => i = j
        /\ DOMAIN r.node = Live
        /\ \A n \in Live : FittingNode(r.node[n], q, Pending')
        /\ \A n \in Node : Fits(stored[n], q, Pending')
        /\ \A m \in M : FittingMessage(m, q, Pending')
        /\ \E n \in Node \union {0} : FittingOut(n, r.out, q, Pending')
  BY <1>2, ProposedFits
<1> DEFINE N == M \union r.out
<1>4. \A m \in N : FittingMessage(m, q, Pending')
  BY <1>3 DEF FittingOut
<1>5. links \in [Link -> Seq(N)]
  BY MoreMessages DEF Placed
<1>6. waiting' \subseteq N /\ messages' \subseteq N
  BY <1>1, <1>2 DEF Placed
<1>7. Live' = Live
  BY <1>1, <1>3 DEF Live
<1> HIDE DEF N
<1>8. Placed(q, N)'
  BY <1>1, <1>2, <1>3, <1>4, <1>5, <1>6, <1>7 DEF Placed
<1> QED
  BY <1>8

LEMMA deliverKeeps ==
  ASSUME NEW p, NEW M, Placed(p, M), shown = messages, NEW e \in shown, deliverMessage(e)
  PROVE  \E N : Placed(p, N)'
<1>0. PICK r : r = Delivered(e)
  OBVIOUS
<1>1. /\ Ready(r.node)
      /\ messages' = (messages \ {e}) \union waiting \union r.out
      /\ UNCHANGED <<links, requests>>
  BY <1>0 DEF deliverMessage
<1>2. /\ DOMAIN r.node = Live
      /\ \A n \in Live : FittingNode(r.node[n], p, Pending)
      /\ FittingOut(e.to, r.out, p, Pending)
  <2>1. e \in M
    BY DEF Placed
  <2> QED
    BY <1>0, <2>1, DeliveredFits
<1> DEFINE N == M \union r.out
<1>3. /\ nodes' = r.node /\ waiting' = {} /\ Live' = Live
      /\ \A n \in Node : Fits(stored'[n], p, Pending)
  BY <1>1, <1>2, ReadyFits DEF Placed
<1>4. Pending' = Pending
  BY <1>1 DEF Pending
<1>5. \A x \in N : FittingMessage(x, p, Pending)
  BY <1>2 DEF FittingOut, Placed
<1>6. links \in [Link -> Seq(N)]
  BY MoreMessages DEF Placed
<1>7. messages' \subseteq N
  BY <1>1 DEF Placed
<1> HIDE DEF N
<1>8. Placed(p, N)'
  BY <1>1, <1>2, <1>3, <1>4, <1>5, <1>6, <1>7 DEF Placed
<1> QED
  BY <1>8

\* After a delivery or a proposal the nodes of the links are ticked.
LEMMA LinkReadyFits ==
  ASSUME NEW p, NEW M, NEW r, NEW q, NEW k, NEW R,
         \A l \in Link : q[l] \in Seq(M),
         DOMAIN r.node \subseteq Node, \A n \in DOMAIN r.node : FittingNode(r.node[n], p, R),
         \A n \in Node : Fits(stored[n], p, R),
         \A m \in M : FittingMessage(m, p, R), messages \subseteq M,
         FittingOut(k, r.out, p, R), LinkReady(r, q)
  PROVE  \E N : /\ Live' \subseteq Node
                /\ \A n \in Live' : FittingNode(nodes'[n], p, R)
                /\ \A n \in Node : Fits(stored'[n], p, R)
                /\ \A m \in N : FittingMessage(m, p, R)
                /\ waiting' \subseteq N /\ messages' \subseteq N
                /\ links' \in [Link -> Seq(N)]
<1>1. PICK o \in Ticked(r.node) : Ready(NodesOf(o)) /\ links' = Added(q, r.out, SentBy(o))
  BY DEF LinkReady
<1>2. messages' = messages
  BY DEF LinkReady
<1>3. /\ DOMAIN NodesOf(o) = DOMAIN r.node
      /\ \A n \in DOMAIN r.node : FittingNode(NodesOf(o)[n], p, R)
      /\ \A x \in SentBy(o) : FittingMessage(x, p, R)
      /\ OnePerLink(SentBy(o))
  <2> DEFINE ns == r.node
  <2>1. (\A n \in DOMAIN ns : FittingNode(ns[n], p, R)) /\ o \in Ticked(ns)
    BY <1>1
  <2> HIDE DEF ns
  <2>2. /\ DOMAIN NodesOf(o) = DOMAIN ns
        /\ \A n \in DOMAIN ns : FittingNode(NodesOf(o)[n], p, R)
        /\ \A x \in SentBy(o) : FittingMessage(x, p, R)
        /\ \A x, y \in SentBy(o) : x.from = y.from /\ x.to = y.to => x = y
    BY <2>1, TickedFits
  <2> QED
    BY <2>2 DEF OnePerLink, ns
<1>4. /\ nodes' = NodesOf(o) /\ waiting' = {} /\ Live' = DOMAIN r.node
      /\ \A n \in Node : Fits(stored'[n], p, R)
  BY <1>1, <1>3, ReadyFits
<1> DEFINE N == M \union r.out \union SentBy(o)
<1>5. OnePerLink(r.out) /\ \A x \in r.out : FittingMessage(x, p, R)
  BY DEF FittingOut, OnePerLink
<1>6. \A m \in N : FittingMessage(m, p, R)
  BY <1>3, <1>5
<1>7. \A l \in Link : q[l] \in Seq(N)
  BY SeqMonotonic
<1>8. r.out \subseteq N /\ SentBy(o) \subseteq N /\ messages' \subseteq N
  BY <1>2
<1> HIDE DEF N
<1>9. links' \in [Link -> Seq(N)]
  BY <1>1, <1>3, <1>5, <1>7, <1>8, AddedFits
<1>10. waiting' \subseteq N
  BY <1>4
<1> QED
  BY <1>3, <1>4, <1>6, <1>8, <1>9, <1>10

LEMMA LinkDeliverKeeps ==
  ASSUME NEW p, NEW M, Placed(p, M), NEW l \in Link, LinkDeliver(l) PROVE \E N : Placed(p, N)'
<1> DEFINE m == Head(links[l])
           r == Delivered(m)
           q == [links EXCEPT ![l] = Tail(@)]
<1>1. LinkReady(r, q) /\ links[l] # <<>> /\ requests' = requests
  BY DEF LinkDeliver
<1>2. links \in [Link -> Seq(M)]
  BY DEF Placed
<1>3. m \in M /\ Tail(links[l]) \in Seq(M)
  BY <1>1, <1>2, HeadTailProperties
<1>4. \A k \in Link : q[k] \in Seq(M)
  BY <1>2, <1>3
<1>5. /\ DOMAIN r.node = Live
      /\ \A n \in Live : FittingNode(r.node[n], p, Pending)
      /\ FittingOut(m.to, r.out, p, Pending)
  BY <1>3, DeliveredFits
<1> DEFINE to == m.to
<1> HIDE DEF r, q, m, to
<1>6. PICK N : /\ Live' \subseteq Node
               /\ \A n \in Live' : FittingNode(nodes'[n], p, Pending)
               /\ \A n \in Node : Fits(stored'[n], p, Pending)
               /\ \A x \in N : FittingMessage(x, p, Pending)
               /\ waiting' \subseteq N /\ messages' \subseteq N
               /\ links' \in [Link -> Seq(N)]
  <2>1. /\ Live \subseteq Node /\ messages \subseteq M
        /\ \A n \in Node : Fits(stored[n], p, Pending)
        /\ \A x \in M : FittingMessage(x, p, Pending)
    BY DEF Placed
  <2>2. /\ DOMAIN r.node \subseteq Node
        /\ \A n \in DOMAIN r.node : FittingNode(r.node[n], p, Pending)
    BY <1>5, <2>1
  <2>3. FittingOut(to, r.out, p, Pending)
    BY <1>5 DEF to
  <2> QED
    BY <1>1, <1>4, <2>1, <2>2, <2>3, LinkReadyFits
<1>7. Pending' = Pending
  BY <1>1 DEF Pending
<1>8. Placed(p, N)'
  BY <1>1, <1>6, <1>7 DEF Placed
<1> QED
  BY <1>8

LEMMA LinkProposeKeeps ==
  ASSUME NEW p, NEW M, Placed(p, M), LinkPropose PROVE \E q, N : Placed(q, N)'
<1>1. PICK r \in Proposed(Head(requests)) : LinkReady(r, links)
  BY DEF LinkPropose
<1>2. requests # <<>> /\ requests' = Remaining
  BY DEF LinkPropose
<1>3. PICK q \in [Nat -> Nat] :
        /\ requests' \in Seq(Nat \ {0})
        /\ \A i, j \in DOMAIN requests' : requests'[i] = requests'[j] => i = j
        /\ DOMAIN r.node = Live
        /\ \A n \in Live : FittingNode(r.node[n], q, Pending')
        /\ \A n \in Node : Fits(stored[n], q, Pending')
        /\ \A m \in M : FittingMessage(m, q, Pending')
        /\ \E n \in Node \union {0} : FittingOut(n, r.out, q, Pending')
  BY <1>2, ProposedFits
<1>4. PICK k \in Node \union {0} : FittingOut(k, r.out, q, Pending')
  BY <1>3
<1>5. \A l \in Link : links[l] \in Seq(M)
  BY DEF Placed
<1>6. PICK N : /\ Live' \subseteq Node
               /\ \A n \in Live' : FittingNode(nodes'[n], q, Pending')
               /\ \A n \in Node : Fits(stored'[n], q, Pending')
               /\ \A x \in N : FittingMessage(x, q, Pending')
               /\ waiting' \subseteq N /\ messages' \subseteq N
               /\ links' \in [Link -> Seq(N)]
  <2> DEFINE R == Pending'
  <2>1. /\ DOMAIN r.node \subseteq Node
        /\ \A n \in DOMAIN r.node : FittingNode(r.node[n], q, R)
        /\ \A n \in Node : Fits(stored[n], q, R)
        /\ \A m \in M : FittingMessage(m, q, R)
        /\ FittingOut(k, r.out, q, R)
        /\ messages \subseteq M
    BY <1>3, <1>4 DEF Placed
  <2> HIDE DEF R
  <2>2. \E N : /\ Live' \subseteq Node
               /\ \A n \in Live' : FittingNode(nodes'[n], q, R)
               /\ \A n \in Node : Fits(stored'[n], q, R)
               /\ \A x \in N : FittingMessage(x, q, R)
               /\ waiting' \subseteq N /\ messages' \subseteq N
               /\ links' \in [Link -> Seq(N)]
    BY <1>1, <1>5, <2>1, LinkReadyFits
  <2> QED
    BY <2>2 DEF R
<1>7. Placed(q, N)'
  BY <1>3, <1>6 DEF Placed
<1> QED
  BY <1>7

-----------------------------------------------------------------------------
\* What is shown is what is in transit.
LEMMA ShownKeeps == ASSUME shown = messages, Next PROVE shown' = messages'
<1> USE DEF messageVars
<1>1. CASE Reset
  BY <1>1 DEF Reset
<1>2. CASE Tick
  BY <1>2 DEF Tick
<1>3. CASE ReceiveRequest
  BY <1>3 DEF ReceiveRequest
<1>4. CASE LinkPropose
  BY <1>4 DEF LinkPropose, LinkReady
<1>5. CASE \E n \in Node : Start(n) \/ Stop(n)
  BY <1>5 DEF Start, Stop
<1>6. CASE \E m \in shown : deliverMessage(m)
  BY <1>6 DEF deliverMessage
<1>7. CASE \E m \in shown : dropMessage(m)
  BY <1>7 DEF dropMessage, WithoutDropped
<1>8. CASE \E l \in Link : LinkDeliver(l)
  BY <1>8 DEF LinkDeliver, LinkReady
<1>9. CASE \E l \in Link : LinkDrop(l)
  BY <1>9 DEF LinkDrop
<1> QED
  BY <1>1, <1>2, <1>3, <1>4, <1>5, <1>6, <1>7, <1>8, <1>9 DEF Next

LEMMA NextIInv == IInv /\ [Next]_vars => IInv'
<1> SUFFICES ASSUME IInv, [Next]_vars PROVE IInv'
  OBVIOUS
<1>1. PICK p, M : Placed(p, M)
  BY DEF IInv
<1>2. CASE UNCHANGED vars
  <2>1. UNCHANGED <<nodes, stored, waiting, messages, links, shown, requests>>
    BY <1>2 DEF vars, nodeVars, messageVars
  <2>2. Pending' = Pending /\ Live' = Live
    BY <2>1 DEF Pending, Live
  <2>3. Placed(p, M)'
    BY <1>1, <2>1, <2>2 DEF Placed
  <2> QED
    BY <2>1, <2>3 DEF IInv
<1>3. CASE Next
  <2>1. shown' = messages'
    BY <1>3, ShownKeeps DEF IInv
  <2>2. \E q, N : Placed(q, N)'
    <3>1. CASE Reset
      BY <3>1, ResetKeeps DEF IInv
    <3>2. CASE Tick
      BY <1>1, <3>2, TickKeeps
    <3>3. CASE ReceiveRequest
      BY <1>1, <3>3, ReceiveKeeps
    <3>4. CASE LinkPropose
      BY <1>1, <3>4, LinkProposeKeeps
    <3>5. CASE \E n \in Node : Start(n) \/ Stop(n)
      BY <1>1, <3>5, StartKeeps, StopKeeps
    <3>6. CASE \E m \in shown : deliverMessage(m)
      BY <1>1, <3>6, deliverKeeps DEF IInv
    <3>7. CASE \E m \in shown : dropMessage(m)
      BY <1>1, <3>7, dropKeeps
    <3>8. CASE \E l \in Link : LinkDeliver(l)
      BY <1>1, <3>8, LinkDeliverKeeps
    <3>9. CASE \E l \in Link : LinkDrop(l)
      BY <1>1, <3>9, LinkDropKeeps
    <3> QED
      BY <1>3, <3>1, <3>2, <3>3, <3>4, <3>5, <3>6, <3>7, <3>8, <3>9 DEF Next
  <2> QED
    BY <2>1, <2>2 DEF IInv
<1> QED
  BY <1>2, <1>3

-----------------------------------------------------------------------------
(* Types *)

LEMMA MaxOfTwo ==
  ASSUME NEW a \in Nat, NEW b \in Nat
  PROVE  /\ Max({a, b}) = IF a >= b THEN a ELSE b
         /\ Min({a, b}) = IF a <= b THEN a ELSE b
<1>1. CASE a >= b
  <2>1. \A y \in {a, b} : a >= y /\ b <= y
    BY <1>1
  <2>2. \A x \in {a, b} : (\A y \in {a, b} : x >= y) => x = a
    BY <1>1
  <2>3. \A x \in {a, b} : (\A y \in {a, b} : x <= y) => x = b
    BY <1>1
  <2> QED
    BY <1>1, <2>1, <2>2, <2>3 DEF Max, Min
<1>2. CASE ~(a >= b)
  <2>1. \A y \in {a, b} : b >= y /\ a <= y
    BY <1>2
  <2>2. \A x \in {a, b} : (\A y \in {a, b} : x >= y) => x = b
    BY <1>2
  <2>3. \A x \in {a, b} : (\A y \in {a, b} : x <= y) => x = a
    BY <1>2
  <2> QED
    BY <1>2, <2>1, <2>2, <2>3 DEF Max, Min
<1> QED
  BY <1>1, <1>2

LEMMA MaxIsGreatest ==
  ASSUME NEW n \in Nat, NEW S \in SUBSET (0..n), S # {}
  PROVE  Max(S) \in S /\ \A y \in S : Max(S) >= y
<1> DEFINE T == {n - x : x \in S}
<1>1. T \in SUBSET Nat /\ T # {}
  <2>1. \A x \in S : x \in Nat /\ x <= n /\ n - x \in Nat
    OBVIOUS
  <2> QED
    BY <2>1
<1>2. Min(T) \in T /\ \A u \in T : Min(T) <= u
  <2> HIDE DEF T
  <2> QED
    BY <1>1, MinIsLeast
<1>3. PICK x \in S : Min(T) = n - x
  BY <1>2
<1>4. ASSUME NEW y \in S PROVE x >= y
  <2>1. Min(T) <= n - y
    BY <1>2
  <2>2. x \in Nat /\ y \in Nat
    OBVIOUS
  <2> HIDE DEF T
  <2> QED
    BY <1>3, <2>1, <2>2
<1> HIDE DEF T
<1>5. \E z \in S : \A y \in S : z >= y
  BY <1>4
<1> QED
  BY <1>5 DEF Max

Zero == [n \in Node |-> 0]
Logs == [term : 1..MaxTerm, data : 0..Len(Requests)]

LEMMA LogIs == Log = Seq(Logs) /\ Len(Requests) \in Nat
<1> DEFINE k == IF mode = "link" THEN 1 ELSE NumRequests
<1>1. k \in Nat
  BY EnvAssumption
<1>2. Requests = [i \in 1..k |-> i]
  BY DEF Requests
<1> HIDE DEF k
<1> QED
  BY <1>1, <1>2 DEF Log, Logs

Typed(s) == s \in NodeState /\ FitsRole(s)

LEMMA NodeStateIs ==
  ASSUME NEW s \in NodeState
  PROVE  /\ DOMAIN s = {"term", "vote", "role", "granted", "log", "commit", "match", "voter"}
         /\ s.term \in 0..MaxTerm /\ s.term \in Nat /\ s.vote \in 0..NumNodes
         /\ s.role \in {"follower", "candidate", "leader"}
         /\ s.granted \in SUBSET Node /\ s.log \in Log /\ s.commit \in Nat
         /\ s.match \in [Node -> Nat] /\ s.voter \in BOOLEAN
         /\ MaxTerm \in Nat \ {0} /\ NumNodes \in Nat \ {0} /\ Node = 1..NumNodes
  BY NodeAssumption DEF NodeState, Node

\* What node n sends: at most one message to another.
TypedOut(n, out) ==
  out \subseteq Message /\ \A x, y \in out : x.from = n /\ (x.to = y.to => x = y)

LEMMA FollowerTyped ==
  ASSUME NEW s, Typed(s), NEW t \in 0..MaxTerm
  PROVE  /\ Typed(Follower(s, t)) /\ Follower(s, t).term = t /\ Follower(s, t).role = "follower"
         /\ Follower(s, t).vote = 0 /\ Follower(s, t).log = s.log /\ Follower(s, t).commit = s.commit
<1> DEFINE f == [s EXCEPT !.term = t, !.vote = 0, !.role = "follower", !.granted = {}, !.match = Zero]
<1>1. Follower(s, t) = f
  BY DEF Follower, Zero
<1>2. f \in NodeState
  <2>1. 0 \in 0..NumNodes /\ Zero \in [Node -> Nat]
    BY NodeAssumption DEF Zero
  <2> QED
    BY <2>1 DEF NodeState, Typed
<1>3. /\ f.term = t /\ f.role = "follower" /\ f.granted = {} /\ f.match = Zero /\ f.vote = 0
      /\ f.log = s.log /\ f.commit = s.commit
  BY NodeStateIs DEF Typed
<1> HIDE DEF f
<1> QED
  BY <1>1, <1>2, <1>3 DEF Typed, FitsRole, Zero

LEMMA MessageFields ==
  ASSUME NEW m \in Message
  PROVE  /\ m.type \in {"Vote", "VoteResp", "App", "AppResp"}
         /\ m.from \in Node /\ m.to \in Node /\ m.term \in 1..MaxTerm
         /\ m.type = "Vote" => m.last \in 0..MaxTerm /\ m.index \in Nat
         /\ m.type = "App" => m.log \in Log /\ m.commit \in Nat
         /\ m.type = "AppResp" => m.index \in Nat
  BY DEF Message

LEMMA AppendsTyped ==
  ASSUME NEW n \in Node, NEW s \in NodeState, s.term # 0
  PROVE  TypedOut(n, Appends(n, s))
<1>1. s.term \in 1..MaxTerm /\ s.log \in Log /\ s.commit \in Nat
  BY NodeAssumption, NodeStateIs
<1>2. ASSUME NEW x \in Appends(n, s)
      PROVE  /\ x \in Message /\ x.from = n
             /\ x = [type |-> "App", from |-> n, to |-> x.to, term |-> s.term, log |-> s.log,
                     commit |-> s.commit]
  <2>1. PICK q \in Node \ {n} : x = [type |-> "App", from |-> n, to |-> q, term |-> s.term,
                                     log |-> s.log, commit |-> s.commit]
    BY DEF Appends
  <2>2. x.from = n /\ x.to = q
    BY <2>1
  <2>3. x \in [type : {"App"}, from : Node, to : Node, term : 1..MaxTerm, log : Log, commit : Nat]
    BY <1>1, <2>1
  <2> QED
    BY <2>1, <2>2, <2>3 DEF Message
<1>3. \A x, y \in Appends(n, s) : x.to = y.to => x = y
  BY <1>2
<1> QED
  BY <1>2, <1>3 DEF TypedOut

LEMMA AppendEntryTyped ==
  ASSUME NEW n \in Node, NEW s \in NodeState, s.role = "leader", s.term # 0, s.vote # 0,
         NEW d \in 0..Len(Requests)
  PROVE  /\ Typed(AppendEntry(n, s, d).node)
         /\ TypedOut(n, AppendEntry(n, s, d).out)
<1> DEFINE log == Append(s.log, Entry(s.term, d))
           led == [s EXCEPT !.log = log, !.match[n] = Len(log)]
<1>1. log \in Log /\ Len(log) \in Nat
  <2>1. s.term \in 1..MaxTerm
    BY NodeAssumption, NodeStateIs
  <2>2. Entry(s.term, d) \in Logs
    BY <2>1 DEF Entry, Logs
  <2>3. s.log \in Seq(Logs)
    BY LogIs, NodeStateIs
  <2> QED
    BY <2>2, <2>3, LogIs, AppendProperties, LenProperties
<1> HIDE DEF log
<1>2. led \in NodeState
  <2>1. [s.match EXCEPT ![n] = Len(log)] \in [Node -> Nat]
    BY <1>1, NodeStateIs
  <2> QED
    BY <1>1, <2>1 DEF NodeState
<1>3. AppendEntry(n, s, d) = [node |-> led, out |-> Appends(n, led)]
  BY DEF AppendEntry, Outcome, log
<1>4. led.term = s.term /\ led.role = "leader" /\ led.vote = s.vote /\ s.vote \in Node /\ s.term > 0
  BY NodeStateIs
<1> HIDE DEF led
<1> QED
  BY <1>2, <1>3, <1>4, AppendsTyped DEF Typed, FitsRole

LEMMA CommitIs ==
  ASSUME NEW s \in NodeState
  PROVE  LET k == Max({s.commit} \union Committable(s)) IN
           /\ k \in Nat /\ k >= s.commit
           /\ k = s.commit \/ k \in Committable(s)
<1> DEFINE S == {s.commit} \union Committable(s)
           b == IF s.commit >= Len(s.log) THEN s.commit ELSE Len(s.log)
<1>1. s.log \in Seq(Logs) /\ s.commit \in Nat
  BY NodeStateIs, LogIs
<1>2. Len(s.log) \in Nat /\ Committable(s) \subseteq 1..Len(s.log)
  <2>1. Len(s.log) \in Nat /\ DOMAIN s.log = 1..Len(s.log)
    BY <1>1, LenProperties
  <2>2. Committable(s) \subseteq DOMAIN s.log
    BY DEF Committable
  <2> QED
    BY <2>1, <2>2
<1>3. b \in Nat /\ S \in SUBSET (0..b) /\ S # {} /\ s.commit \in S
  <2>1. b \in Nat /\ s.commit <= b /\ Len(s.log) <= b
    BY <1>1, <1>2
  <2> HIDE DEF b
  <2>2. Committable(s) \subseteq 0..b
    BY <1>2, <2>1
  <2>3. s.commit \in 0..b
    BY <1>1, <2>1
  <2> QED
    BY <2>1, <2>2, <2>3
<1> HIDE DEF S, b
<1>4. Max(S) \in S /\ Max(S) >= s.commit
  BY <1>3, MaxIsGreatest
<1>5. Max(S) \in Nat
  <2>1. Max(S) \in 0..b
    BY <1>3, <1>4
  <2> QED
    BY <1>3, <2>1
<1> QED
  BY <1>4, <1>5 DEF S

\* What a node answers and what it is then.
LEMMA HandledTyped ==
  ASSUME NEW n \in Node, NEW s, Typed(s), NEW m \in Message, s.term = m.term
  PROVE  /\ Typed(Handled(n, s, m).node)
         /\ TypedOut(n, Handled(n, s, m).out)
<1> DEFINE Fine(r) == Typed(r.node) /\ TypedOut(n, r.out)
<1>0. Fine(Ignored(s))
  BY DEF Ignored, Outcome, TypedOut
<1>a. /\ s \in NodeState /\ s.term \in 1..MaxTerm /\ s.term > 0 /\ m.from \in Node
      /\ m.from \in 0..NumNodes /\ m.from # 0
      /\ s.role = "follower" => s.granted = {}
      /\ s.role # "follower" => s.vote \in Node
      /\ s.role # "leader" => s.match = Zero
  BY MessageFields, NodeAssumption DEF Typed, FitsRole, Zero, Node
<1>1. CASE m.type = "Vote"
  <2>1. Handled(n, s, m) = HandleVote(n, s, m)
    BY <1>1 DEF Handled
  <2> DEFINE v == [s EXCEPT !.vote = m.from]
             x == [type |-> "VoteResp", from |-> n, to |-> m.from, term |-> s.term]
  <2>2. v \in NodeState
    BY <1>a DEF NodeState
  <2>3. /\ v.role = s.role /\ v.granted = s.granted /\ v.match = s.match /\ v.term = s.term
        /\ v.vote = m.from
    BY <1>a, NodeStateIs
  <2>4. x \in Message /\ x.from = n
    BY <1>a DEF Message
  <2>5. HandleVote(n, s, m) \in {Ignored(s), [node |-> v, out |-> {x}]}
    BY DEF HandleVote, Outcome
  <2> HIDE DEF v, x
  <2>6. Fine([node |-> v, out |-> {x}])
    BY <1>a, <2>2, <2>3, <2>4 DEF Typed, FitsRole, Zero, TypedOut
  <2> QED
    BY <1>0, <2>1, <2>5, <2>6
<1>2. CASE m.type = "VoteResp"
  <2>1. Handled(n, s, m) = HandleVoteResp(n, s, m)
    BY <1>2 DEF Handled
  <2> DEFINE c == [s EXCEPT !.granted = @ \union {m.from}]
             l == [c EXCEPT !.role = "leader"]
  <2>2. c \in NodeState
    BY <1>a, NodeStateIs DEF NodeState
  <2>3. /\ c.role = s.role /\ c.match = s.match /\ c.term = s.term /\ c.vote = s.vote
    BY <1>a, NodeStateIs
  <2>4. HandleVoteResp(n, s, m) \in {Ignored(s), AppendEntry(n, l, 0), Ignored(c)}
    BY DEF HandleVoteResp
  <2>5. s.role # "candidate" => HandleVoteResp(n, s, m) = Ignored(s)
    BY DEF HandleVoteResp
  <2> HIDE DEF c
  <2>6. /\ l \in NodeState /\ l.role = "leader" /\ l.term = s.term /\ l.vote = s.vote
    <3>1. l \in NodeState
      BY <2>2 DEF NodeState
    <3> QED
      BY <2>2, <2>3, <3>1, NodeStateIs
  <2> HIDE DEF l
  <2>7. CASE s.role = "candidate"
    <3>1. l.vote # 0 /\ l.term # 0 /\ 0 \in 0..Len(Requests)
      <4>1. l.vote \in Node /\ l.term > 0
        BY <1>a, <2>6, <2>7
      <4>2. 0 \in 0..Len(Requests)
        BY LogIs
      <4>3. 0 \notin Node
        BY DEF Node
      <4> QED
        BY <4>1, <4>2, <4>3
    <3>2. Fine(AppendEntry(n, l, 0))
      BY <2>6, <3>1, AppendEntryTyped
    <3>3. Fine(Ignored(c))
      BY <1>a, <2>2, <2>3, <2>7 DEF Ignored, Outcome, TypedOut, Typed, FitsRole, Zero
    <3> QED
      BY <1>0, <2>1, <2>4, <3>2, <3>3
  <2> QED
    BY <1>0, <2>1, <2>5, <2>7
<1>3. CASE m.type = "App"
  <2>1. Handled(n, s, m) = HandleApp(n, s, m)
    BY <1>3 DEF Handled
  <2> DEFINE c == Max({s.commit, Min({m.commit, Len(m.log)})})
             log == Merged(s.log, m.log)
             f == [s EXCEPT !.role = "follower", !.vote = IF @ = 0 THEN m.from ELSE @,
                            !.granted = {}, !.log = log, !.commit = c]
             x == [type |-> "AppResp", from |-> n, to |-> m.from, term |-> s.term,
                   index |-> Len(m.log)]
  <2>2. m.log \in Seq(Logs) /\ s.log \in Seq(Logs) /\ Len(m.log) \in Nat /\ m.commit \in Nat /\ s.commit \in Nat
    BY <1>a, <1>3, LogIs, NodeStateIs, MessageFields, LenProperties
  <2>3. log \in Log
    BY <2>2, MergedIs, LogIs
  <2>4. c \in Nat
    <3>1. Min({m.commit, Len(m.log)}) \in Nat
      BY <2>2, MaxOfTwo
    <3> QED
      BY <2>2, <3>1, MaxOfTwo
  <2>5. HandleApp(n, s, m) \in {Ignored(s), [node |-> f, out |-> {x}]}
    BY DEF HandleApp, Outcome
  <2>6. s.role = "leader" => HandleApp(n, s, m) = Ignored(s)
    BY DEF HandleApp
  <2> HIDE DEF c, log
  <2>7. f \in NodeState
    BY <1>a, <2>3, <2>4 DEF NodeState
  <2>8. f.role = "follower" /\ f.granted = {} /\ f.match = s.match
    BY <1>a, NodeStateIs
  <2>9. x \in Message /\ x.from = n
    BY <1>a, <2>2 DEF Message
  <2> HIDE DEF f, x
  <2>10. CASE s.role # "leader"
    <3>1. Fine([node |-> f, out |-> {x}])
      BY <1>a, <2>7, <2>8, <2>9, <2>10 DEF Typed, FitsRole, Zero, TypedOut
    <3> QED
      BY <1>0, <2>1, <2>5, <3>1
  <2> QED
    BY <1>0, <2>1, <2>6, <2>10
<1>4. CASE m.type = "AppResp"
  <2>1. Handled(n, s, m) = HandleAppResp(n, s, m)
    BY <1>4 DEF Handled
  <2> DEFINE i == Max({s.match[m.from], m.index})
             l == [s EXCEPT !.match[m.from] = i]
             k == Max({l.commit} \union Committable(l))
             c == [l EXCEPT !.commit = k]
             out == IF c.commit > s.commit THEN Appends(n, c) ELSE {}
  <2>2. HandleAppResp(n, s, m) = IF s.role # "leader" THEN Ignored(s) ELSE [node |-> c, out |-> out]
    BY DEF HandleAppResp, Outcome
  <2>3. i \in Nat
    <3>1. s.match[m.from] \in Nat /\ m.index \in Nat
      BY <1>a, <1>4, NodeStateIs, MessageFields
    <3> QED
      BY <3>1, MaxOfTwo
  <2> HIDE DEF i
  <2>4. l \in NodeState /\ l.role = s.role /\ l.term = s.term /\ l.vote = s.vote
    <3>1. l \in NodeState
      BY <1>a, <2>3 DEF NodeState
    <3> QED
      BY <1>a, <3>1, NodeStateIs
  <2> HIDE DEF l
  <2>5. k \in Nat
    BY <2>4, CommitIs
  <2> HIDE DEF k
  <2>6. c \in NodeState /\ c.role = s.role /\ c.term = s.term /\ c.vote = s.vote
    <3>1. c \in NodeState
      BY <2>4, <2>5 DEF NodeState
    <3> QED
      BY <2>4, <3>1, NodeStateIs
  <2> HIDE DEF c
  <2>7. CASE s.role = "leader"
    <3>1. Typed(c)
      BY <1>a, <2>6, <2>7 DEF Typed, FitsRole
    <3>2. TypedOut(n, out)
      <4>1. TypedOut(n, Appends(n, c))
        BY <1>a, <2>6, AppendsTyped
      <4> QED
        BY <4>1 DEF TypedOut
    <3> HIDE DEF out
    <3>3. Fine([node |-> c, out |-> out])
      BY <3>1, <3>2
    <3> QED
      BY <2>1, <2>2, <2>7, <3>3
  <2> QED
    BY <1>0, <2>1, <2>2, <2>7
<1> QED
  BY <1>1, <1>2, <1>3, <1>4, MessageFields

LEMMA StepNodeTyped ==
  ASSUME NEW n \in Node, NEW s, Typed(s), NEW m \in Message
  PROVE  /\ Typed(StepNode(n, s, m).node)
         /\ TypedOut(n, StepNode(n, s, m).out)
<1>0. s.term \in Nat /\ m.term \in 0..MaxTerm /\ m.term \in Nat
  BY NodeStateIs, MessageFields, NodeAssumption DEF Typed
<1>1. CASE m.term < s.term
  <2>1. StepNode(n, s, m) = [node |-> s, out |-> {}]
    BY <1>1 DEF StepNode, Ignored, Outcome
  <2> QED
    BY <2>1 DEF TypedOut
<1>2. CASE ~(m.term < s.term)
  <2> DEFINE t == IF m.term > s.term THEN Follower(s, m.term) ELSE s
  <2>1. Typed(t) /\ t.term = m.term
    BY <1>0, <1>2, FollowerTyped
  <2>2. StepNode(n, s, m) = Handled(n, t, m)
    BY <1>2 DEF StepNode
  <2> HIDE DEF t
  <2> QED
    BY <2>1, <2>2, HandledTyped
<1> QED
  BY <1>1, <1>2

LEMMA ActTyped ==
  ASSUME NEW n \in Node, NEW s, Typed(s), MayAct(n, s)
  PROVE  /\ Typed(Act(n, s).node)
         /\ TypedOut(n, Act(n, s).out)
<1>0. s \in NodeState
  BY DEF Typed
<1>1. CASE s.role = "leader"
  <2>1. Act(n, s) = [node |-> s, out |-> Appends(n, s)]
    BY <1>1 DEF Act, Outcome
  <2>2. s.term # 0
    BY <1>0, <1>1, NodeStateIs DEF Typed, FitsRole
  <2> QED
    BY <1>0, <2>1, <2>2, AppendsTyped
<1>2. CASE s.role # "leader"
  <2> DEFINE t == s.term + 1
             f == Follower(s, t)
             c == [f EXCEPT !.vote = n, !.role = "candidate", !.granted = {n}]
             out == {[type |-> "Vote", from |-> n, to |-> q, term |-> c.term,
                      last |-> LastTerm(c.log), index |-> Len(c.log)] : q \in Node \ {n}}
  <2>1. Act(n, s) = [node |-> c, out |-> out]
    BY <1>2 DEF Act, Campaign, Outcome
  <2>2. s.term < MaxTerm
    BY <1>2 DEF MayAct
  <2>3. t \in 0..MaxTerm /\ t > 0 /\ t \in 1..MaxTerm
    BY <1>0, <2>2, NodeStateIs
  <2> HIDE DEF t
  <2>4. Typed(f) /\ f.term = t /\ f.role = "follower"
    BY <2>3, FollowerTyped
  <2> HIDE DEF f
  <2>5. c \in NodeState
    <3>1. n \in 0..NumNodes /\ {n} \in SUBSET Node
      BY DEF Node
    <3> QED
      BY <2>4, <3>1 DEF NodeState, Typed
  <2>6. c.role = "candidate" /\ c.term = t /\ c.vote = n /\ c.match = Zero
    BY <2>4, NodeStateIs DEF Typed, FitsRole, Zero
  <2> HIDE DEF c
  <2>7. Typed(c)
    BY <2>3, <2>5, <2>6 DEF Typed, FitsRole, Zero
  <2>8. c.log \in Seq(Logs) /\ Len(c.log) \in Nat /\ LastTerm(c.log) \in 0..MaxTerm
    <3>1. c.log \in Seq(Logs) /\ Len(c.log) \in Nat
      BY <2>5, NodeStateIs, LogIs, LenProperties
    <3>2. CASE c.log = <<>>
      BY <3>2, NodeAssumption DEF LastTerm
    <3>3. CASE c.log # <<>>
      <4>1. c.log[Len(c.log)] \in Logs
        <5>1. Len(c.log) \in 1..Len(c.log)
          BY <3>1, <3>3, EmptySeq
        <5> QED
          BY <3>1, <5>1, ElementOfSeq
      <4>2. c.log[Len(c.log)].term \in 1..MaxTerm
        BY <4>1 DEF Logs
      <4>3. LastTerm(c.log) = c.log[Len(c.log)].term
        BY <3>3 DEF LastTerm
      <4> QED
        BY <3>1, <4>2, <4>3, NodeAssumption
    <3> QED
      BY <3>1, <3>2, <3>3
  <2> DEFINE last == LastTerm(c.log)
             len == Len(c.log)
  <2>9. TypedOut(n, out)
    <3>1. ASSUME NEW x \in out
          PROVE  /\ x \in Message /\ x.from = n
                 /\ x = [type |-> "Vote", from |-> n, to |-> x.to, term |-> t, last |-> last, index |-> len]
      <4>1. PICK q \in Node \ {n} : x = [type |-> "Vote", from |-> n, to |-> q, term |-> c.term,
                                         last |-> last, index |-> len]
        OBVIOUS
      <4> HIDE DEF last, len
      <4>2. x.from = n /\ x.to = q
        BY <4>1
      <4>3. len \in Nat /\ last \in 0..MaxTerm
        BY <2>8 DEF len, last
      <4>4. x \in [type : {"Vote"}, from : Node, to : Node, term : 1..MaxTerm, last : 0..MaxTerm, index : Nat]
        <5>1. x = [type |-> "Vote", from |-> n, to |-> q, term |-> t, last |-> last, index |-> len]
          BY <2>6, <4>1
        <5>2. n \in Node /\ q \in Node /\ t \in 1..MaxTerm
          BY <2>3
        <5> QED
          BY ONLY <4>3, <5>1, <5>2
      <4>5. x \in Message
        BY <4>4 DEF Message
      <4> QED
        BY <2>6, <4>1, <4>2, <4>5
    <3> HIDE DEF out
    <3>2. \A x, y \in out : x.to = y.to => x = y
      BY <3>1
    <3> QED
      BY <3>1, <3>2 DEF TypedOut
  <2> HIDE DEF out
  <2> QED
    BY <2>1, <2>7, <2>9
<1> QED
  BY <1>1, <1>2

LEMMA SameTypes ==
  ASSUME mode' = mode
  PROVE  /\ Requests' = Requests /\ Log' = Log /\ Message' = Message /\ NodeState' = NodeState
<1>1. Requests' = Requests
  BY DEF Requests
<1>2. Log' = Log
  BY <1>1 DEF Log
<1>3. Message' = Message /\ NodeState' = NodeState
  BY <1>2 DEF Message, NodeState
<1> QED
  BY <1>1, <1>2, <1>3

TypedNodes(ns) == DOMAIN ns \subseteq Node /\ \A n \in DOMAIN ns : Typed(ns[n])

LEMMA NextIsTyped ==
  ASSUME mode' = mode, mode \in Modes, TypedNodes(nodes'),
         stored' \in [Node -> Log], snapshot' \in [Node -> Nat],
         waiting' \subseteq Message, messages' \subseteq Message, shown' \subseteq Message,
         links' \in [Link -> Seq(Message)], requests' \in Seq(1..Len(Requests)),
         ticks' \in 0..(SnapshotFrequency - 1), drops' \in BOOLEAN,
         stops' \in 0..MaxStops, restarted' \subseteq Node
  PROVE  TypeOK'
<1>1. /\ Requests' = Requests /\ Log' = Log /\ Message' = Message /\ NodeState' = NodeState
  BY SameTypes
<1>2. DOMAIN nodes' \subseteq Node /\ \A n \in DOMAIN nodes' : nodes'[n] \in NodeState /\ FitsRole(nodes'[n])
  BY DEF TypedNodes, Typed
<1>3. \A n \in DOMAIN nodes' : nodes'[n] \in NodeState' /\ FitsRole(nodes'[n])
  BY <1>1, <1>2
<1>4. Live' = DOMAIN nodes'
  BY DEF Live
<1>5. Live' \subseteq Node /\ \A n \in Live' : nodes'[n] \in NodeState' /\ FitsRole(nodes[n])'
  BY <1>2, <1>3, <1>4 DEF FitsRole
<1>6. /\ stored' \in [Node -> Log'] /\ waiting' \subseteq Message' /\ messages' \subseteq Message'
      /\ shown' \subseteq Message' /\ links' \in [Link -> Seq(Message')]
      /\ requests' \in Seq(1..Len(Requests'))
  BY <1>1
<1> QED
  BY <1>5, <1>6 DEF TypeOK

LEMMA ReadyTyped ==
  ASSUME NEW ns, TypedNodes(ns), stored \in [Node -> Log], Ready(ns)
  PROVE  nodes' = ns /\ waiting' = {} /\ Live' = DOMAIN ns /\ stored' \in [Node -> Log]
<1>1. ASSUME NEW n \in Node PROVE Appended(ns)[n] \in Log
  BY NodeStateIs DEF Appended, TypedNodes, Typed
<1>2. Appended(ns) \in [Node -> Log]
  BY <1>1 DEF Appended
<1> QED
  BY <1>2 DEF Ready, Live

\* What the ticks make of one node.
LEMMA TickedOne ==
  ASSUME NEW ns, NEW o \in Ticked(ns)
  PROVE  /\ DOMAIN o = DOMAIN ns
         /\ \A n \in DOMAIN ns : \/ MayAct(n, ns[n]) /\ o[n] = Act(n, ns[n])
                                 \/ o[n] = [node |-> ns[n], out |-> {}]
<1>1. PICK S \in SUBSET {n \in DOMAIN ns : MayAct(n, ns[n])} :
        o = [n \in DOMAIN ns |-> IF n \in S THEN Act(n, ns[n]) ELSE Ignored(ns[n])]
  BY DEF Ticked
<1> QED
  BY <1>1 DEF Ignored, Outcome

LEMMA TickedTyped ==
  ASSUME NEW ns, TypedNodes(ns), NEW o \in Ticked(ns)
  PROVE  /\ TypedNodes(NodesOf(o)) /\ DOMAIN NodesOf(o) = DOMAIN ns
         /\ SentBy(o) \subseteq Message /\ OnePerLink(SentBy(o))
<1>1. ASSUME NEW n \in DOMAIN ns PROVE Typed(o[n].node) /\ TypedOut(n, o[n].out)
  <2>1. CASE MayAct(n, ns[n]) /\ o[n] = Act(n, ns[n])
    BY <2>1, ActTyped DEF TypedNodes
  <2>2. CASE o[n] = [node |-> ns[n], out |-> {}]
    BY <2>2 DEF TypedNodes, TypedOut
  <2> QED
    BY <2>1, <2>2, TickedOne
<1>2. DOMAIN o = DOMAIN ns
  BY TickedOne
<1>3. ASSUME NEW x \in SentBy(o) PROVE x \in Message /\ x.from \in DOMAIN ns /\ x \in o[x.from].out
  <2>1. PICK n \in DOMAIN ns : x \in o[n].out
    BY <1>2 DEF SentBy
  <2> QED
    BY <1>1, <2>1 DEF TypedOut
<1>4. ASSUME NEW x \in SentBy(o), NEW y \in SentBy(o), x.from = y.from, x.to = y.to PROVE x = y
  <2>1. TypedOut(x.from, o[x.from].out) /\ y \in o[x.from].out /\ x \in o[x.from].out
    BY <1>1, <1>3, <1>4
  <2> QED
    BY <1>4, <2>1 DEF TypedOut
<1> QED
  BY <1>1, <1>2, <1>3, <1>4 DEF TypedNodes, NodesOf, OnePerLink

\* A delivery is the step of one node, or nothing happens.
LEMMA DeliveredTyped ==
  ASSUME TypedNodes(nodes), NEW m \in Message
  PROVE  LET r == Delivered(m) IN
           /\ TypedNodes(r.node) /\ DOMAIN r.node = Live
           /\ r.out \subseteq Message /\ OnePerLink(r.out)
<1>1. CASE m.to \notin Live
  <2>1. Delivered(m) = [node |-> nodes, out |-> {}]
    BY <1>1 DEF Delivered, Outcome
  <2> QED
    BY <2>1 DEF Live, OnePerLink
<1>2. CASE m.to \in Live
  <2> DEFINE n == m.to
             a == StepNode(n, nodes[n], m)
             ns == [nodes EXCEPT ![n] = a.node]
  <2>1. Typed(a.node) /\ TypedOut(n, a.out)
    BY <1>2, StepNodeTyped DEF TypedNodes, Live
  <2>2. Delivered(m) = [node |-> ns, out |-> a.out]
    BY <1>2 DEF Delivered, Outcome
  <2> HIDE DEF n, a
  <2>3. DOMAIN ns = Live /\ TypedNodes(ns)
    BY <2>1 DEF TypedNodes, Live
  <2> HIDE DEF ns
  <2>4. a.out \subseteq Message /\ OnePerLink(a.out)
    BY <2>1 DEF TypedOut, OnePerLink
  <2> QED
    BY <2>2, <2>3, <2>4
<1> QED
  BY <1>1, <1>2

LEMMA ProposedTyped ==
  ASSUME TypedNodes(nodes), NEW d \in 0..Len(Requests), NEW r \in Proposed(d)
  PROVE  /\ TypedNodes(r.node) /\ DOMAIN r.node = Live
         /\ r.out \subseteq Message /\ OnePerLink(r.out)
<1>1. CASE Leaders = {}
  <2>1. r = [node |-> nodes, out |-> {}]
    BY <1>1 DEF Proposed, Outcome
  <2> QED
    BY <2>1 DEF Live, OnePerLink
<1>2. CASE Leaders # {}
  <2>1. PICK n \in Leaders : r = [node |-> [nodes EXCEPT ![n] = AppendEntry(n, nodes[n], d).node],
                                  out |-> AppendEntry(n, nodes[n], d).out]
    BY <1>2 DEF Proposed, Outcome
  <2> DEFINE a == AppendEntry(n, nodes[n], d)
             ns == [nodes EXCEPT ![n] = a.node]
  <2>2. Typed(a.node) /\ TypedOut(n, a.out)
    <3>1. /\ n \in Node /\ nodes[n] \in NodeState /\ nodes[n].role = "leader"
          /\ nodes[n].term # 0 /\ nodes[n].vote # 0
      BY NodeStateIs DEF TypedNodes, Leaders, Live, Typed, FitsRole
    <3> QED
      BY <3>1, AppendEntryTyped
  <2> HIDE DEF a
  <2>3. DOMAIN ns = Live /\ TypedNodes(ns)
    BY <2>2 DEF TypedNodes, Live
  <2>4. r = [node |-> ns, out |-> a.out]
    BY <2>1 DEF a
  <2> HIDE DEF ns
  <2>5. a.out \subseteq Message /\ OnePerLink(a.out)
    BY <2>2 DEF TypedOut, OnePerLink
  <2> QED
    BY <2>3, <2>4, <2>5
<1> QED
  BY <1>1, <1>2

LEMMA InitTypes ==
  ASSUME mode \in Modes
  PROVE  /\ TypedNodes(Made) /\ [n \in Node |-> <<>>] \in [Node -> Log]
         /\ [n \in Node |-> 0] \in [Node -> Nat]
         /\ [l \in Link |-> <<>>] \in [Link -> Seq(Message)]
         /\ Requests \in Seq(1..Len(Requests)) /\ 0 \in 0..(SnapshotFrequency - 1)
<1>1. Typed(Bootstrapped)
  <2> DEFINE c == <<Configuration>>
             b == FromStorage(c, TRUE)
             s == [b EXCEPT !.term = 1, !.commit = 1]
  <2>1. c \in Log
    <3>1. Configuration \in Logs
      BY NodeAssumption, LogIs DEF Configuration, Entry, Logs
    <3> QED
      BY <3>1, LogIs
  <2> HIDE DEF c
  <2>2. b \in NodeState /\ b.role = "follower" /\ b.granted = {} /\ b.match = Zero
    <3>1. Zero \in [Node -> Nat]
      BY DEF Zero
    <3>2. b = [term |-> 0, vote |-> 0, role |-> "follower", granted |-> {}, log |-> c,
               commit |-> 0, match |-> Zero, voter |-> TRUE]
      BY DEF FromStorage, Zero
    <3> HIDE DEF b
    <3> QED
      BY <2>1, <3>1, <3>2, NodeAssumption DEF NodeState
  <2> HIDE DEF b
  <2>3. s \in NodeState
    <3>1. 1 \in 0..MaxTerm /\ 1 \in Nat
      BY NodeAssumption
    <3> QED
      BY <2>2, <3>1 DEF NodeState
  <2>4. s.role = "follower" /\ s.granted = {} /\ s.match = Zero
    BY <2>2, NodeStateIs
  <2> HIDE DEF s
  <2>5. Bootstrapped = s
    BY DEF Bootstrapped, s, b, c
  <2> QED
    BY <2>3, <2>4, <2>5 DEF Typed, FitsRole, Zero
<1>2. <<>> \in Log /\ \A S : <<>> \in Seq(S)
  BY LogIs, EmptySeq
<1>3. Requests \in Seq(1..Len(Requests))
  <2> DEFINE k == IF mode = "link" THEN 1 ELSE NumRequests
  <2>1. k \in Nat /\ Requests = [i \in 1..k |-> i]
    BY EnvAssumption DEF Requests
  <2> HIDE DEF k
  <2>2. Len(Requests) = k
    BY <2>1
  <2> QED
    BY <2>1, <2>2
<1>4. TypedNodes(Made)
  BY <1>1 DEF TypedNodes, Made
<1>5. [n \in Node |-> <<>>] \in [Node -> Log]
  BY <1>2
<1> QED
  BY <1>2, <1>3, <1>4, <1>5, EnvAssumption

LEMMA InitTypeOK == Init => TypeOK
<1> SUFFICES ASSUME Init PROVE TypeOK
  OBVIOUS
<1>1. Live = DOMAIN Made /\ nodes = Made /\ mode \in Modes
  BY DEF Live, Init
<1>2. Live \subseteq Node /\ \A n \in Live : Typed(nodes[n])
  BY <1>1, InitTypes DEF TypedNodes
<1> QED
  BY <1>1, <1>2, InitTypes, EnvAssumption DEF TypeOK, Init, Typed

LEMMA TypeOKIs ==
  TypeOK <=> /\ mode \in Modes /\ TypedNodes(nodes)
             /\ stored \in [Node -> Log] /\ snapshot \in [Node -> Nat]
             /\ waiting \subseteq Message /\ messages \subseteq Message
             /\ shown \subseteq Message
             /\ links \in [Link -> Seq(Message)]
             /\ requests \in Seq(1..Len(Requests))
             /\ ticks \in 0..(SnapshotFrequency - 1) /\ drops \in BOOLEAN
             /\ stops \in 0..MaxStops /\ restarted \subseteq Node
  BY DEF TypeOK, TypedNodes, Typed, Live

LEMMA ResetTypes == ASSUME TypeOK, Reset PROVE TypeOK'
<1>1. mode' = mode
  BY DEF Reset
<1>2. nodes' = Made /\ mode \in Modes
  BY DEF Reset, TypeOK
<1>4. TypedNodes(nodes')
  BY <1>1, <1>2, InitTypes
<1> QED
  BY <1>1, <1>2, <1>4, InitTypes, NextIsTyped, EnvAssumption DEF Reset

\* What a Ready of every node after a delivery or a proposal leaves.
LEMMA LinkReadyTyped ==
  ASSUME TypeOK, NEW r, TypedNodes(r.node), r.out \subseteq Message, OnePerLink(r.out),
         NEW q, \A l \in Link : q[l] \in Seq(Message), LinkReady(r, q),
         requests' \in Seq(1..Len(Requests))
  PROVE  TypeOK'
<1>1. PICK o \in Ticked(r.node) : Ready(NodesOf(o)) /\ links' = Added(q, r.out, SentBy(o))
  BY DEF LinkReady
<1>2. drops' = TRUE /\ UNCHANGED <<mode, snapshot, messages, shown, ticks, stops, restarted>>
  BY DEF LinkReady
<1>3. /\ TypedNodes(NodesOf(o)) /\ SentBy(o) \subseteq Message /\ OnePerLink(SentBy(o))
  BY <1>1, TickedTyped
<1>4. nodes' = NodesOf(o) /\ waiting' = {} /\ stored' \in [Node -> Log]
  BY <1>1, <1>3, ReadyTyped DEF TypeOK
<1>5. links' \in [Link -> Seq(Message)]
  BY <1>1, <1>3, AddedFits
<1>6. TypedNodes(nodes')
  BY <1>2, <1>3, <1>4
<1> QED
  BY <1>2, <1>4, <1>5, <1>6, TypeOKIs, NextIsTyped

LEMMA FirstTyped ==
  ASSUME TypeOK, requests # <<>>
  PROVE  /\ Head(requests) \in 0..Len(Requests) /\ Tail(requests) \in Seq(1..Len(Requests))
         /\ Remaining \in Seq(1..Len(Requests))
<1>1. requests \in Seq(1..Len(Requests))
  BY DEF TypeOK
<1>2. Head(requests) \in 1..Len(Requests) /\ Tail(requests) \in Seq(1..Len(Requests))
  BY <1>1, HeadTailProperties
<1>3. Head(requests) \in 0..Len(Requests)
  BY <1>2, LogIs
<1>4. Remaining \in {requests, Tail(requests)}
  BY DEF Remaining
<1> QED
  BY <1>1, <1>2, <1>3, <1>4

LEMMA NextTypeOK == TypeOK /\ [Next]_vars => TypeOK'
<1> SUFFICES ASSUME TypeOK, [Next]_vars PROVE TypeOK'
  OBVIOUS
<1>0. /\ mode \in Modes /\ TypedNodes(nodes)
      /\ stored \in [Node -> Log] /\ snapshot \in [Node -> Nat]
      /\ waiting \subseteq Message /\ messages \subseteq Message
      /\ shown \subseteq Message
      /\ links \in [Link -> Seq(Message)]
      /\ requests \in Seq(1..Len(Requests))
      /\ ticks \in 0..(SnapshotFrequency - 1) /\ drops \in BOOLEAN
      /\ stops \in 0..MaxStops /\ restarted \subseteq Node
  BY TypeOKIs
<1>a. 0 \in 0..(SnapshotFrequency - 1)
  BY EnvAssumption
<1>1. CASE Reset
  BY <1>1, ResetTypes
<1>2. CASE Tick
  <2>1. PICK o \in Ticked(nodes) : /\ Ready(NodesOf(o))
                                   /\ messages' = messages \union waiting \union SentBy(o)
    BY <1>2 DEF Tick
  <2>2. /\ shown' = messages' /\ ticks' = (ticks + 1) % SnapshotFrequency
        /\ snapshot' = [n \in Node |-> IF ticks' = 0 /\ n \in Live
                                       THEN SnapshotOf(nodes'[n], snapshot[n]) ELSE snapshot[n]]
        /\ UNCHANGED <<mode, links, requests, drops, stops, restarted>>
    BY <1>2 DEF Tick
  <2>3. TypedNodes(NodesOf(o)) /\ DOMAIN NodesOf(o) = DOMAIN nodes /\ SentBy(o) \subseteq Message
    BY <1>0, <2>1, TickedTyped
  <2>4. nodes' = NodesOf(o) /\ waiting' = {} /\ stored' \in [Node -> Log]
    BY <1>0, <2>1, <2>3, ReadyTyped
  <2>5. messages' \subseteq Message
    BY <1>0, <2>1, <2>3
  <2>6. ticks' \in 0..(SnapshotFrequency - 1)
    BY <1>0, <2>2, EnvAssumption
  <2>7. ASSUME NEW n \in Live PROVE SnapshotOf(nodes'[n], snapshot[n]) \in Nat
    <3> DEFINE c == nodes'[n].commit
    <3>1. c \in Nat /\ snapshot[n] \in Nat
      BY <1>0, <2>3, <2>4, NodeStateIs DEF TypedNodes, Typed, Live
    <3> HIDE DEF c
    <3>2. SnapshotOf(nodes'[n], snapshot[n]) = IF c > 3 THEN Max({snapshot[n], c - 1}) ELSE snapshot[n]
      BY DEF SnapshotOf, c
    <3>3. CASE c > 3
      <4>1. c - 1 \in Nat
        BY <3>1, <3>3
      <4>2. Max({snapshot[n], c - 1}) \in Nat
        BY <3>1, <4>1, MaxOfTwo
      <4> QED
        BY <3>2, <3>3, <4>2
    <3> QED
      BY <3>1, <3>2, <3>3
  <2>8. snapshot' \in [Node -> Nat]
    BY <1>0, <2>2, <2>7
  <2>9. TypedNodes(nodes')
    BY <2>2, <2>3, <2>4
  <2> QED
    BY <1>0, <2>2, <2>4, <2>5, <2>6, <2>8, <2>9, NextIsTyped
<1>3. CASE ReceiveRequest
  <2>1. PICK r \in Proposed(Head(requests)) : nodes' = r.node /\ waiting' = waiting \union r.out
    BY <1>3 DEF ReceiveRequest
  <2>2. /\ requests # <<>> /\ requests' = Remaining /\ ticks' = 0
        /\ UNCHANGED <<mode, stored, snapshot, messageVars, drops, stops, restarted>>
    BY <1>3 DEF ReceiveRequest
  <2>3. TypedNodes(r.node) /\ r.out \subseteq Message
    BY <1>0, <2>1, <2>2, FirstTyped, ProposedTyped
  <2>4. TypedNodes(nodes')
    BY <2>1, <2>2, <2>3
  <2>5. requests' \in Seq(1..Len(Requests)) /\ waiting' \subseteq Message
    BY <1>0, <2>1, <2>2, <2>3, FirstTyped
  <2> QED
    BY <1>0, <1>a, <2>2, <2>4, <2>5, NextIsTyped DEF messageVars
<1>4. CASE LinkPropose
  <2>1. PICK r \in Proposed(Head(requests)) : LinkReady(r, links)
    BY <1>4 DEF LinkPropose
  <2>2. requests # <<>> /\ requests' = Remaining
    BY <1>4 DEF LinkPropose
  <2>3. TypedNodes(r.node) /\ r.out \subseteq Message /\ OnePerLink(r.out)
    BY <1>0, <2>1, <2>2, FirstTyped, ProposedTyped
  <2> QED
    BY <1>0, <2>1, <2>2, <2>3, FirstTyped, LinkReadyTyped
<1>5. CASE \E n \in Node : Start(n) \/ Stop(n)
  <2>1. PICK n \in Node : Start(n) \/ Stop(n)
    BY <1>5
  <2>2. CASE Start(n)
    <3>1. /\ nodes' = [q \in Live \union {n} |-> IF q = n THEN NewNode(n) ELSE nodes[q]]
          /\ restarted' = restarted \union {n}
          /\ UNCHANGED <<mode, stored, snapshot, waiting, messageVars, requests, ticks, drops, stops>>
      BY <2>2 DEF Start
    <3> DEFINE new == NewNode(n)
    <3>2. Typed(new)
      <4>1. Typed(Bootstrapped)
        BY <1>0, InitTypes, NodeAssumption DEF TypedNodes, Made, Node
      <4>2. ASSUME NEW v \in BOOLEAN PROVE Typed(FromStorage(stored[n], v))
        <5>1. Zero \in [Node -> Nat] /\ stored[n] \in Log
          BY <1>0 DEF Zero
        <5> DEFINE b == FromStorage(stored[n], v)
        <5>2. b = [term |-> 0, vote |-> 0, role |-> "follower", granted |-> {}, log |-> stored[n],
                   commit |-> 0, match |-> Zero, voter |-> v]
          BY DEF FromStorage, Zero
        <5> HIDE DEF b
        <5>3. b \in NodeState /\ b.role = "follower" /\ b.granted = {} /\ b.match = Zero
          BY <5>1, <5>2, NodeAssumption DEF NodeState
        <5>4. Typed(b)
          BY <5>3 DEF Typed, FitsRole, Zero
        <5> QED
          BY <5>4 DEF b
      <4> QED
        <5>1. NewNode(n) \in {Bootstrapped, FromStorage(stored[n], snapshot[n] > 0)}
          BY DEF NewNode
        <5>2. (snapshot[n] > 0) \in BOOLEAN
          OBVIOUS
        <5>3. Typed(FromStorage(stored[n], snapshot[n] > 0))
          BY <4>2, <5>2
        <5> QED
          BY <4>1, <5>1, <5>3
    <3> HIDE DEF new
    <3>3. nodes' = [q \in Live \union {n} |-> IF q = n THEN new ELSE nodes[q]]
      BY <3>1 DEF new
    <3>4. DOMAIN nodes' \subseteq Node /\ \A q \in DOMAIN nodes' : Typed(nodes'[q])
      BY <1>0, <3>2, <3>3 DEF TypedNodes, Live
    <3>5. TypedNodes(nodes')
      BY <3>1, <3>4 DEF TypedNodes
    <3> QED
      BY <1>0, <3>1, <3>5, NextIsTyped DEF messageVars
  <2>3. CASE Stop(n)
    <3>1. /\ nodes' = [q \in Live \ {n} |-> nodes[q]] /\ waiting' \subseteq waiting
          /\ stops < MaxStops /\ stops' = stops + 1
          /\ UNCHANGED <<mode, stored, snapshot, messageVars, requests, ticks, drops, restarted>>
      BY <2>3 DEF Stop
    <3>2. TypedNodes(nodes')
      <4> DEFINE ns == [q \in Live \ {n} |-> nodes[q]]
      <4>1. TypedNodes(ns)
        BY <1>0 DEF TypedNodes, Live
      <4> HIDE DEF ns
      <4>2. nodes' = ns
        BY <3>1 DEF ns
      <4> QED
        BY <3>1, <4>1, <4>2
    <3>3. stops' \in 0..MaxStops
      BY <1>0, <3>1, EnvAssumption
    <3> QED
      BY <1>0, <3>1, <3>2, <3>3, NextIsTyped DEF messageVars
  <2> QED
    BY <2>1, <2>2, <2>3
<1>6. CASE \E m \in shown : deliverMessage(m)
  <2>1. PICK m \in shown : deliverMessage(m)
    BY <1>6
  <2>2. PICK r : r = Delivered(m)
    OBVIOUS
  <2>3. /\ Ready(r.node) /\ messages' = (messages \ {m}) \union waiting \union r.out
        /\ shown' = messages' /\ ticks' = 0
        /\ UNCHANGED <<mode, snapshot, links, requests, drops, stops, restarted>>
    BY <2>1, <2>2 DEF deliverMessage
  <2>4. TypedNodes(r.node) /\ r.out \subseteq Message
    BY <1>0, <2>1, <2>2, DeliveredTyped
  <2>5. nodes' = r.node /\ waiting' = {} /\ stored' \in [Node -> Log]
    BY <1>0, <2>3, <2>4, ReadyTyped
  <2>6. TypedNodes(nodes') /\ messages' \subseteq Message
    BY <1>0, <2>3, <2>4, <2>5
  <2> QED
    BY <1>0, <1>a, <2>3, <2>5, <2>6, NextIsTyped
<1>7. CASE \E m \in shown : dropMessage(m)
  <2>1. /\ messages' \subseteq messages /\ shown' \subseteq shown /\ ticks' = 0
        /\ UNCHANGED <<mode, nodeVars, links, requests, drops, stops, restarted>>
    BY <1>7 DEF dropMessage, WithoutDropped
  <2>2. TypedNodes(nodes')
    BY <1>0, <2>1 DEF nodeVars
  <2> QED
    BY <1>0, <1>a, <2>1, <2>2, NextIsTyped DEF nodeVars
<1>8. CASE \E l \in Link : LinkDeliver(l)
  <2>1. PICK l \in Link : LinkDeliver(l)
    BY <1>8
  <2> DEFINE m == Head(links[l])
             q == [links EXCEPT ![l] = Tail(@)]
  <2>2. links[l] # <<>> /\ LinkReady(Delivered(m), q) /\ requests' = requests
    BY <2>1 DEF LinkDeliver
  <2>3. m \in Message /\ Tail(links[l]) \in Seq(Message)
    BY <1>0, <2>2, HeadTailProperties
  <2>4. \A k \in Link : q[k] \in Seq(Message)
    BY <1>0, <2>3
  <2> HIDE DEF m, q
  <2>5. PICK r : r = Delivered(m)
    OBVIOUS
  <2>6. TypedNodes(r.node) /\ r.out \subseteq Message /\ OnePerLink(r.out)
    BY <1>0, <2>3, <2>5, DeliveredTyped
  <2> QED
    BY <1>0, <2>2, <2>4, <2>5, <2>6, LinkReadyTyped
<1>9. CASE \E l \in Link : LinkDrop(l)
  <2>1. PICK l \in Link : LinkDrop(l)
    BY <1>9
  <2>2. /\ links[l] # <<>> /\ links' = [links EXCEPT ![l] = Tail(@)] /\ drops' = FALSE
        /\ UNCHANGED <<mode, nodeVars, messages, shown, requests, ticks, stops, restarted>>
    BY <2>1 DEF LinkDrop
  <2>3. Tail(links[l]) \in Seq(Message)
    BY <1>0, <2>2, HeadTailProperties
  <2>4. links' \in [Link -> Seq(Message)]
    BY <1>0, <2>2, <2>3
  <2>5. TypedNodes(nodes')
    BY <1>0, <2>2 DEF nodeVars
  <2> QED
    BY <1>0, <2>2, <2>4, <2>5, NextIsTyped DEF nodeVars
<1>10. CASE UNCHANGED vars
  <2>1. TypedNodes(nodes')
    BY <1>0, <1>10 DEF vars, nodeVars
  <2> QED
    BY <1>0, <1>10, <2>1, NextIsTyped DEF vars, nodeVars, messageVars
<1> QED
  BY <1>1, <1>2, <1>3, <1>4, <1>5, <1>6, <1>7, <1>8, <1>9, <1>10 DEF Next

-----------------------------------------------------------------------------
(* What raft promises *)

\* The logs agree on the first i entries.
Same(a, b, i) == i <= Len(a) /\ i <= Len(b) /\ \A j \in 1..i : a[j] = b[j]

Support(V, t, c) == {q \in Node : V[q][t] = c}
Holders(A, t, i) == {q \in Node : A[q][t] >= i}

\* Node q has been in term t, or is stopped; and has left it.
Reached(ns, q, t) == q \in DOMAIN ns => ns[q].term >= t
Gone(ns, q, t) == q \in DOMAIN ns => ns[q].term > t

\* Each entry of the log is preceded by what the leader of its term had.
Sound(L, log) == \A j \in 1..Len(log) : Same(log, L[log[j].term], j)

\* The leader of term t made the entry i itself; it is on a majority; it never
\* will be; log has it unless it never will be.
Own(L, t, i) == i \in 1..Len(L[t]) /\ L[t][i].term = t
Chosen(L, A, t, i) == Own(L, t, i) /\ IsMajority(Holders(A, t, i))
Lost(A, ns, t, i) == IsMajority({q \in Node : A[q][t] < i /\ Gone(ns, q, t)})
Kept(L, A, ns, log, t, i) == Same(log, L[t], i) \/ Lost(A, ns, t, i)

Committed(L, A, log, c, T) ==
  /\ c <= Len(log)
  /\ \E t \in 1..T : \E i \in 1..Len(L[t]) :
       c <= i /\ Chosen(L, A, t, i) /\ Same(log, L[t], c)

History(L, V, A) ==
  /\ L \in [Nat -> Seq(Logged)] /\ V \in [Node -> [Nat -> Nat]] /\ A \in [Node -> [Nat -> Nat]]

LeaderLogs(L) ==
  \A t \in Nat : /\ Sound(L, L[t])
                 /\ \A j \in 1..Len(L[t]) : L[t][j].term \in 1..t
                 /\ L[t] # <<>> => L[t][Len(L[t])].term = t

Elected(L, V, ns) ==
  \A t \in Nat : t >= 2 /\ L[t] # <<>> =>
    \E c \in Node : /\ IsMajority(Support(V, t, c))
                    /\ c \in DOMAIN ns /\ ns[c].term = t => ns[c].role = "leader"

Votes(V, ns) ==
  \A q \in Node : \A t \in Nat : V[q][t] # 0 =>
    V[q][t] \in Node /\ Reached(ns, q, t) /\ Reached(ns, V[q][t], t)

Accepted(L, A, ns) ==
  \A q \in Node : \A t \in Nat :
    A[q][t] <= Len(L[t]) /\ (A[q][t] # 0 => Reached(ns, q, t))

LaterLeaders(L, A, ns) ==
  \A u \in Nat : L[u] # <<>> =>
    \A t \in Nat : t < u => \A i \in Nat : Own(L, t, i) => Kept(L, A, ns, L[u], t, i)

\* What node q accepted in terms before T is in the log.
Covers(L, A, ns, log, q, T) ==
  \A t \in Nat : t < T => \A i \in Nat : i <= A[q][t] /\ Own(L, t, i) => Kept(L, A, ns, log, t, i)

SafeFollower(L, V, A, ns, n) ==
  LET s == ns[n] IN
    /\ s.term >= 1 /\ Sound(L, s.log) /\ \A j \in 1..Len(s.log) : s.log[j].term \in 1..s.term
    /\ V[n][s.term] \in {0, s.vote}
    /\ Same(s.log, L[s.term], A[n][s.term])
    /\ Covers(L, A, ns, s.log, n, s.term)
    /\ \A t \in Nat : t <= s.term => Len(s.log) >= A[n][t] \/ LastTerm(s.log) > t
    /\ Committed(L, A, s.log, s.commit, s.term)

SafeCandidate(L, V, A, ns, n) ==
  LET s == ns[n] IN
    /\ V[n][s.term] = n /\ s.granted \subseteq Support(V, s.term, n) /\ s.term >= 2
    /\ \A q \in Support(V, s.term, n) : Covers(L, A, ns, s.log, q, s.term)

SafeLeader(L, V, A, ns, n) ==
  LET s == ns[n] IN
    /\ s.term >= 2 /\ IsMajority(Support(V, s.term, n)) /\ V[n][s.term] = n
    /\ s.log = L[s.term] /\ s.log # <<>>
    /\ \A q \in Node : s.match[q] <= A[q][s.term]

SafeNode(L, V, A, ns, n) ==
  /\ SafeFollower(L, V, A, ns, n)
  /\ ns[n].role = "candidate" => SafeCandidate(L, V, A, ns, n)
  /\ ns[n].role = "leader" => SafeLeader(L, V, A, ns, n)

SafeMessage(L, V, A, ns, m) ==
  /\ m.type = "Vote" =>
       /\ Reached(ns, m.from, m.term)
       /\ m.from \in DOMAIN ns /\ ns[m.from].term = m.term /\ ns[m.from].role = "candidate" =>
            m.last = LastTerm(ns[m.from].log) /\ m.index = Len(ns[m.from].log)
  /\ m.type = "VoteResp" => V[m.from][m.term] = m.to
  /\ m.type = "App" => /\ m.log # <<>> /\ Same(m.log, L[m.term], Len(m.log))
                       /\ LastTerm(m.log) = m.term
                       /\ Committed(L, A, m.log, m.commit, m.term)
  /\ m.type = "AppResp" => m.index <= A[m.from][m.term]

Safe(L, V, A, ns, M) ==
  /\ History(L, V, A) /\ LeaderLogs(L) /\ Elected(L, V, ns) /\ Votes(V, ns)
  /\ Accepted(L, A, ns) /\ LaterLeaders(L, A, ns)
  /\ \A n \in DOMAIN ns : SafeNode(L, V, A, ns, n)
  /\ \A m \in M : SafeMessage(L, V, A, ns, m)

-----------------------------------------------------------------------------
(* Majorities and common prefixes *)

LEMMA MajoritiesMeet ==
  ASSUME NEW S \in SUBSET Node, NEW T \in SUBSET Node, IsMajority(S), IsMajority(T)
  PROVE  \E q \in Node : q \in S /\ q \in T
<1>1. IsFiniteSet(Node) /\ Cardinality(Node) = NumNodes /\ NumNodes \in Nat
  BY FS_Interval, NodeAssumption DEF Node
<1>2. Cardinality(S) \in Nat /\ Cardinality(T) \in Nat
  BY <1>1, FS_Subset, FS_CardinalityType
<1>3. 2 * Cardinality(S) > NumNodes /\ 2 * Cardinality(T) > NumNodes
  BY DEF IsMajority
<1>4. Cardinality(S) + Cardinality(T) > Cardinality(Node)
  BY <1>1, <1>2, <1>3
<1>5. S \cap T # {}
  BY <1>1, <1>4, FS_MajoritiesIntersect
<1> QED
  BY <1>5

LEMMA MajorityGrows ==
  ASSUME NEW S, NEW T \in SUBSET Node, S \subseteq T, IsMajority(S)
  PROVE  IsMajority(T)
<1>1. IsFiniteSet(Node) /\ NumNodes \in Nat
  BY FS_Interval, NodeAssumption DEF Node
<1>2. IsFiniteSet(T)
  BY <1>1, FS_Subset
<1>3. Cardinality(S) \in Nat /\ Cardinality(T) \in Nat /\ Cardinality(S) <= Cardinality(T)
  BY <1>2, FS_Subset, FS_CardinalityType
<1> QED
  BY <1>1, <1>3 DEF IsMajority

LEMMA EveryNode == IsMajority(Node) /\ ~IsMajority({})
<1>1. Cardinality(Node) = NumNodes /\ NumNodes \in Nat \ {0}
  BY FS_Interval, NodeAssumption DEF Node
<1>2. Cardinality({}) = 0
  BY FS_EmptySet
<1> QED
  BY <1>1, <1>2 DEF IsMajority

LEMMA SameIs ==
  ASSUME NEW a \in Seq(Logged), NEW b \in Seq(Logged), NEW i \in Nat, Same(a, b, i)
  PROVE  /\ Same(b, a, i) /\ i <= Len(a) /\ i <= Len(b)
         /\ \A j \in Nat : j <= i => Same(a, b, j)
         /\ \A j \in 1..i : a[j] = b[j]
         /\ \A c \in Seq(Logged) : \A j \in Nat : j <= i /\ Same(b, c, j) => Same(a, c, j)
<1>1. Len(a) \in Nat /\ Len(b) \in Nat
  BY LenProperties
<1>2. ASSUME NEW c \in Seq(Logged), NEW j \in Nat, j <= i, Same(b, c, j) PROVE Same(a, c, j)
  BY <1>1, <1>2, LenProperties DEF Same
<1> QED
  BY <1>1, <1>2 DEF Same

LEMMA SameSelf ==
  ASSUME NEW a \in Seq(Logged), NEW i \in Nat, i <= Len(a) PROVE Same(a, a, i)
  BY LenProperties DEF Same

LEMMA EntryOf ==
  ASSUME NEW a \in Seq(Logged)
  PROVE  /\ Len(a) \in Nat /\ DOMAIN a = 1..Len(a)
         /\ \A i \in 1..Len(a) : a[i] \in Logged /\ a[i].term \in Nat /\ a[i].data \in Nat
         /\ (a # <<>>) = (Len(a) > 0)
         /\ a # <<>> => Len(a) \in 1..Len(a) /\ LastTerm(a) = a[Len(a)].term
         /\ a = <<>> => LastTerm(a) = 0
         /\ LastTerm(a) \in Nat
<1>1. /\ Len(a) \in Nat /\ DOMAIN a = 1..Len(a) /\ \A i \in 1..Len(a) : a[i] \in Logged
      /\ (a # <<>>) = (Len(a) > 0)
  BY LenProperties, ElementOfSeq, EmptySeq
<1>2. \A i \in 1..Len(a) : a[i] \in Logged /\ a[i].term \in Nat /\ a[i].data \in Nat
  BY <1>1 DEF Logged
<1>3. a # <<>> => Len(a) \in 1..Len(a) /\ LastTerm(a) = a[Len(a)].term
  BY <1>1 DEF LastTerm
<1>4. a = <<>> => LastTerm(a) = 0
  BY DEF LastTerm
<1> QED
  BY <1>1, <1>2, <1>3, <1>4

LEMMA LogsAreLogged == Log \subseteq Seq(Logged)
<1>1. Logs \subseteq Logged
  <2>1. 1..MaxTerm \subseteq Nat /\ 0..Len(Requests) \subseteq Nat
    BY NodeAssumption, LogIs
  <2> QED
    BY <2>1 DEF Logs, Logged
<1> QED
  BY <1>1, LogIs, SeqMonotonic

\* What the proofs below need of the types of the nodes.
LEMMA NodeFields ==
  ASSUME NEW ns, TypedNodes(ns)
  PROVE  /\ DOMAIN ns \subseteq Node
         /\ \A n \in DOMAIN ns :
              /\ n \in Node /\ ns[n].term \in Nat /\ ns[n].vote \in Nat
              /\ ns[n].role \in {"follower", "candidate", "leader"}
              /\ ns[n].log \in Seq(Logged) /\ ns[n].commit \in Nat
              /\ ns[n].match \in [Node -> Nat] /\ ns[n].granted \subseteq Node
<1>2. Log \subseteq Seq(Logged)
  BY LogsAreLogged
<1>3. ASSUME NEW n \in DOMAIN ns
      PROVE  /\ n \in Node /\ ns[n].term \in Nat /\ ns[n].vote \in Nat
             /\ ns[n].role \in {"follower", "candidate", "leader"}
             /\ ns[n].log \in Seq(Logged) /\ ns[n].commit \in Nat
             /\ ns[n].match \in [Node -> Nat] /\ ns[n].granted \subseteq Node
  <2>1. n \in Node /\ ns[n] \in NodeState
    BY DEF TypedNodes, Typed
  <2>2. 0..NumNodes \subseteq Nat
    BY NodeAssumption
  <2> QED
    BY <1>2, <2>1, <2>2, NodeStateIs
<1> QED
  BY <1>3

-----------------------------------------------------------------------------
(* What lasts *)

\* Leaders only append, votes are kept, nodes accept more in the term they are
\* in, and neither terms nor commits decrease.
Later(L, V, A, ns, L2, V2, A2, ns2) ==
  /\ \A t \in Nat : Same(L2[t], L[t], Len(L[t]))
  /\ \A q \in Node : \A t \in Nat :
       /\ V[q][t] # 0 => V2[q][t] = V[q][t]
       /\ A2[q][t] # A[q][t] => A2[q][t] >= A[q][t] /\ ~Gone(ns, q, t)
  /\ DOMAIN ns2 \subseteq DOMAIN ns
  /\ \A q \in DOMAIN ns2 : ns2[q].term >= ns[q].term /\ ns2[q].commit >= ns[q].commit

Move(L, V, A, ns, L2, V2, A2, ns2) ==
  /\ History(L, V, A) /\ History(L2, V2, A2) /\ TypedNodes(ns) /\ TypedNodes(ns2)
  /\ Later(L, V, A, ns, L2, V2, A2, ns2)

LEMMA HistoryIs ==
  ASSUME NEW L, NEW V, NEW A, History(L, V, A)
  PROVE  /\ \A t \in Nat : L[t] \in Seq(Logged) /\ Len(L[t]) \in Nat
         /\ \A q \in Node : \A t \in Nat : V[q][t] \in Nat /\ A[q][t] \in Nat
<1>1. ASSUME NEW t \in Nat PROVE L[t] \in Seq(Logged) /\ Len(L[t]) \in Nat
  <2>1. L[t] \in Seq(Logged)
    BY DEF History
  <2> QED
    BY <2>1, LenProperties
<1>2. ASSUME NEW q \in Node, NEW t \in Nat PROVE V[q][t] \in Nat /\ A[q][t] \in Nat
  <2>1. V[q] \in [Nat -> Nat] /\ A[q] \in [Nat -> Nat]
    BY DEF History
  <2> QED
    BY <2>1
<1> QED
  BY <1>1, <1>2

LEMMA EntriesStay ==
  ASSUME NEW L, NEW V, NEW A, NEW ns, NEW L2, NEW V2, NEW A2, NEW ns2,
         Move(L, V, A, ns, L2, V2, A2, ns2), NEW t \in Nat
  PROVE  /\ Len(L[t]) <= Len(L2[t])
         /\ \A i \in 1..Len(L[t]) : i \in 1..Len(L2[t]) /\ L2[t][i] = L[t][i]
         /\ \A i \in 1..Len(L[t]) : Own(L2, t, i) <=> Own(L, t, i)
         /\ \A a \in Seq(Logged) : \A i \in Nat : Same(a, L[t], i) => Same(a, L2[t], i)
<1>1. L[t] \in Seq(Logged) /\ L2[t] \in Seq(Logged) /\ Len(L[t]) \in Nat /\ Len(L2[t]) \in Nat
  BY HistoryIs DEF Move
<1>2. Same(L2[t], L[t], Len(L[t]))
  BY DEF Move, Later
<1>3. Len(L[t]) <= Len(L2[t]) /\ \A i \in 1..Len(L[t]) : i \in 1..Len(L2[t]) /\ L2[t][i] = L[t][i]
  BY <1>1, <1>2 DEF Same
<1>4. \A i \in 1..Len(L[t]) : Own(L2, t, i) <=> Own(L, t, i)
  BY <1>3 DEF Own
<1>5. ASSUME NEW a \in Seq(Logged), NEW i \in Nat, Same(a, L[t], i) PROVE Same(a, L2[t], i)
  <2>1. i <= Len(a) /\ i <= Len(L[t]) /\ \A j \in 1..i : a[j] = L[t][j]
    BY <1>5 DEF Same
  <2>2. i <= Len(L2[t])
    BY <1>1, <1>3, <2>1
  <2>3. \A j \in 1..i : a[j] = L2[t][j]
    BY <1>1, <1>3, <2>1
  <2> QED
    BY <2>1, <2>2, <2>3 DEF Same
<1> QED
  BY <1>3, <1>4, <1>5

LEMMA SoundStays ==
  ASSUME NEW L, NEW V, NEW A, NEW ns, NEW L2, NEW V2, NEW A2, NEW ns2,
         Move(L, V, A, ns, L2, V2, A2, ns2), NEW log \in Seq(Logged), Sound(L, log)
  PROVE  Sound(L2, log)
<1>1. ASSUME NEW j \in 1..Len(log) PROVE Same(log, L2[log[j].term], j)
  <2>1. log[j].term \in Nat /\ j \in Nat
    BY EntryOf
  <2>2. Same(log, L[log[j].term], j)
    BY DEF Sound
  <2> QED
    BY <2>1, <2>2, EntriesStay
<1> QED
  BY <1>1 DEF Sound

LEMMA TermsStay ==
  ASSUME NEW L, NEW V, NEW A, NEW ns, NEW L2, NEW V2, NEW A2, NEW ns2,
         Move(L, V, A, ns, L2, V2, A2, ns2), NEW q \in Node, NEW t \in Nat
  PROVE  /\ Reached(ns, q, t) => Reached(ns2, q, t)
         /\ Gone(ns, q, t) => Gone(ns2, q, t) /\ A2[q][t] = A[q][t]
         /\ A2[q][t] >= A[q][t]
<1>1. \A n \in DOMAIN ns2 : n \in DOMAIN ns /\ ns2[n].term >= ns[n].term
  BY DEF Move, Later
<1>2. /\ \A n \in DOMAIN ns : ns[n].term \in Nat
      /\ \A n \in DOMAIN ns2 : ns2[n].term \in Nat
  BY NodeFields DEF Move
<1>3. A[q][t] \in Nat /\ A2[q][t] \in Nat
  BY HistoryIs DEF Move
<1>4. A2[q][t] # A[q][t] => A2[q][t] >= A[q][t] /\ ~Gone(ns, q, t)
  BY DEF Move, Later
<1> QED
  BY <1>1, <1>2, <1>3, <1>4 DEF Reached, Gone

LEMMA LostStays ==
  ASSUME NEW L, NEW V, NEW A, NEW ns, NEW L2, NEW V2, NEW A2, NEW ns2,
         Move(L, V, A, ns, L2, V2, A2, ns2), NEW t \in Nat, NEW i, Lost(A, ns, t, i)
  PROVE  Lost(A2, ns2, t, i)
<1> DEFINE S == {q \in Node : A[q][t] < i /\ Gone(ns, q, t)}
           T == {q \in Node : A2[q][t] < i /\ Gone(ns2, q, t)}
<1>1. S \subseteq T
  BY TermsStay
<1>2. IsMajority(S)
  BY DEF Lost
<1>3. IsMajority(T)
  BY <1>1, <1>2, MajorityGrows
<1> QED
  BY <1>3 DEF Lost

LEMMA KeptStays ==
  ASSUME NEW L, NEW V, NEW A, NEW ns, NEW L2, NEW V2, NEW A2, NEW ns2,
         Move(L, V, A, ns, L2, V2, A2, ns2), NEW t \in Nat, NEW i \in Nat,
         NEW log \in Seq(Logged), Kept(L, A, ns, log, t, i)
  PROVE  Kept(L2, A2, ns2, log, t, i)
  BY LostStays, EntriesStay DEF Kept

LEMMA ChosenStays ==
  ASSUME NEW L, NEW V, NEW A, NEW ns, NEW L2, NEW V2, NEW A2, NEW ns2,
         Move(L, V, A, ns, L2, V2, A2, ns2), NEW t \in Nat, NEW i, Chosen(L, A, t, i)
  PROVE  Chosen(L2, A2, t, i)
<1>1. i \in 1..Len(L[t]) /\ Own(L, t, i) /\ IsMajority(Holders(A, t, i))
  BY DEF Chosen, Own
<1>2. Own(L2, t, i)
  BY <1>1, EntriesStay
<1>3. Holders(A, t, i) \subseteq Holders(A2, t, i)
  <2>1. i \in Nat
    BY <1>1, HistoryIs DEF Move
  <2>2. ASSUME NEW q \in Holders(A, t, i) PROVE q \in Holders(A2, t, i)
    <3>1. q \in Node /\ A[q][t] >= i
      BY DEF Holders
    <3>2. A2[q][t] >= A[q][t] /\ A[q][t] \in Nat /\ A2[q][t] \in Nat
      BY <3>1, TermsStay, HistoryIs DEF Move
    <3> QED
      BY <2>1, <3>1, <3>2 DEF Holders
  <2> QED
    BY <2>2
<1>4. IsMajority(Holders(A2, t, i))
  BY <1>1, <1>3, MajorityGrows DEF Holders
<1> QED
  BY <1>2, <1>4 DEF Chosen

LEMMA CommittedStays ==
  ASSUME NEW L, NEW V, NEW A, NEW ns, NEW L2, NEW V2, NEW A2, NEW ns2,
         Move(L, V, A, ns, L2, V2, A2, ns2), NEW log \in Seq(Logged), NEW c \in Nat,
         NEW T \in Nat, NEW U \in Nat, T <= U, Committed(L, A, log, c, T)
  PROVE  Committed(L2, A2, log, c, U)
<1>0. PICK t \in 1..T : \E i \in 1..Len(L[t]) : c <= i /\ Chosen(L, A, t, i) /\ Same(log, L[t], c)
  BY DEF Committed
<1>1. PICK i \in 1..Len(L[t]) : c <= i /\ Chosen(L, A, t, i) /\ Same(log, L[t], c)
  BY <1>0
<1>2. t \in Nat /\ t \in 1..U
  OBVIOUS
<1>3. i \in 1..Len(L2[t]) /\ Same(log, L2[t], c)
  BY <1>1, <1>2, EntriesStay
<1>4. Chosen(L2, A2, t, i)
  BY <1>1, <1>2, ChosenStays
<1>5. c <= Len(log)
  BY DEF Committed
<1> QED
  BY <1>1, <1>2, <1>3, <1>4, <1>5 DEF Committed

LEMMA SupportStays ==
  ASSUME NEW L, NEW V, NEW A, NEW ns, NEW L2, NEW V2, NEW A2, NEW ns2,
         Move(L, V, A, ns, L2, V2, A2, ns2), NEW t \in Nat, NEW c \in Node
  PROVE  /\ Support(V, t, c) \subseteq Support(V2, t, c)
         /\ IsMajority(Support(V, t, c)) => IsMajority(Support(V2, t, c))
<1>1. c # 0
  BY DEF Node
<1>2. Support(V, t, c) \subseteq Support(V2, t, c)
  BY <1>1 DEF Support, Move, Later
<1>3. IsMajority(Support(V, t, c)) => IsMajority(Support(V2, t, c))
  BY <1>2, MajorityGrows DEF Support
<1> QED
  BY <1>2, <1>3

LEMMA LaterMoves ==
  ASSUME NEW L, NEW V, NEW A, NEW ns, NEW L2, NEW V2, NEW A2, NEW ns2, NEW L3, NEW V3, NEW A3, NEW ns3,
         Move(L, V, A, ns, L2, V2, A2, ns2), Move(L2, V2, A2, ns2, L3, V3, A3, ns3)
  PROVE  Move(L, V, A, ns, L3, V3, A3, ns3)
<1>1. ASSUME NEW t \in Nat PROVE Same(L3[t], L[t], Len(L[t]))
  <2>1. L[t] \in Seq(Logged) /\ L2[t] \in Seq(Logged) /\ L3[t] \in Seq(Logged) /\ Len(L[t]) \in Nat /\ Len(L2[t]) \in Nat
    BY HistoryIs DEF Move
  <2>2. Same(L2[t], L[t], Len(L[t])) /\ Same(L3[t], L2[t], Len(L2[t])) /\ Len(L[t]) <= Len(L2[t])
    BY EntriesStay DEF Move, Later
  <2> QED
    BY <2>1, <2>2, SameIs
<1>2. ASSUME NEW q \in Node, NEW t \in Nat
      PROVE  /\ V[q][t] # 0 => V3[q][t] = V[q][t]
             /\ A3[q][t] # A[q][t] => A3[q][t] >= A[q][t] /\ ~Gone(ns, q, t)
  <2>1. V[q][t] # 0 => V3[q][t] = V[q][t]
    BY DEF Move, Later
  <2>2. A[q][t] \in Nat /\ A2[q][t] \in Nat /\ A3[q][t] \in Nat
    BY HistoryIs DEF Move
  <2>3. A3[q][t] >= A2[q][t] /\ A2[q][t] >= A[q][t]
    BY TermsStay
  <2>4. Gone(ns, q, t) => A3[q][t] = A[q][t]
    BY TermsStay
  <2> QED
    BY <2>1, <2>2, <2>3, <2>4
<1>3. DOMAIN ns2 \subseteq DOMAIN ns /\ DOMAIN ns3 \subseteq DOMAIN ns2
  BY DEF Move, Later
<1>4. ASSUME NEW q \in DOMAIN ns3 PROVE ns3[q].term >= ns[q].term /\ ns3[q].commit >= ns[q].commit
  <2>1. /\ ns[q].term \in Nat /\ ns2[q].term \in Nat /\ ns3[q].term \in Nat
        /\ ns[q].commit \in Nat /\ ns2[q].commit \in Nat /\ ns3[q].commit \in Nat
    BY <1>3, NodeFields DEF Move
  <2>2. /\ ns2[q].term >= ns[q].term /\ ns2[q].commit >= ns[q].commit
        /\ ns3[q].term >= ns2[q].term /\ ns3[q].commit >= ns2[q].commit
    BY <1>3 DEF Move, Later
  <2> QED
    BY <2>1, <2>2
<1> QED
  BY <1>1, <1>2, <1>3, <1>4 DEF Move, Later

-----------------------------------------------------------------------------
(* What a step of a node leaves safe *)

LEMMA CoversStays ==
  ASSUME NEW L, NEW V, NEW A, NEW ns, NEW L2, NEW V2, NEW A2, NEW ns2,
         Move(L, V, A, ns, L2, V2, A2, ns2), Accepted(L, A, ns),
         NEW log \in Seq(Logged), NEW q \in Node, NEW T \in Nat, Covers(L, A, ns, log, q, T),
         \A t \in Nat : t < T => A2[q][t] = A[q][t]
  PROVE  Covers(L2, A2, ns2, log, q, T)
<1>1. ASSUME NEW t \in Nat, t < T, NEW i \in Nat, i <= A2[q][t], Own(L2, t, i)
      PROVE  Kept(L2, A2, ns2, log, t, i)
  <2>1. A2[q][t] = A[q][t] /\ A[q][t] <= Len(L[t]) /\ A[q][t] \in Nat /\ Len(L[t]) \in Nat
    BY <1>1, HistoryIs DEF Accepted, Move
  <2>2. i \in 1..Len(L[t])
    BY <1>1, <2>1 DEF Own
  <2>3. Own(L, t, i)
    BY <1>1, <2>2, EntriesStay
  <2>4. Kept(L, A, ns, log, t, i)
    BY <1>1, <2>1, <2>3 DEF Covers
  <2> QED
    BY <2>4, KeptStays
<1> QED
  BY <1>1 DEF Covers

\* Who voted for a candidate has left the terms before and accepts nothing more
\* in them.
LEMMA SupportersStay ==
  ASSUME NEW L, NEW V, NEW A, NEW ns, NEW L2, NEW V2, NEW A2, NEW ns2,
         Move(L, V, A, ns, L2, V2, A2, ns2), Accepted(L, A, ns), Votes(V, ns),
         NEW log \in Seq(Logged), NEW q \in Node, NEW T \in Nat, NEW p \in Support(V, T, q),
         Covers(L, A, ns, log, p, T)
  PROVE  Covers(L2, A2, ns2, log, p, T)
<1>1. p \in Node /\ V[p][T] = q /\ q # 0
  BY DEF Support, Node
<1>2. Reached(ns, p, T)
  BY <1>1 DEF Votes
<1>3. ASSUME NEW t \in Nat, t < T PROVE A2[p][t] = A[p][t]
  <2>1. Gone(ns, p, t)
    BY <1>2, <1>3, NodeFields DEF Reached, Gone, Move
  <2> QED
    BY <1>1, <2>1, TermsStay
<1> QED
  BY <1>1, <1>3, CoversStays

\* A node to which nothing happens.
LEMMA NodeStays ==
  ASSUME NEW L, NEW V, NEW A, NEW ns, NEW L2, NEW V2, NEW A2, NEW ns2,
         Move(L, V, A, ns, L2, V2, A2, ns2), Accepted(L, A, ns), Votes(V, ns),
         NEW q \in DOMAIN ns2, ns2[q] = ns[q], SafeNode(L, V, A, ns, q),
         V2[q] = V[q], A2[q] = A[q],
         ns[q].role = "leader" => L2[ns[q].term] = L[ns[q].term],
         ns[q].role = "candidate" =>
           \A p \in Node : V2[p][ns[q].term] = q /\ V[p][ns[q].term] # q =>
             Covers(L2, A2, ns2, ns[q].log, p, ns[q].term)
  PROVE  SafeNode(L2, V2, A2, ns2, q)
<1> DEFINE s == ns[q]
           log == s.log
           T == s.term
<1>1. /\ q \in DOMAIN ns /\ q \in Node /\ T \in Nat /\ log \in Seq(Logged) /\ s.commit \in Nat
      /\ s.match \in [Node -> Nat]
  BY NodeFields DEF Move, Later
<1>2. /\ T >= 1 /\ Sound(L, log) /\ \A j \in 1..Len(log) : log[j].term \in 1..T
      /\ V[q][T] \in {0, s.vote}
      /\ Same(log, L[T], A[q][T])
      /\ Covers(L, A, ns, log, q, T)
      /\ \A t \in Nat : t <= T => Len(log) >= A[q][t] \/ LastTerm(log) > t
      /\ Committed(L, A, log, s.commit, T)
  BY DEF SafeNode, SafeFollower
<1> HIDE DEF log, T
<1>3. A[q][T] \in Nat
  BY <1>1, HistoryIs DEF Move
<1>4. Sound(L2, log) /\ Committed(L2, A2, log, s.commit, T)
  <2>1. T <= T
    BY <1>1
  <2> QED
    BY <1>1, <1>2, <2>1, SoundStays, CommittedStays
<1>5. Same(log, L2[T], A2[q][T])
  BY <1>1, <1>2, <1>3, EntriesStay
<1>6. Covers(L2, A2, ns2, log, q, T)
  BY <1>1, <1>2, CoversStays
<1>7. SafeFollower(L2, V2, A2, ns2, q)
  BY <1>2, <1>4, <1>5, <1>6 DEF SafeFollower, log, T
<1>8. ASSUME s.role = "candidate" PROVE SafeCandidate(L2, V2, A2, ns2, q)
  <2>1. /\ V[q][T] = q /\ s.granted \subseteq Support(V, T, q) /\ T >= 2
        /\ \A p \in Support(V, T, q) : Covers(L, A, ns, log, p, T)
    BY <1>8 DEF SafeNode, SafeCandidate, log, T
  <2>2. s.granted \subseteq Support(V2, T, q)
    BY <1>1, <2>1, SupportStays
  <2>3. ASSUME NEW p \in Support(V2, T, q) PROVE Covers(L2, A2, ns2, log, p, T)
    <3>1. CASE p \in Support(V, T, q)
      BY <1>1, <2>1, <3>1, SupportersStay
    <3>2. CASE p \notin Support(V, T, q)
      <4>1. p \in Node /\ V2[p][T] = q /\ V[p][T] # q
        BY <3>2 DEF Support
      <4> QED
        BY <1>8, <4>1 DEF log, T
    <3> QED
      BY <3>1, <3>2
  <2> QED
    BY <2>1, <2>2, <2>3 DEF SafeCandidate, log, T
<1>9. ASSUME s.role = "leader" PROVE SafeLeader(L2, V2, A2, ns2, q)
  <2>1. /\ T >= 2 /\ IsMajority(Support(V, T, q)) /\ V[q][T] = q
        /\ log = L[T] /\ log # <<>>
        /\ \A p \in Node : s.match[p] <= A[p][T]
    BY <1>9 DEF SafeNode, SafeLeader, log, T
  <2>2. IsMajority(Support(V2, T, q)) /\ L2[T] = L[T]
    BY <1>1, <1>9, <2>1, SupportStays DEF T
  <2>3. ASSUME NEW p \in Node PROVE s.match[p] <= A2[p][T]
    <3>1. A2[p][T] >= A[p][T] /\ A[p][T] \in Nat /\ A2[p][T] \in Nat /\ s.match[p] \in Nat
      BY <1>1, TermsStay, HistoryIs DEF Move
    <3> QED
      BY <2>1, <3>1
  <2> QED
    BY <2>1, <2>2, <2>3 DEF SafeLeader, log, T
<1> QED
  BY <1>7, <1>8, <1>9 DEF SafeNode

\* A message says of its sender what stays true of it.
LEMMA MessageStays ==
  ASSUME NEW L, NEW V, NEW A, NEW ns, NEW L2, NEW V2, NEW A2, NEW ns2,
         Move(L, V, A, ns, L2, V2, A2, ns2), NEW m \in Message, SafeMessage(L, V, A, ns, m),
         m.from \in DOMAIN ns2 /\ ns2[m.from].role = "candidate" =>
           \/ ns2[m.from].term > ns[m.from].term
           \/ ns[m.from].role = "candidate" /\ ns2[m.from].log = ns[m.from].log
  PROVE  SafeMessage(L2, V2, A2, ns2, m)
<1>0. m.from \in Node /\ m.to \in Node /\ m.term \in Nat /\ m.to # 0
  BY MessageFields DEF Node
<1>1. CASE m.type = "Vote"
  <2>1. Reached(ns, m.from, m.term) /\ Reached(ns2, m.from, m.term)
    BY <1>0, <1>1, TermsStay DEF SafeMessage
  <2>2. ASSUME m.from \in DOMAIN ns2, ns2[m.from].term = m.term, ns2[m.from].role = "candidate"
        PROVE  m.last = LastTerm(ns2[m.from].log) /\ m.index = Len(ns2[m.from].log)
    <3>1. m.from \in DOMAIN ns /\ ns2[m.from].term >= ns[m.from].term
      BY <2>2 DEF Move, Later
    <3>2. ns[m.from].term >= m.term
      BY <2>1, <3>1 DEF Reached
    <3>3. ns[m.from].term \in Nat
      BY <3>1, NodeFields DEF Move
    <3>4. ns[m.from].term = m.term /\ ~(ns2[m.from].term > ns[m.from].term)
      BY <1>0, <2>2, <3>1, <3>2, <3>3
    <3>5. ns[m.from].role = "candidate" /\ ns2[m.from].log = ns[m.from].log
      BY <2>2, <3>4
    <3> QED
      BY <1>1, <3>1, <3>4, <3>5 DEF SafeMessage
  <2> QED
    BY <1>1, <2>1, <2>2 DEF SafeMessage
<1>2. CASE m.type = "VoteResp"
  <2>1. V[m.from][m.term] = m.to
    BY <1>2 DEF SafeMessage
  <2>2. V2[m.from][m.term] = m.to
    BY <1>0, <2>1 DEF Move, Later
  <2> QED
    BY <1>2, <2>2 DEF SafeMessage
<1>3. CASE m.type = "App"
  <2>1. m.log \in Seq(Logged) /\ Len(m.log) \in Nat /\ m.commit \in Nat
    <3>1. m.log \in Log /\ m.commit \in Nat
      BY <1>3, MessageFields
    <3>2. Log \subseteq Seq(Logged)
      BY LogsAreLogged
    <3> QED
      BY <3>1, <3>2, LenProperties
  <2>2. /\ m.log # <<>> /\ Same(m.log, L[m.term], Len(m.log))
        /\ LastTerm(m.log) = m.term
        /\ Committed(L, A, m.log, m.commit, m.term)
    BY <1>3 DEF SafeMessage
  <2>3. Same(m.log, L2[m.term], Len(m.log))
    BY <1>0, <2>1, <2>2, EntriesStay
  <2>4. Committed(L2, A2, m.log, m.commit, m.term)
    <3>1. m.term <= m.term
      BY <1>0
    <3> QED
      BY <1>0, <2>1, <2>2, <3>1, CommittedStays
  <2> QED
    BY <1>3, <2>2, <2>3, <2>4 DEF SafeMessage
<1>4. CASE m.type = "AppResp"
  <2>1. m.index \in Nat /\ m.index <= A[m.from][m.term]
    BY <1>4, MessageFields DEF SafeMessage
  <2>2. A[m.from][m.term] \in Nat /\ A2[m.from][m.term] \in Nat /\ A2[m.from][m.term] >= A[m.from][m.term]
    BY <1>0, TermsStay, HistoryIs DEF Move
  <2>3. m.index <= A2[m.from][m.term]
    BY <2>1, <2>2
  <2> QED
    BY <1>4, <2>3 DEF SafeMessage
<1> QED
  BY <1>1, <1>2, <1>3, <1>4, MessageFields

\* Something happens to node n, which becomes s2 and sends out.
StepOf(L, V, A, ns, L2, V2, A2, ns2, M, n, s2, out) ==
  /\ Move(L, V, A, ns, L2, V2, A2, ns2) /\ Safe(L, V, A, ns, M)
  /\ M \subseteq Message /\ out \subseteq Message
  /\ n \in DOMAIN ns /\ ns2 = [ns EXCEPT ![n] = s2]
  /\ \A q \in Node \ {n} : V2[q] = V[q] /\ A2[q] = A[q]
  /\ \A t \in Nat : \/ V2[n][t] = V[n][t]
                    \/ t = s2.term /\ V2[n][t] \in Node /\ Reached(ns2, V2[n][t], t)
  /\ \A q \in DOMAIN ns \ {n} :
       ns[q].role = "candidate" /\ V2[n][ns[q].term] = q /\ V[n][ns[q].term] # q =>
         Covers(L2, A2, ns2, ns[q].log, n, ns[q].term)
  /\ s2.role = "candidate" =>
       s2.term > ns[n].term \/ (ns[n].role = "candidate" /\ s2.log = ns[n].log)
  /\ SafeNode(L2, V2, A2, ns2, n)
  /\ \A m \in out : SafeMessage(L2, V2, A2, ns2, m)

\* The others and the messages before stay safe.
LEMMA StepSafe ==
  ASSUME NEW L, NEW V, NEW A, NEW ns, NEW L2, NEW V2, NEW A2, NEW ns2, NEW M, NEW n, NEW s2, NEW out,
         StepOf(L, V, A, ns, L2, V2, A2, ns2, M, n, s2, out),
         \A q \in DOMAIN ns \ {n} : ns[q].role = "leader" => L2[ns[q].term] = L[ns[q].term],
         LeaderLogs(L2), Elected(L2, V2, ns2), Accepted(L2, A2, ns2), LaterLeaders(L2, A2, ns2)
  PROVE  Safe(L2, V2, A2, ns2, M \union out)
<1> USE DEF StepOf
<1>1. /\ DOMAIN ns2 = DOMAIN ns /\ ns2[n] = s2 /\ \A q \in DOMAIN ns \ {n} : ns2[q] = ns[q]
      /\ DOMAIN ns \subseteq Node
  BY NodeFields DEF Move
<1>2. /\ Votes(V, ns) /\ Accepted(L, A, ns)
      /\ \A q \in DOMAIN ns : SafeNode(L, V, A, ns, q)
      /\ \A m \in M : SafeMessage(L, V, A, ns, m)
  BY DEF Safe
<1>3. ASSUME NEW q \in DOMAIN ns2 PROVE SafeNode(L2, V2, A2, ns2, q)
  <2>1. CASE q = n
    BY <2>1
  <2>2. CASE q # n
    <3>1. ns2[q] = ns[q] /\ SafeNode(L, V, A, ns, q) /\ V2[q] = V[q] /\ A2[q] = A[q]
      BY <1>1, <1>2, <2>2
    <3>2. ASSUME ns[q].role = "candidate", NEW p \in Node,
                 V2[p][ns[q].term] = q, V[p][ns[q].term] # q
          PROVE  Covers(L2, A2, ns2, ns[q].log, p, ns[q].term)
      <4>1. p = n
        BY <3>2
      <4> QED
        BY <1>1, <2>2, <3>2, <4>1
    <3>3. ns[q].role = "leader" => L2[ns[q].term] = L[ns[q].term]
      BY <1>1, <2>2
    <3> QED
      BY <1>2, <3>1, <3>2, <3>3, NodeStays
  <2> QED
    BY <2>1, <2>2
<1>4. Votes(V2, ns2)
  <2>1. ASSUME NEW q \in Node, NEW t \in Nat, V2[q][t] # 0
        PROVE  V2[q][t] \in Node /\ Reached(ns2, q, t) /\ Reached(ns2, V2[q][t], t)
    <3>1. CASE V2[q][t] = V[q][t]
      BY <1>2, <2>1, <3>1, TermsStay DEF Votes
    <3>2. CASE V2[q][t] # V[q][t]
      <4>1. q = n
        BY <3>2
      <4>2. t = s2.term /\ V2[n][t] \in Node /\ Reached(ns2, V2[n][t], t)
        BY <3>2, <4>1
      <4>3. s2.term \in Nat
        BY <1>1, NodeFields DEF Move
      <4>4. Reached(ns2, n, t)
        BY <1>1, <4>2, <4>3 DEF Reached
      <4> QED
        BY <4>1, <4>2, <4>4
    <3> QED
      BY <3>1, <3>2
  <2> QED
    BY <2>1 DEF Votes
<1>5. ASSUME NEW m \in M PROVE SafeMessage(L2, V2, A2, ns2, m)
  <2>1. m \in Message /\ SafeMessage(L, V, A, ns, m)
    BY <1>2
  <2>2. ASSUME m.from \in DOMAIN ns2, ns2[m.from].role = "candidate"
        PROVE  \/ ns2[m.from].term > ns[m.from].term
               \/ ns[m.from].role = "candidate" /\ ns2[m.from].log = ns[m.from].log
    <3>1. CASE m.from = n
      BY <1>1, <2>2, <3>1
    <3>2. CASE m.from # n
      BY <1>1, <2>2, <3>2
    <3> QED
      BY <3>1, <3>2
  <2> QED
    BY <2>1, <2>2, MessageStays
<1>6. History(L2, V2, A2)
  BY DEF Move
<1>7. \A m \in M \union out : SafeMessage(L2, V2, A2, ns2, m)
  BY <1>5
<1> QED
  BY <1>3, <1>4, <1>6, <1>7 DEF Safe

\* The same where the leaders' logs do not change.
LEMMA SameLogsSafe ==
  ASSUME NEW L, NEW V, NEW A, NEW ns, NEW V2, NEW A2, NEW ns2, NEW M, NEW n, NEW s2, NEW out,
         StepOf(L, V, A, ns, L, V2, A2, ns2, M, n, s2, out),
         \A t \in Nat : \/ A2[n][t] = A[n][t]
                        \/ t = s2.term /\ A2[n][t] <= Len(L[t]),
         s2.term = ns[n].term /\ ns[n].role = "leader" => s2.role = "leader"
  PROVE  Safe(L, V2, A2, ns2, M \union out)
<1>0. /\ Move(L, V, A, ns, L, V2, A2, ns2) /\ Safe(L, V, A, ns, M)
      /\ n \in DOMAIN ns /\ ns2 = [ns EXCEPT ![n] = s2]
      /\ \A q \in Node \ {n} : V2[q] = V[q] /\ A2[q] = A[q]
  BY DEF StepOf
<1>1. /\ DOMAIN ns2 = DOMAIN ns /\ ns2[n] = s2 /\ \A q \in DOMAIN ns \ {n} : ns2[q] = ns[q]
      /\ n \in Node /\ ns[n].term \in Nat /\ s2.term \in Nat /\ s2.term >= ns[n].term
  <2>1. DOMAIN ns2 = DOMAIN ns /\ ns2[n] = s2 /\ \A q \in DOMAIN ns \ {n} : ns2[q] = ns[q]
    BY <1>0
  <2> QED
    BY <1>0, <2>1, NodeFields DEF Move, Later
<1>2. LeaderLogs(L) /\ Votes(V, ns) /\ Elected(L, V, ns) /\ Accepted(L, A, ns) /\ LaterLeaders(L, A, ns)
  BY <1>0 DEF Safe
<1>3. Elected(L, V2, ns2)
  <2>1. ASSUME NEW t \in Nat, t >= 2, L[t] # <<>>
        PROVE  \E c \in Node : /\ IsMajority(Support(V2, t, c))
                               /\ c \in DOMAIN ns2 /\ ns2[c].term = t => ns2[c].role = "leader"
    <3>1. PICK c \in Node : /\ IsMajority(Support(V, t, c))
                            /\ c \in DOMAIN ns /\ ns[c].term = t => ns[c].role = "leader"
      BY <1>2, <2>1 DEF Elected
    <3>2. IsMajority(Support(V2, t, c))
      BY <3>1, SupportStays, <1>0
    <3>3. Reached(ns, c, t)
      <4>1. Support(V, t, c) # {}
        BY <3>1, EveryNode
      <4>2. PICK q \in Node : V[q][t] = c
        BY <4>1 DEF Support
      <4>3. c # 0
        BY DEF Node
      <4> QED
        BY <1>2, <4>2, <4>3 DEF Votes
    <3>4. ASSUME c \in DOMAIN ns2, ns2[c].term = t PROVE ns2[c].role = "leader"
      <4>1. CASE c = n
        <5>1. s2.term = t /\ ns[n].term >= t
          BY <1>1, <3>3, <3>4, <4>1 DEF Reached
        <5>2. ns[n].term = t
          BY <1>1, <5>1
        <5> QED
          BY <1>0, <1>1, <3>1, <4>1, <5>1, <5>2
      <4>2. CASE c # n
        BY <1>1, <3>1, <3>4, <4>2
      <4> QED
        BY <4>1, <4>2
    <3> QED
      BY <3>2, <3>4
  <2> QED
    BY <2>1 DEF Elected
<1>4. Accepted(L, A2, ns2)
  <2>1. ASSUME NEW q \in Node, NEW t \in Nat
        PROVE  A2[q][t] <= Len(L[t]) /\ (A2[q][t] # 0 => Reached(ns2, q, t))
    <3>1. CASE A2[q][t] = A[q][t]
      BY <1>2, <3>1, TermsStay, <1>0 DEF Accepted
    <3>2. CASE A2[q][t] # A[q][t]
      <4>1. q = n
        BY <1>0, <3>2
      <4>2. t = s2.term /\ A2[n][t] <= Len(L[t])
        BY <3>2, <4>1
      <4>3. Reached(ns2, n, t)
        BY <1>1, <4>2 DEF Reached
      <4> QED
        BY <4>1, <4>2, <4>3
    <3> QED
      BY <3>1, <3>2
  <2> QED
    BY <2>1 DEF Accepted
<1>5. LaterLeaders(L, A2, ns2)
  <2>1. ASSUME NEW u \in Nat, L[u] # <<>>, NEW t \in Nat, t < u, NEW i \in Nat, Own(L, t, i)
        PROVE  Kept(L, A2, ns2, L[u], t, i)
    <3>1. Kept(L, A, ns, L[u], t, i)
      BY <1>2, <2>1 DEF LaterLeaders
    <3>2. L[u] \in Seq(Logged)
      BY <1>0, HistoryIs DEF Move
    <3> QED
      BY <3>1, <3>2, KeptStays, <1>0
  <2> QED
    BY <2>1 DEF LaterLeaders
<1> QED
  BY <1>2, <1>3, <1>4, <1>5, StepSafe

\* Node n becomes s2, and the history goes on as its term allows.
Change(L, V, A, ns, n, s2, L2, V2, A2, ns2) ==
  /\ History(L, V, A) /\ TypedNodes(ns) /\ n \in DOMAIN ns
  /\ Typed(s2) /\ s2.term >= ns[n].term /\ s2.commit >= ns[n].commit
  /\ ns2 = [ns EXCEPT ![n] = s2]
  /\ History(L2, V2, A2)
  /\ L2 = L \/ \A t \in Nat : Same(L2[t], L[t], Len(L[t]))
  /\ \A q \in Node : \A t \in Nat :
       /\ V[q][t] # 0 => V2[q][t] = V[q][t]
       /\ A2[q][t] # A[q][t] => q = n /\ t = ns[n].term /\ A2[n][t] >= A[n][t]

LEMMA MoveIs ==
  ASSUME NEW L, NEW V, NEW A, NEW ns, NEW n, NEW s2, NEW L2, NEW V2, NEW A2, NEW ns2,
         Change(L, V, A, ns, n, s2, L2, V2, A2, ns2)
  PROVE  /\ Move(L, V, A, ns, L2, V2, A2, ns2)
         /\ DOMAIN ns2 = DOMAIN ns /\ ns2[n] = s2
         /\ \A q \in DOMAIN ns \ {n} : ns2[q] = ns[q]
<1> USE DEF Change
<1>1. DOMAIN ns2 = DOMAIN ns /\ ns2[n] = s2 /\ \A q \in DOMAIN ns \ {n} : ns2[q] = ns[q]
  OBVIOUS
<1>2. TypedNodes(ns2)
  BY <1>1 DEF TypedNodes
<1>3. \A q \in DOMAIN ns : ns[q].term \in Nat /\ ns[q].commit \in Nat
  BY NodeFields
<1>4. \A q \in DOMAIN ns2 : ns2[q].term >= ns[q].term /\ ns2[q].commit >= ns[q].commit
  BY <1>1, <1>3
<1>5. ASSUME NEW q \in Node, NEW t \in Nat, A2[q][t] # A[q][t]
      PROVE  A2[q][t] >= A[q][t] /\ ~Gone(ns, q, t)
  <2>1. q = n /\ t = ns[n].term /\ A2[n][t] >= A[n][t]
    BY <1>5
  <2> QED
    BY <1>3, <2>1 DEF Gone
<1>6. ASSUME NEW t \in Nat PROVE Same(L2[t], L[t], Len(L[t]))
  <2>1. L[t] \in Seq(Logged) /\ Len(L[t]) \in Nat /\ Len(L[t]) <= Len(L[t])
    BY HistoryIs
  <2> QED
    BY <2>1, SameSelf
<1>7. Later(L, V, A, ns, L2, V2, A2, ns2)
  BY <1>1, <1>4, <1>5, <1>6 DEF Later
<1> QED
  BY <1>1, <1>2, <1>7 DEF Move

\* What a node knows when it reaches a higher term.
LEMMA HigherTerm ==
  ASSUME NEW L, NEW V, NEW A, NEW ns, NEW M, Safe(L, V, A, ns, M), TypedNodes(ns),
         NEW n \in DOMAIN ns, NEW T \in Nat, T > ns[n].term
  PROVE  /\ V[n][T] = 0 /\ A[n][T] = 0 /\ \A q \in Node : V[q][T] # n
         /\ Covers(L, A, ns, ns[n].log, n, T)
         /\ \A t \in Nat : t <= T => Len(ns[n].log) >= A[n][t] \/ LastTerm(ns[n].log) > t
<1> DEFINE s == ns[n]
<1>1. /\ n \in Node /\ n # 0 /\ s.term \in Nat /\ s.log \in Seq(Logged) /\ Len(s.log) \in Nat
  <2>1. n \in Node /\ s.term \in Nat /\ s.log \in Seq(Logged)
    BY NodeFields
  <2> QED
    BY <2>1, LenProperties DEF Node
<1>2. ASSUME NEW t \in Nat, t > s.term PROVE ~Reached(ns, n, t)
  BY <1>1, <1>2 DEF Reached
<1>3. ASSUME NEW t \in Nat, t > s.term PROVE V[n][t] = 0 /\ A[n][t] = 0
  BY <1>1, <1>2, <1>3 DEF Safe, Votes, Accepted
<1>4. \A q \in Node : V[q][T] # n
  BY <1>1, <1>2 DEF Safe, Votes
<1>5. SafeFollower(L, V, A, ns, n) /\ History(L, V, A)
  BY DEF Safe, SafeNode
<1>6. /\ Same(s.log, L[s.term], A[n][s.term])
      /\ Covers(L, A, ns, s.log, n, s.term)
      /\ \A t \in Nat : t <= s.term => Len(s.log) >= A[n][t] \/ LastTerm(s.log) > t
  BY <1>5 DEF SafeFollower
<1> HIDE DEF s
<1>7. ASSUME NEW t \in Nat, t < T, NEW i \in Nat, i <= A[n][t], Own(L, t, i)
      PROVE  Kept(L, A, ns, s.log, t, i)
  <2>1. CASE t < s.term
    BY <1>6, <1>7, <2>1 DEF Covers
  <2>2. CASE t = s.term
    <3>1. L[t] \in Seq(Logged) /\ A[n][t] \in Nat
      BY <1>1, <1>5, HistoryIs
    <3>2. Same(s.log, L[t], i)
      BY <1>1, <1>6, <1>7, <2>2, <3>1, SameIs
    <3> QED
      BY <3>2 DEF Kept
  <2>3. CASE t > s.term
    BY <1>3, <1>7, <2>3 DEF Own
  <2> QED
    BY <1>1, <2>1, <2>2, <2>3
<1>8. ASSUME NEW t \in Nat, t <= T PROVE Len(s.log) >= A[n][t] \/ LastTerm(s.log) > t
  <2>1. CASE t <= s.term
    BY <1>6, <2>1
  <2>2. CASE t > s.term
    BY <1>1, <1>3, <2>2
  <2> QED
    BY <1>1, <2>1, <2>2
<1> QED
  BY <1>3, <1>4, <1>7, <1>8 DEF Covers, s

\* A node hears of a later term.
LEMMA RaiseSafe ==
  ASSUME NEW L, NEW V, NEW A, NEW ns, NEW M \in SUBSET Message, Safe(L, V, A, ns, M), TypedNodes(ns),
         NEW n \in DOMAIN ns, NEW t \in 0..MaxTerm, t > ns[n].term,
         NEW ns2, ns2 = [ns EXCEPT ![n] = Follower(ns[n], t)]
  PROVE  Safe(L, V, A, ns2, M) /\ Move(L, V, A, ns, L, V, A, ns2)
<1> DEFINE s == ns[n]
<1>0. Typed(s)
  BY DEF TypedNodes
<1>1. PICK s2 : s2 = Follower(s, t)
  OBVIOUS
<1>2. /\ Typed(s2) /\ s2.term = t /\ s2.role = "follower" /\ s2.vote = 0
      /\ s2.log = s.log /\ s2.commit = s.commit
  BY <1>0, <1>1, FollowerTyped
<1>3. /\ s.term \in Nat /\ s.commit \in Nat /\ s.log \in Seq(Logged) /\ t \in Nat /\ n \in Node
  BY NodeFields, NodeAssumption
<1>4. History(L, V, A)
  BY DEF Safe
<1>5. ns2 = [ns EXCEPT ![n] = s2]
  BY <1>1
<1>6. /\ Move(L, V, A, ns, L, V, A, ns2) /\ DOMAIN ns2 = DOMAIN ns /\ ns2[n] = s2
      /\ \A q \in DOMAIN ns \ {n} : ns2[q] = ns[q]
  <2>1. s2.term >= s.term /\ s2.commit >= s.commit
    BY <1>2, <1>3
  <2>2. Change(L, V, A, ns, n, s2, L, V, A, ns2)
    BY <1>2, <1>4, <1>5, <2>1 DEF Change
  <2> QED
    BY <2>2, MoveIs
<1>7. SafeFollower(L, V, A, ns, n)
  BY DEF Safe, SafeNode
<1>8. /\ V[n][t] = 0 /\ A[n][t] = 0
      /\ Covers(L, A, ns, s.log, n, t)
      /\ \A u \in Nat : u <= t => Len(s.log) >= A[n][u] \/ LastTerm(s.log) > u
  BY <1>3, HigherTerm
<1>9. SafeFollower(L, V, A, ns2, n)
  <2>1. s2.term >= 1 /\ Sound(L, s2.log) /\ \A j \in 1..Len(s2.log) : s2.log[j].term \in 1..s2.term
    BY <1>2, <1>3, <1>7 DEF SafeFollower
  <2>2. Same(s2.log, L[s2.term], A[n][s2.term])
    <3>1. Len(s.log) \in Nat /\ Len(L[t]) \in Nat
      BY <1>3, <1>4, HistoryIs, LenProperties
    <3> QED
      BY <1>2, <1>8, <3>1 DEF Same
  <2>3. Covers(L, A, ns2, s2.log, n, s2.term)
    BY <1>2, <1>3, <1>6, <1>8, CoversStays DEF Safe
  <2>4. Committed(L, A, s2.log, s2.commit, s2.term)
    <3>1. Committed(L, A, s.log, s.commit, s.term) /\ s.term <= t
      BY <1>3, <1>7 DEF SafeFollower
    <3> QED
      BY <1>2, <1>3, <1>6, <3>1, CommittedStays
  <2> QED
    BY <1>2, <1>6, <1>8, <2>1, <2>2, <2>3, <2>4 DEF SafeFollower
<1>10. SafeNode(L, V, A, ns2, n)
  BY <1>2, <1>6, <1>9 DEF SafeNode
<1>11. StepOf(L, V, A, ns, L, V, A, ns2, M, n, s2, {})
  BY <1>2, <1>5, <1>6, <1>10 DEF StepOf
<1>12. s2.term # s.term
  BY <1>2, <1>3
<1>13. Safe(L, V, A, ns2, M \union {})
  BY <1>11, <1>12, SameLogsSafe
<1> QED
  BY <1>6, <1>13

\* A node stands for election in the next term and votes for itself.
LEMMA StandSafe ==
  ASSUME NEW L, NEW V, NEW A, NEW ns, NEW M \in SUBSET Message, Safe(L, V, A, ns, M), TypedNodes(ns),
         NEW n \in DOMAIN ns, NEW s2, Typed(s2), s2.term = ns[n].term + 1, s2.role = "candidate",
         s2.vote = n, s2.granted = {n}, s2.log = ns[n].log, s2.commit = ns[n].commit,
         NEW ns2, ns2 = [ns EXCEPT ![n] = s2],
         NEW out, TypedOut(n, out),
         \A m \in out : /\ m.type = "Vote" /\ m.from = n /\ m.term = s2.term
                        /\ m.last = LastTerm(s2.log) /\ m.index = Len(s2.log)
  PROVE  \E V2 : Safe(L, V2, A, ns2, M \union out) /\ Move(L, V, A, ns, L, V2, A, ns2)
<1> DEFINE s == ns[n]
           T == s.term + 1
           V2 == [V EXCEPT ![n] = [V[n] EXCEPT ![T] = n]]
<1>1. /\ s.term \in Nat /\ s.commit \in Nat /\ s.log \in Seq(Logged) /\ T \in Nat /\ n \in Node
      /\ n # 0 /\ n \in Nat
  <2>1. /\ s.term \in Nat /\ s.commit \in Nat /\ s.log \in Seq(Logged) /\ n \in Node
    BY NodeFields
  <2> QED
    BY <2>1, NodeAssumption DEF Node
<1>2. History(L, V, A)
  BY DEF Safe
<1>3. T > s.term
  BY <1>1
<1> HIDE DEF T
<1>4. /\ V[n][T] = 0 /\ A[n][T] = 0 /\ \A q \in Node : V[q][T] # n
      /\ Covers(L, A, ns, s.log, n, T)
      /\ \A u \in Nat : u <= T => Len(s.log) >= A[n][u] \/ LastTerm(s.log) > u
  BY <1>1, <1>3, HigherTerm
<1>5. /\ V2 \in [Node -> [Nat -> Nat]] /\ V2[n][T] = n
      /\ \A q \in Node \ {n} : V2[q] = V[q]
      /\ \A t \in Nat \ {T} : V2[n][t] = V[n][t]
  BY <1>1, <1>2 DEF History
<1> HIDE DEF V2
<1>6. History(L, V2, A)
  BY <1>2, <1>5 DEF History
<1>7. \A q \in Node : \A t \in Nat : V[q][t] # 0 => V2[q][t] = V[q][t]
  BY <1>4, <1>5
<1>8. /\ Move(L, V, A, ns, L, V2, A, ns2) /\ DOMAIN ns2 = DOMAIN ns /\ ns2[n] = s2
      /\ \A q \in DOMAIN ns \ {n} : ns2[q] = ns[q]
  <2>1. s2.term >= s.term /\ s2.commit >= s.commit
    BY <1>1
  <2>2. Change(L, V, A, ns, n, s2, L, V2, A, ns2)
    BY <1>2, <1>6, <1>7, <2>1 DEF Change
  <2> QED
    BY <2>2, MoveIs
<1>9. s2.term = T
  BY DEF T
<1>10. SafeFollower(L, V, A, ns, n)
  BY DEF Safe, SafeNode
<1>11. Covers(L, A, ns2, s2.log, n, T)
  BY <1>1, <1>4, <1>8, CoversStays DEF Safe
<1>12. SafeFollower(L, V2, A, ns2, n)
  <2>1. T >= 1 /\ Sound(L, s.log) /\ \A j \in 1..Len(s.log) : s.log[j].term \in 1..T
    BY <1>1, <1>3, <1>10 DEF SafeFollower
  <2>2. Same(s.log, L[T], A[n][T])
    <3>1. Len(s.log) \in Nat /\ Len(L[T]) \in Nat
      BY <1>1, <1>2, HistoryIs, LenProperties
    <3> QED
      BY <1>4, <3>1 DEF Same
  <2>3. Committed(L, A, s.log, s.commit, T)
    <3>1. Committed(L, A, s.log, s.commit, s.term) /\ s.term <= T
      BY <1>1, <1>3, <1>10 DEF SafeFollower
    <3> QED
      BY <1>1, <1>8, <3>1, CommittedStays
  <2>4. V2[n][T] \in {0, s2.vote}
    BY <1>5
  <2> QED
    BY <1>4, <1>8, <1>9, <1>11, <2>1, <2>2, <2>3, <2>4 DEF SafeFollower
<1>13. SafeCandidate(L, V2, A, ns2, n)
  <2>1. Support(V2, T, n) = {n}
    BY <1>1, <1>4, <1>5 DEF Support
  <2>2. T >= 2
    BY <1>1, <1>10 DEF SafeFollower, T
  <2> QED
    BY <1>5, <1>8, <1>9, <1>11, <2>1, <2>2 DEF SafeCandidate
<1>14. SafeNode(L, V2, A, ns2, n)
  BY <1>8, <1>12, <1>13 DEF SafeNode
<1>15. ASSUME NEW m \in out PROVE SafeMessage(L, V2, A, ns2, m)
  <2>1. Reached(ns2, n, T)
    BY <1>1, <1>8, <1>9 DEF Reached
  <2> QED
    BY <1>8, <1>9, <2>1 DEF SafeMessage
<1>16. StepOf(L, V, A, ns, L, V2, A, ns2, M, n, s2, out)
  <2>1. Reached(ns2, n, T)
    BY <1>1, <1>8, <1>9 DEF Reached
  <2>2. \A t \in Nat : \/ V2[n][t] = V[n][t]
                       \/ t = s2.term /\ V2[n][t] \in Node /\ Reached(ns2, V2[n][t], t)
    BY <1>1, <1>5, <1>9, <2>1
  <2>3. ASSUME NEW q \in DOMAIN ns \ {n}, V2[n][ns[q].term] = q, V[n][ns[q].term] # q PROVE FALSE
    <3>1. ns[q].term \in Nat
      BY NodeFields
    <3> QED
      BY <1>5, <2>3, <3>1
  <2>4. s2.term > s.term
    BY <1>3, <1>9
  <2> QED
    BY <1>5, <1>8, <1>14, <1>15, <2>2, <2>3, <2>4 DEF StepOf, TypedOut
<1>17. Safe(L, V2, A, ns2, M \union out)
  <2>1. s2.term # s.term
    BY <1>1, <1>3, <1>9
  <2> QED
    BY <1>16, <2>1, SameLogsSafe
<1> QED
  BY <1>8, <1>17

\* The terms of a sound log do not decrease.
LEMMA SoundTerms ==
  ASSUME NEW L, NEW V, NEW A, History(L, V, A), LeaderLogs(L),
         NEW log \in Seq(Logged), Sound(L, log),
         NEW i \in 1..Len(log), NEW j \in 1..Len(log), i <= j
  PROVE  log[i].term <= log[j].term /\ log[j].term <= LastTerm(log)
<1>1. /\ Len(log) \in Nat /\ \A k \in 1..Len(log) : log[k].term \in Nat
      /\ Len(log) \in 1..Len(log) /\ LastTerm(log) = log[Len(log)].term
  <2>1. Len(log) \in Nat
    BY LenProperties
  <2>2. log # <<>>
    BY <2>1, EntryOf
  <2> QED
    BY <2>1, <2>2, EntryOf
<1>2. ASSUME NEW a \in 1..Len(log), NEW b \in 1..Len(log), a <= b PROVE log[a].term <= log[b].term
  <2> DEFINE u == log[b].term
  <2>1. u \in Nat /\ Same(log, L[u], b) /\ a \in Nat /\ b \in Nat
    BY <1>1 DEF Sound
  <2> HIDE DEF u
  <2>2. L[u] \in Seq(Logged)
    BY <2>1, HistoryIs
  <2>3. a \in 1..b /\ log[a] = L[u][a] /\ a \in 1..Len(L[u])
    BY <1>2, <2>1, <2>2, LenProperties DEF Same
  <2>4. L[u][a].term \in 1..u
    BY <2>1, <2>3 DEF LeaderLogs
  <2> QED
    BY <2>1, <2>3, <2>4 DEF u
<1> QED
  BY <1>1, <1>2

\* A log that is at least as up to date as another has what that has of an
\* earlier leader.
LEMMA UpToDate ==
  ASSUME NEW L, NEW V, NEW A, NEW ns, History(L, V, A), LeaderLogs(L), LaterLeaders(L, A, ns),
         NEW a \in Seq(Logged), Sound(L, a), NEW b \in Seq(Logged), Sound(L, b),
         LastTerm(a) > LastTerm(b) \/ (LastTerm(a) = LastTerm(b) /\ Len(a) >= Len(b)),
         NEW t \in Nat, NEW i \in Nat, Own(L, t, i), Kept(L, A, ns, b, t, i)
  PROVE  Kept(L, A, ns, a, t, i)
<1>1. CASE Lost(A, ns, t, i)
  BY <1>1 DEF Kept
<1>2. CASE Same(b, L[t], i)
  <2>1. /\ L[t] \in Seq(Logged) /\ Len(b) \in Nat /\ Len(a) \in Nat
        /\ LastTerm(a) \in Nat /\ LastTerm(b) \in Nat /\ Len(L[t]) \in Nat
    BY HistoryIs, EntryOf
  <2>2. i \in 1..Len(L[t]) /\ L[t][i].term = t /\ t \in 1..t
    BY DEF Own, LeaderLogs
  <2>3. i \in 1..Len(b) /\ b[i] = L[t][i]
    BY <1>2, <2>1, <2>2 DEF Same
  <2>4. t <= LastTerm(b)
    <3>1. i <= i
      OBVIOUS
    <3>2. b[i].term <= LastTerm(b)
      BY <2>3, <3>1, SoundTerms
    <3> QED
      BY <2>2, <2>3, <3>2
  <2> DEFINE u == LastTerm(a)
             k == Len(a)
  <2>5. /\ u >= t /\ u \in Nat /\ k \in 1..k /\ k \in Nat /\ a[k].term = u
        /\ Same(a, L[u], k) /\ L[u] \in Seq(Logged)
    <3>1. u >= t /\ u # 0
      BY <2>1, <2>2, <2>4
    <3>2. a # <<>>
      BY <3>1, EntryOf
    <3>3. k \in 1..k /\ a[k].term = u
      BY <3>2, EntryOf
    <3>4. Same(a, L[u], k)
      BY <3>3 DEF Sound
    <3> QED
      BY <2>1, <3>1, <3>3, <3>4, HistoryIs
  <2>6. t = u => k >= i
    <3>1. t = u => LastTerm(a) = LastTerm(b)
      BY <2>1, <2>4
    <3>2. i <= Len(b)
      BY <2>1, <2>3
    <3> QED
      BY <2>1, <3>1, <3>2
  <2> HIDE DEF u, k
  <2>7. CASE t = u
    <3>1. Same(a, L[t], i)
      BY <2>1, <2>5, <2>6, <2>7, SameIs
    <3> QED
      BY <3>1 DEF Kept
  <2>8. CASE t # u
    <3>1. t < u /\ L[u] # <<>>
      <4>1. k <= Len(L[u]) /\ Len(L[u]) \in Nat
        BY <2>5, LenProperties DEF Same
      <4>2. Len(L[u]) > 0
        BY <2>5, <4>1
      <4> QED
        BY <2>5, <2>8, <4>2, EntryOf
    <3>2. Kept(L, A, ns, L[u], t, i)
      BY <2>5, <3>1 DEF LaterLeaders
    <3>3. ASSUME Same(L[u], L[t], i) PROVE Same(a, L[t], i)
      <4>1. ASSUME i > k PROVE FALSE
        <5>1. k \in 1..i
          BY <2>5, <4>1
        <5>2. L[u][k] = L[t][k] /\ k \in 1..Len(L[t])
          BY <2>1, <2>2, <3>3, <5>1 DEF Same
        <5>3. L[t][k].term \in 1..t
          BY <5>2 DEF LeaderLogs
        <5>4. a[k] = L[u][k]
          BY <2>5 DEF Same
        <5> QED
          BY <2>5, <3>1, <5>2, <5>3, <5>4
      <4>2. i <= k
        BY <2>5, <4>1
      <4> QED
        BY <2>1, <2>5, <3>3, <4>2, SameIs
    <3> QED
      BY <3>2, <3>3 DEF Kept
  <2> QED
    BY <2>7, <2>8
<1> QED
  BY <1>1, <1>2 DEF Kept

\* A node votes for the sender of m and becomes s2.
Grants(L, V, A, ns, M, n, m, s2, ns2, out) ==
  /\ M \subseteq Message /\ Safe(L, V, A, ns, M) /\ TypedNodes(ns)
  /\ n \in DOMAIN ns /\ m \in M /\ m.type = "Vote" /\ m.term = ns[n].term
  /\ ns[n].vote \in {0, m.from}
  /\ \/ m.last > LastTerm(ns[n].log)
     \/ m.last = LastTerm(ns[n].log) /\ m.index >= Len(ns[n].log)
  /\ Typed(s2) /\ s2.term = ns[n].term /\ s2.role = ns[n].role /\ s2.vote = m.from
  /\ s2.granted = ns[n].granted /\ s2.log = ns[n].log /\ s2.commit = ns[n].commit
  /\ s2.match = ns[n].match
  /\ ns2 = [ns EXCEPT ![n] = s2]
  /\ TypedOut(n, out)
  /\ \A x \in out : x.type = "VoteResp" /\ x.to = m.from /\ x.term = s2.term

LEMMA GrantSafe ==
  ASSUME NEW L, NEW V, NEW A, NEW ns, NEW M, NEW n, NEW m, NEW s2, NEW ns2, NEW out,
         Grants(L, V, A, ns, M, n, m, s2, ns2, out)
  PROVE  \E V2 : Safe(L, V2, A, ns2, M \union out) /\ Move(L, V, A, ns, L, V2, A, ns2)
<1> USE DEF Grants
<1> DEFINE s == ns[n]
           T == s.term
           c == m.from
           V2 == [V EXCEPT ![n] = [V[n] EXCEPT ![T] = c]]
<1>1. /\ T \in Nat /\ s.commit \in Nat /\ s.log \in Seq(Logged) /\ n \in Node
      /\ c \in Node /\ c # 0 /\ c \in Nat /\ s.match \in [Node -> Nat]
  <2>1. /\ T \in Nat /\ s.commit \in Nat /\ s.log \in Seq(Logged) /\ n \in Node
        /\ s.match \in [Node -> Nat]
    BY NodeFields
  <2>2. c \in Node
    BY MessageFields
  <2> QED
    BY <2>1, <2>2, NodeAssumption DEF Node
<1>2. /\ History(L, V, A) /\ LeaderLogs(L) /\ LaterLeaders(L, A, ns) /\ Accepted(L, A, ns)
      /\ SafeNode(L, V, A, ns, n) /\ SafeMessage(L, V, A, ns, m)
  BY DEF Safe
<1>3. SafeFollower(L, V, A, ns, n)
  BY <1>2 DEF SafeNode
<1>4. V[n][T] \in {0, c}
  BY <1>3 DEF SafeFollower
<1> HIDE DEF T, c
<1>5. /\ V2 \in [Node -> [Nat -> Nat]] /\ V2[n][T] = c
      /\ \A q \in Node \ {n} : V2[q] = V[q]
      /\ \A t \in Nat \ {T} : V2[n][t] = V[n][t]
  BY <1>1, <1>2 DEF History
<1> HIDE DEF V2
<1>6. History(L, V2, A)
  BY <1>2, <1>5 DEF History
<1>7. \A q \in Node : \A t \in Nat : V[q][t] # 0 => V2[q][t] = V[q][t]
  BY <1>4, <1>5
<1>8. /\ Move(L, V, A, ns, L, V2, A, ns2) /\ DOMAIN ns2 = DOMAIN ns /\ ns2[n] = s2
      /\ \A q \in DOMAIN ns \ {n} : ns2[q] = ns[q]
  <2>1. s2.term >= s.term /\ s2.commit >= s.commit
    BY <1>1 DEF T
  <2>2. Change(L, V, A, ns, n, s2, L, V2, A, ns2)
    BY <1>2, <1>6, <1>7, <2>1 DEF Change
  <2> QED
    BY <2>2, MoveIs
<1>9. s2.term = T /\ s2.vote = c
  BY DEF T, c
<1>10. SafeFollower(L, V2, A, ns2, n)
  <2>1. Covers(L, A, ns2, s.log, n, T)
    <3>1. Covers(L, A, ns, s.log, n, T)
      BY <1>3 DEF SafeFollower, T
    <3> QED
      BY <1>1, <1>2, <1>8, <3>1, CoversStays
  <2>2. Committed(L, A, s.log, s.commit, T)
    BY <1>3 DEF SafeFollower, T
  <2>3. /\ T >= 1 /\ Sound(L, s.log) /\ \A j \in 1..Len(s.log) : s.log[j].term \in 1..T
        /\ Same(s.log, L[T], A[n][T])
        /\ \A t \in Nat : t <= T => Len(s.log) >= A[n][t] \/ LastTerm(s.log) > t
    BY <1>3 DEF SafeFollower, T
  <2>4. V2[n][T] \in {0, s2.vote}
    BY <1>5, <1>9
  <2> QED
    BY <1>8, <1>9, <2>1, <2>2, <2>3, <2>4 DEF SafeFollower
<1>11. ASSUME s.role = "candidate" PROVE SafeCandidate(L, V2, A, ns2, n)
  <2>1. /\ V[n][T] = n /\ s.granted \subseteq Support(V, T, n) /\ T >= 2
        /\ \A q \in Support(V, T, n) : Covers(L, A, ns, s.log, q, T)
    BY <1>2, <1>11 DEF SafeNode, SafeCandidate, T
  <2>2. n # 0
    BY <1>1 DEF Node
  <2>3. c = n
    BY <1>4, <2>1, <2>2
  <2>4. Support(V2, T, n) = Support(V, T, n)
    <3>1. \A q \in Node : V2[q][T] = V[q][T]
      BY <1>1, <1>5, <2>1, <2>3
    <3> QED
      BY <3>1 DEF Support
  <2>5. ASSUME NEW q \in Support(V, T, n) PROVE Covers(L, A, ns2, s.log, q, T)
    <3>1. Covers(L, A, ns, s.log, q, T) /\ q \in Node
      BY <2>1 DEF Support
    <3> QED
      BY <1>1, <1>2, <1>8, <3>1, CoversStays
  <2> QED
    BY <1>5, <1>8, <1>9, <2>1, <2>3, <2>4, <2>5 DEF SafeCandidate
<1>12. ASSUME s.role = "leader" PROVE SafeLeader(L, V2, A, ns2, n)
  <2>1. /\ T >= 2 /\ IsMajority(Support(V, T, n)) /\ V[n][T] = n
        /\ s.log = L[T] /\ s.log # <<>> /\ \A q \in Node : s.match[q] <= A[q][T]
    BY <1>2, <1>12 DEF SafeNode, SafeLeader, T
  <2>2. n # 0
    BY <1>1 DEF Node
  <2>3. V2[n][T] = n
    BY <1>1, <1>7, <2>1, <2>2
  <2>4. IsMajority(Support(V2, T, n))
    BY <1>1, <1>8, <2>1, SupportStays
  <2> QED
    BY <1>8, <1>9, <2>1, <2>3, <2>4 DEF SafeLeader
<1>13. SafeNode(L, V2, A, ns2, n)
  BY <1>8, <1>10, <1>11, <1>12 DEF SafeNode
<1>14. ASSUME NEW x \in out PROVE SafeMessage(L, V2, A, ns2, x)
  BY <1>5, <1>9 DEF SafeMessage, TypedOut, c
<1>15. Reached(ns2, c, T)
  <2>1. Reached(ns, c, T)
    BY <1>2 DEF SafeMessage, T, c
  <2> QED
    BY <1>1, <1>8, <2>1, TermsStay
<1>16. ASSUME NEW q \in DOMAIN ns \ {n}, ns[q].role = "candidate",
              V2[n][ns[q].term] = q, V[n][ns[q].term] # q
       PROVE  Covers(L, A, ns2, ns[q].log, n, ns[q].term)
  <2>1. ns[q].term \in Nat /\ ns[q].log \in Seq(Logged)
    BY NodeFields
  <2>2. ns[q].term = T /\ q = c
    BY <1>5, <1>16, <2>1
  <2>3. m.last = LastTerm(ns[q].log) /\ m.index = Len(ns[q].log)
    BY <1>2, <1>16, <2>2 DEF SafeMessage, T, c
  <2>4. Sound(L, ns[q].log)
    BY DEF Safe, SafeNode, SafeFollower
  <2>5. Sound(L, s.log) /\ Covers(L, A, ns, s.log, n, T)
    BY <1>3 DEF SafeFollower, T
  <2>6. \/ LastTerm(ns[q].log) > LastTerm(s.log)
        \/ LastTerm(ns[q].log) = LastTerm(s.log) /\ Len(ns[q].log) >= Len(s.log)
    BY <2>3
  <2>7. ASSUME NEW t \in Nat, t < T, NEW i \in Nat, i <= A[n][t], Own(L, t, i)
        PROVE  Kept(L, A, ns, ns[q].log, t, i)
    <3>1. Kept(L, A, ns, s.log, t, i)
      BY <2>5, <2>7 DEF Covers
    <3> QED
      BY <1>1, <1>2, <2>1, <2>4, <2>5, <2>6, <2>7, <3>1, UpToDate
  <2>8. Covers(L, A, ns, ns[q].log, n, T)
    BY <2>7 DEF Covers
  <2> QED
    BY <1>1, <1>2, <1>8, <2>1, <2>2, <2>8, CoversStays
<1>17. StepOf(L, V, A, ns, L, V2, A, ns2, M, n, s2, out)
  <2>1. \A t \in Nat : \/ V2[n][t] = V[n][t]
                       \/ t = s2.term /\ V2[n][t] \in Node /\ Reached(ns2, V2[n][t], t)
    BY <1>1, <1>5, <1>9, <1>15
  <2> QED
    BY <1>5, <1>8, <1>13, <1>14, <1>16, <2>1 DEF StepOf, TypedOut
<1>18. Safe(L, V2, A, ns2, M \union out)
  BY <1>17, SameLogsSafe
<1> QED
  BY <1>8, <1>18

-----------------------------------------------------------------------------
(* What raft's handlers leave safe *)

LEMMA PrefixSound ==
  ASSUME NEW L, NEW V, NEW A, History(L, V, A), NEW a \in Seq(Logged), NEW b \in Seq(Logged),
         Same(a, b, Len(a)), Sound(L, b)
  PROVE  Sound(L, a)
<1>1. ASSUME NEW j \in 1..Len(a) PROVE Same(a, L[a[j].term], j)
  <2>1. Len(a) \in Nat /\ Len(b) \in Nat /\ j \in Nat /\ j <= Len(a)
    BY LenProperties
  <2>2. j \in 1..Len(b) /\ a[j] = b[j] /\ Same(a, b, j)
    BY <2>1 DEF Same
  <2>3. Same(b, L[b[j].term], j) /\ b[j].term \in Nat
    BY <2>2, EntryOf DEF Sound
  <2>4. L[b[j].term] \in Seq(Logged)
    BY <2>3, HistoryIs
  <2> QED
    BY <2>1, <2>2, <2>3, <2>4, SameIs
<1> QED
  BY <1>1 DEF Sound

\* Entries of one term at one index are the same, and so is what precedes them.
LEMMA SameTerm ==
  ASSUME NEW L, NEW V, NEW A, History(L, V, A), NEW a \in Seq(Logged), NEW b \in Seq(Logged),
         Sound(L, a), Sound(L, b), NEW i \in 1..Len(a), i <= Len(b), a[i].term = b[i].term
  PROVE  Same(a, b, i)
<1>1. Len(a) \in Nat /\ Len(b) \in Nat /\ i \in 1..Len(b) /\ i \in Nat /\ a[i].term \in Nat
  BY EntryOf
<1>2. Same(a, L[a[i].term], i) /\ Same(b, L[a[i].term], i) /\ L[a[i].term] \in Seq(Logged)
  BY <1>1, HistoryIs DEF Sound
<1> QED
  BY <1>1, <1>2, SameIs

LEMMA MergedSound ==
  ASSUME NEW L, NEW V, NEW A, History(L, V, A), NEW mine \in Seq(Logged), NEW theirs \in Seq(Logged),
         Sound(L, mine), Sound(L, theirs)
  PROVE  \/ Merged(mine, theirs) = mine /\ Same(mine, theirs, Len(theirs))
         \/ /\ Merged(mine, theirs) = theirs
            /\ \E k \in 1..Len(theirs) : ~Same(mine, theirs, k)
<1> DEFINE new == Merged(mine, theirs)
<1>1. Len(mine) \in Nat /\ Len(theirs) \in Nat
  BY LenProperties
<1>2. /\ new \in Seq(Logged)
      /\ \/ /\ new = mine
            /\ \A i \in 1..Len(theirs) : i <= Len(mine) /\ mine[i].term = theirs[i].term
         \/ \E k \in 1..Len(theirs) :
              /\ k - 1 <= Len(mine) /\ (k > Len(mine) \/ mine[k].term # theirs[k].term)
              /\ \A i \in 1..(k - 1) : mine[i].term = theirs[i].term
              /\ Len(new) = Len(theirs)
              /\ \A i \in 1..Len(theirs) : new[i] = IF i < k THEN mine[i] ELSE theirs[i]
  BY MergedIs
<1> HIDE DEF new
<1>3. ASSUME NEW i \in 1..Len(theirs), i <= Len(mine), mine[i].term = theirs[i].term
      PROVE  mine[i] = theirs[i]
  <2>1. i \in 1..Len(mine) /\ i <= Len(theirs) /\ i \in Nat
    BY <1>1, <1>3
  <2>2. Same(mine, theirs, i)
    BY <1>3, <2>1, SameTerm
  <2> QED
    BY <2>1, <2>2 DEF Same
<1>4. CASE /\ new = mine
           /\ \A i \in 1..Len(theirs) : i <= Len(mine) /\ mine[i].term = theirs[i].term
  <2>1. Len(theirs) <= Len(mine)
    <3>1. CASE Len(theirs) = 0
      BY <1>1, <3>1
    <3>2. CASE Len(theirs) # 0
      <4>1. Len(theirs) \in 1..Len(theirs)
        BY <1>1, <3>2
      <4> QED
        BY <1>4, <4>1
    <3> QED
      BY <3>1, <3>2
  <2>2. Same(mine, theirs, Len(theirs))
    BY <1>1, <1>3, <1>4, <2>1 DEF Same
  <2> QED
    BY <1>4, <2>2 DEF new
<1>5. CASE \E k \in 1..Len(theirs) :
             /\ k - 1 <= Len(mine) /\ (k > Len(mine) \/ mine[k].term # theirs[k].term)
             /\ \A i \in 1..(k - 1) : mine[i].term = theirs[i].term
             /\ Len(new) = Len(theirs)
             /\ \A i \in 1..Len(theirs) : new[i] = IF i < k THEN mine[i] ELSE theirs[i]
  <2>1. PICK k \in 1..Len(theirs) :
          /\ k - 1 <= Len(mine) /\ (k > Len(mine) \/ mine[k].term # theirs[k].term)
          /\ \A i \in 1..(k - 1) : mine[i].term = theirs[i].term
          /\ Len(new) = Len(theirs)
          /\ \A i \in 1..Len(theirs) : new[i] = IF i < k THEN mine[i] ELSE theirs[i]
    BY <1>5
  <2>2. ASSUME NEW i \in 1..Len(theirs) PROVE new[i] = theirs[i]
    <3>1. CASE i < k
      <4>1. i \in 1..(k - 1) /\ i <= Len(mine)
        BY <1>1, <2>1, <3>1
      <4> QED
        BY <1>3, <2>1, <3>1, <4>1
    <3>2. CASE ~(i < k)
      BY <2>1, <3>2
    <3> QED
      BY <3>1, <3>2
  <2>3. new = theirs
    BY <1>2, <2>1, <2>2, SeqEqual
  <2>4. ~Same(mine, theirs, k)
    BY <1>1, <2>1 DEF Same
  <2> QED
    BY <2>3, <2>4 DEF new
<1> QED
  BY <1>2, <1>4, <1>5

\* What is chosen cannot be lost.
LEMMA ChosenIsNotLost ==
  ASSUME NEW L, NEW V, NEW A, NEW ns, History(L, V, A), NEW t \in Nat, NEW i, Chosen(L, A, t, i)
  PROVE  ~Lost(A, ns, t, i)
<1>1. ASSUME Lost(A, ns, t, i) PROVE FALSE
  <2> DEFINE S == {q \in Node : A[q][t] < i /\ Gone(ns, q, t)}
             T == Holders(A, t, i)
  <2>1. S \in SUBSET Node /\ T \in SUBSET Node /\ IsMajority(S) /\ IsMajority(T)
    BY <1>1 DEF Lost, Chosen, Holders
  <2>2. PICK q \in Node : q \in S /\ q \in T
    <3> HIDE DEF S, T
    <3> QED
      BY <2>1, MajoritiesMeet
  <2>3. A[q][t] < i /\ A[q][t] >= i /\ A[q][t] \in Nat /\ i \in Nat
    BY <2>2, HistoryIs DEF Holders, Chosen, Own
  <2> QED
    BY <2>3
<1> QED
  BY <1>1

\* A log that agrees with the leader's up to an entry of its term has what the
\* earlier leaders' logs have.
LEMMA LeadersLogCovers ==
  ASSUME NEW L, NEW V, NEW A, NEW ns, History(L, V, A), LeaderLogs(L), LaterLeaders(L, A, ns),
         NEW T \in Nat, NEW log \in Seq(Logged), NEW k \in 1..Len(log), Same(log, L[T], k),
         log[k].term = T, NEW t \in Nat, t < T, NEW i \in Nat, Own(L, t, i)
  PROVE  Kept(L, A, ns, log, t, i)
<1>1. /\ L[T] \in Seq(Logged) /\ L[t] \in Seq(Logged) /\ Len(L[T]) \in Nat /\ Len(L[t]) \in Nat
      /\ k \in Nat /\ k >= 1 /\ Len(log) \in Nat
  BY HistoryIs, LenProperties
<1>2. k \in 1..Len(L[T]) /\ L[T][k].term = T
  BY <1>1 DEF Same
<1>3. L[T] # <<>>
  BY <1>1, <1>2, EntryOf
<1>4. Kept(L, A, ns, L[T], t, i)
  BY <1>3 DEF LaterLeaders
<1>5. ASSUME Same(L[T], L[t], i) PROVE Same(log, L[t], i)
  <2>1. ASSUME i >= k PROVE FALSE
    <3>1. L[T][k] = L[t][k] /\ k \in 1..Len(L[t])
      BY <1>1, <1>5, <2>1 DEF Same
    <3>2. L[t][k].term \in 1..t
      BY <3>1 DEF LeaderLogs
    <3> QED
      BY <1>2, <3>1, <3>2
  <2>2. i <= k
    BY <1>1, <2>1
  <2> QED
    BY <1>1, <1>5, <2>2, SameIs
<1> QED
  BY <1>4, <1>5 DEF Kept

LEMMA CommittedPrefix ==
  ASSUME NEW L, NEW V, NEW A, History(L, V, A), NEW a \in Seq(Logged), NEW b \in Seq(Logged),
         NEW c \in Nat, NEW T \in Nat, Committed(L, A, a, c, T), Same(b, a, c)
  PROVE  Committed(L, A, b, c, T)
<1>1. PICK t \in 1..T : \E i \in 1..Len(L[t]) : c <= i /\ Chosen(L, A, t, i) /\ Same(a, L[t], c)
  BY DEF Committed
<1>2. L[t] \in Seq(Logged)
  BY HistoryIs
<1>3. c <= Len(b) /\ (Same(a, L[t], c) => Same(b, L[t], c))
  BY <1>2, SameIs
<1> QED
  BY <1>1, <1>3 DEF Committed

\* What a leader sends is what its term has.
LEMMA LeaderAppends ==
  ASSUME NEW L, NEW V, NEW A, NEW ns, History(L, V, A), LeaderLogs(L), TypedNodes(ns),
         NEW n \in DOMAIN ns, SafeNode(L, V, A, ns, n), ns[n].role = "leader",
         NEW x \in Appends(n, ns[n])
  PROVE  SafeMessage(L, V, A, ns, x)
<1> DEFINE s == ns[n]
<1>1. s.term \in Nat /\ s.log \in Seq(Logged) /\ Len(s.log) \in Nat
  <2>1. s.term \in Nat /\ s.log \in Seq(Logged)
    BY NodeFields
  <2> QED
    BY <2>1, LenProperties
<1>2. x.type = "App" /\ x.term = s.term /\ x.log = s.log /\ x.commit = s.commit
  BY DEF Appends
<1>3. s.log = L[s.term] /\ s.log # <<>> /\ Committed(L, A, s.log, s.commit, s.term)
  BY DEF SafeNode, SafeLeader, SafeFollower
<1> HIDE DEF s
<1>4. LastTerm(s.log) = s.term
  BY <1>1, <1>3 DEF LeaderLogs, LastTerm
<1>5. Same(s.log, L[s.term], Len(s.log))
  <2>1. Len(s.log) <= Len(s.log)
    BY <1>1
  <2> QED
    BY <1>1, <1>3, <2>1, SameSelf
<1> QED
  BY <1>2, <1>3, <1>4, <1>5 DEF SafeMessage

\* A node whose log and term stay.
LEMMA FollowerStays ==
  ASSUME NEW L, NEW V, NEW A, NEW ns, NEW ns2, Move(L, V, A, ns, L, V, A, ns2), Accepted(L, A, ns),
         NEW n \in DOMAIN ns, n \in DOMAIN ns2, SafeFollower(L, V, A, ns, n),
         ns2[n].term = ns[n].term, ns2[n].log = ns[n].log, ns2[n].vote = ns[n].vote,
         Committed(L, A, ns2[n].log, ns2[n].commit, ns2[n].term)
  PROVE  SafeFollower(L, V, A, ns2, n)
<1> DEFINE s == ns[n]
<1>1. n \in Node /\ s.term \in Nat /\ s.log \in Seq(Logged)
  BY NodeFields DEF Move
<1>2. Covers(L, A, ns, s.log, n, s.term)
  BY DEF SafeFollower
<1>3. Covers(L, A, ns2, s.log, n, s.term)
  BY <1>1, <1>2, CoversStays
<1> QED
  BY <1>3 DEF SafeFollower

\* A candidate counts the vote m and becomes s2.
Counts(L, V, A, ns, M, n, m, s2, ns2) ==
  /\ M \subseteq Message /\ Safe(L, V, A, ns, M) /\ TypedNodes(ns)
  /\ n \in DOMAIN ns /\ m \in M /\ m.type = "VoteResp" /\ m.term = ns[n].term /\ m.to = n
  /\ ns[n].role = "candidate"
  /\ Typed(s2) /\ s2.term = ns[n].term /\ s2.role = "candidate" /\ s2.vote = ns[n].vote
  /\ s2.granted = ns[n].granted \union {m.from}
  /\ s2.log = ns[n].log /\ s2.commit = ns[n].commit
  /\ ns2 = [ns EXCEPT ![n] = s2]

LEMMA CountSafe ==
  ASSUME NEW L, NEW V, NEW A, NEW ns, NEW M, NEW n, NEW m, NEW s2, NEW ns2,
         Counts(L, V, A, ns, M, n, m, s2, ns2)
  PROVE  Safe(L, V, A, ns2, M) /\ Move(L, V, A, ns, L, V, A, ns2)
<1> USE DEF Counts
<1> DEFINE s == ns[n]
           T == s.term
<1>1. T \in Nat /\ s.commit \in Nat /\ s.log \in Seq(Logged) /\ n \in Node /\ m.from \in Node
  BY NodeFields, MessageFields
<1>2. /\ History(L, V, A) /\ Accepted(L, A, ns)
      /\ SafeNode(L, V, A, ns, n) /\ SafeMessage(L, V, A, ns, m)
  BY DEF Safe
<1>3. SafeFollower(L, V, A, ns, n) /\ SafeCandidate(L, V, A, ns, n)
  BY <1>2 DEF SafeNode
<1>4. /\ Move(L, V, A, ns, L, V, A, ns2) /\ DOMAIN ns2 = DOMAIN ns /\ ns2[n] = s2
      /\ \A q \in DOMAIN ns \ {n} : ns2[q] = ns[q]
  <2>1. s2.term >= s.term /\ s2.commit >= s.commit
    BY <1>1
  <2>2. Change(L, V, A, ns, n, s2, L, V, A, ns2)
    BY <1>2, <2>1 DEF Change
  <2> QED
    BY <2>2, MoveIs
<1>5. SafeFollower(L, V, A, ns2, n)
  <2>1. Committed(L, A, s.log, s.commit, s.term)
    BY <1>3 DEF SafeFollower
  <2> QED
    BY <1>2, <1>3, <1>4, <2>1, FollowerStays
<1>6. SafeCandidate(L, V, A, ns2, n)
  <2>1. /\ V[n][T] = n /\ s.granted \subseteq Support(V, T, n) /\ T >= 2
        /\ \A q \in Support(V, T, n) : Covers(L, A, ns, s.log, q, T)
    BY <1>3 DEF SafeCandidate
  <2>2. m.from \in Support(V, T, n)
    BY <1>1, <1>2 DEF SafeMessage, Support
  <2>3. ASSUME NEW q \in Support(V, T, n) PROVE Covers(L, A, ns2, s.log, q, T)
    <3>1. Covers(L, A, ns, s.log, q, T) /\ q \in Node
      BY <2>1 DEF Support
    <3> QED
      BY <1>1, <1>2, <1>4, <3>1, CoversStays
  <2> QED
    BY <1>4, <2>1, <2>2, <2>3 DEF SafeCandidate
<1>7. SafeNode(L, V, A, ns2, n)
  BY <1>4, <1>5, <1>6 DEF SafeNode
<1>8. StepOf(L, V, A, ns, L, V, A, ns2, M, n, s2, {})
  BY <1>4, <1>7 DEF StepOf
<1>9. Safe(L, V, A, ns2, M \union {})
  BY <1>8, SameLogsSafe
<1> QED
  BY <1>4, <1>9

\* A leader learns what a node accepted, commits what a majority has, and
\* becomes s2.
Confirms(L, V, A, ns, M, n, m, s2, ns2, out) ==
  /\ M \subseteq Message /\ Safe(L, V, A, ns, M) /\ TypedNodes(ns)
  /\ n \in DOMAIN ns /\ m \in M /\ m.type = "AppResp" /\ m.term = ns[n].term /\ m.to = n
  /\ ns[n].role = "leader"
  /\ Typed(s2) /\ s2.term = ns[n].term /\ s2.role = "leader" /\ s2.vote = ns[n].vote
  /\ s2.log = ns[n].log
  /\ \A q \in Node : s2.match[q] = ns[n].match[q] \/ (q = m.from /\ s2.match[q] = m.index)
  /\ s2.commit >= ns[n].commit
  /\ s2.commit = ns[n].commit \/ s2.commit \in Committable(s2)
  /\ ns2 = [ns EXCEPT ![n] = s2]
  /\ TypedOut(n, out) /\ out \subseteq Appends(n, s2)

LEMMA ConfirmSafe ==
  ASSUME NEW L, NEW V, NEW A, NEW ns, NEW M, NEW n, NEW m, NEW s2, NEW ns2, NEW out,
         Confirms(L, V, A, ns, M, n, m, s2, ns2, out)
  PROVE  Safe(L, V, A, ns2, M \union out) /\ Move(L, V, A, ns, L, V, A, ns2)
<1> USE DEF Confirms
<1> DEFINE s == ns[n]
           T == s.term
<1>1. /\ T \in Nat /\ s.commit \in Nat /\ s.log \in Seq(Logged) /\ n \in Node /\ m.from \in Node
      /\ DOMAIN s.log = 1..Len(s.log) /\ Len(s.log) \in Nat
  <2>1. T \in Nat /\ s.commit \in Nat /\ s.log \in Seq(Logged) /\ n \in Node /\ m.from \in Node
    BY NodeFields, MessageFields
  <2> QED
    BY <2>1, EntryOf
<1>2. /\ History(L, V, A) /\ Accepted(L, A, ns) /\ LeaderLogs(L)
      /\ SafeNode(L, V, A, ns, n) /\ SafeMessage(L, V, A, ns, m)
  BY DEF Safe
<1>3. SafeFollower(L, V, A, ns, n) /\ SafeLeader(L, V, A, ns, n)
  BY <1>2 DEF SafeNode
<1>4. /\ Move(L, V, A, ns, L, V, A, ns2) /\ DOMAIN ns2 = DOMAIN ns /\ ns2[n] = s2
      /\ \A q \in DOMAIN ns \ {n} : ns2[q] = ns[q]
  <2>1. s2.term >= s.term
    BY <1>1
  <2>2. Change(L, V, A, ns, n, s2, L, V, A, ns2)
    BY <1>2, <2>1 DEF Change
  <2> QED
    BY <2>2, MoveIs
<1>5. ASSUME NEW q \in Node PROVE s2.match[q] <= A[q][T]
  BY <1>2, <1>3, <1>5 DEF SafeLeader, SafeMessage
<1>6. Committed(L, A, s2.log, s2.commit, s2.term)
  <2>1. CASE s2.commit = s.commit
    BY <1>3, <2>1 DEF SafeFollower
  <2>2. CASE s2.commit \in Committable(s2)
    <3> DEFINE i == s2.commit
    <3>1. /\ i \in 1..Len(s.log) /\ s.log[i].term = T /\ IsMajority({q \in Node : s2.match[q] >= i})
      BY <1>1, <2>2 DEF Committable
    <3>2. s.log = L[T] /\ T >= 2
      BY <1>3 DEF SafeLeader
    <3>3. Own(L, T, i)
      BY <3>1, <3>2 DEF Own
    <3>4. {q \in Node : s2.match[q] >= i} \subseteq Holders(A, T, i)
      <4>1. ASSUME NEW q \in Node, s2.match[q] >= i PROVE A[q][T] >= i
        <5>1. s2.match[q] \in Nat /\ A[q][T] \in Nat /\ i \in Nat
          <6>1. s2.match \in [Node -> Nat]
            BY NodeStateIs DEF Typed
          <6> QED
            BY <1>1, <1>2, <3>1, <6>1, HistoryIs
        <5> QED
          BY <1>5, <4>1, <5>1
      <4> QED
        BY <4>1 DEF Holders
    <3>5. Chosen(L, A, T, i)
      <4>1. Holders(A, T, i) \in SUBSET Node
        BY DEF Holders
      <4> QED
        BY <3>1, <3>3, <3>4, <4>1, MajorityGrows DEF Chosen
    <3>6. Same(s.log, L[T], i) /\ i <= Len(s.log)
      BY <1>1, <3>1, <3>2, SameSelf
    <3>7. T \in 1..T /\ i \in 1..Len(L[T]) /\ i <= i
      BY <1>1, <3>1, <3>2
    <3> QED
      BY <3>5, <3>6, <3>7 DEF Committed
  <2> QED
    BY <2>1, <2>2
<1>7. SafeFollower(L, V, A, ns2, n)
  BY <1>2, <1>3, <1>4, <1>6, FollowerStays
<1>8. SafeLeader(L, V, A, ns2, n)
  BY <1>3, <1>4, <1>5 DEF SafeLeader
<1>9. SafeNode(L, V, A, ns2, n)
  BY <1>4, <1>7, <1>8 DEF SafeNode
<1>10. ASSUME NEW x \in out PROVE SafeMessage(L, V, A, ns2, x)
  <2>1. TypedNodes(ns2)
    BY <1>4 DEF Move
  <2> QED
    BY <1>2, <1>4, <1>9, <2>1, LeaderAppends
<1>11. StepOf(L, V, A, ns, L, V, A, ns2, M, n, s2, out)
  BY <1>4, <1>9, <1>10 DEF StepOf, TypedOut
<1>12. Safe(L, V, A, ns2, M \union out)
  BY <1>11, SameLogsSafe
<1> QED
  BY <1>4, <1>12

\* A log after the leader's was merged into it.
LEMMA MergedFollows ==
  ASSUME NEW L, NEW V, NEW A, NEW ns, History(L, V, A), LeaderLogs(L), LaterLeaders(L, A, ns),
         NEW T \in Nat, NEW mine \in Seq(Logged), NEW theirs \in Seq(Logged), Sound(L, mine),
         \A j \in 1..Len(mine) : mine[j].term \in 1..T,
         theirs # <<>>, Same(theirs, L[T], Len(theirs)), LastTerm(theirs) = T,
         NEW new, new = Merged(mine, theirs)
  PROVE  /\ new \in Seq(Logged) /\ Sound(L, new) /\ \A j \in 1..Len(new) : new[j].term \in 1..T
         /\ Same(new, L[T], Len(theirs)) /\ LastTerm(new) >= T
         /\ \A c \in Nat : Same(mine, L[T], c) => Same(new, L[T], c)
         /\ \A t \in Nat : t < T => \A i \in Nat : Own(L, t, i) => Kept(L, A, ns, new, t, i)
<1> DEFINE k == Len(theirs)
<1>1. /\ k \in Nat /\ k \in 1..k /\ theirs[k].term = T /\ Len(mine) \in Nat
      /\ L[T] \in Seq(Logged) /\ Len(L[T]) \in Nat
  BY EntryOf, HistoryIs
<1>2. Sound(L, L[T])
  BY DEF LeaderLogs
<1>3. Sound(L, theirs)
  BY <1>1, <1>2, PrefixSound
<1>4. \/ new = mine /\ Same(mine, theirs, k)
      \/ new = theirs /\ \E j \in 1..k : ~Same(mine, theirs, j)
  BY <1>3, MergedSound
<1>5. new \in Seq(Logged) /\ Sound(L, new)
  BY <1>3, <1>4
<1>6. Same(new, theirs, k)
  <2>1. k <= k
    BY <1>1
  <2> QED
    BY <1>1, <1>4, <2>1, SameSelf
<1> HIDE DEF k
<1>7. Same(new, L[T], k)
  <2>1. Same(theirs, L[T], k) /\ k <= k
    BY <1>1 DEF k
  <2> QED
    BY <1>1, <1>5, <1>6, <2>1, SameIs
<1>8. \A j \in 1..Len(new) : new[j].term \in 1..T
  <2>1. ASSUME NEW j \in 1..k PROVE theirs[j].term \in 1..T
    <3>1. theirs[j] = L[T][j] /\ j \in 1..Len(L[T])
      BY <1>1 DEF Same, k
    <3> QED
      BY <3>1 DEF LeaderLogs
  <2> QED
    BY <1>4, <2>1 DEF k
<1>9. k \in 1..Len(new) /\ new[k].term = T /\ Len(new) \in Nat
  <2>1. Len(new) \in Nat
    BY <1>5, LenProperties
  <2> QED
    BY <1>1, <1>6, <2>1 DEF Same
<1>10. LastTerm(new) >= T
  <2>1. k <= k
    BY <1>1
  <2> QED
    BY <1>5, <1>9, <2>1, SoundTerms
<1>11. ASSUME NEW c \in Nat, Same(mine, L[T], c) PROVE Same(new, L[T], c)
  <2>1. CASE new = mine
    BY <1>11, <2>1
  <2>2. CASE new = theirs /\ \E j \in 1..k : ~Same(mine, theirs, j)
    <3>1. PICK j \in 1..k : ~Same(mine, theirs, j)
      BY <2>2
    <3>2. ASSUME c >= k PROVE FALSE
      <4>1. j \in Nat /\ j <= k /\ j <= c /\ j <= Len(L[T])
        BY <1>1, <1>7, <3>2 DEF Same
      <4>2. Same(theirs, L[T], j) /\ Same(mine, L[T], j)
        BY <1>1, <1>5, <1>7, <1>11, <2>2, <4>1, SameIs
      <4>3. Same(L[T], theirs, j)
        BY <1>1, <4>1, <4>2, SameIs
      <4>4. j <= j
        BY <4>1
      <4> QED
        BY <1>1, <3>1, <4>1, <4>2, <4>3, <4>4, SameIs
    <3>3. c <= k
      BY <1>1, <3>2
    <3> QED
      BY <1>1, <1>5, <1>7, <3>3, SameIs
  <2> QED
    BY <1>4, <2>1, <2>2
<1>12. ASSUME NEW t \in Nat, t < T, NEW i \in Nat, Own(L, t, i) PROVE Kept(L, A, ns, new, t, i)
  <2>1. Same(new, L[T], k)
    BY <1>7
  <2> QED
    BY <1>5, <1>9, <1>12, <2>1, LeadersLogCovers
<1> QED
  BY <1>5, <1>7, <1>8, <1>10, <1>11, <1>12 DEF k

\* What was committed remains.
LEMMA CommittedFollows ==
  ASSUME NEW L, NEW V, NEW A, NEW ns, History(L, V, A), NEW T \in Nat, NEW mine \in Seq(Logged),
         NEW new \in Seq(Logged),
         \A c \in Nat : Same(mine, L[T], c) => Same(new, L[T], c),
         \A t \in Nat : t < T => \A i \in Nat : Own(L, t, i) => Kept(L, A, ns, new, t, i),
         NEW c \in Nat, Committed(L, A, mine, c, T)
  PROVE  Committed(L, A, new, c, T)
<1>1. PICK t \in 1..T : \E i \in 1..Len(L[t]) : c <= i /\ Chosen(L, A, t, i) /\ Same(mine, L[t], c)
  BY DEF Committed
<1>2. PICK i \in 1..Len(L[t]) : c <= i /\ Chosen(L, A, t, i) /\ Same(mine, L[t], c)
  BY <1>1
<1>3. t \in Nat /\ L[t] \in Seq(Logged) /\ i \in Nat /\ Len(new) \in Nat
  BY HistoryIs, LenProperties
<1>4. Same(new, L[t], c)
  <2>1. CASE t = T
    BY <1>2, <2>1
  <2>2. CASE t # T
    <3>1. Kept(L, A, ns, new, t, i)
      BY <1>2, <1>3, <2>2 DEF Chosen
    <3>2. ~Lost(A, ns, t, i)
      BY <1>2, <1>3, ChosenIsNotLost
    <3>3. Same(new, L[t], i)
      BY <3>1, <3>2 DEF Kept
    <3> QED
      BY <1>2, <1>3, <3>3, SameIs
  <2> QED
    BY <2>1, <2>2
<1>5. c <= Len(new)
  BY <1>4 DEF Same
<1> QED
  BY <1>2, <1>4, <1>5 DEF Committed

\* A node follows the leader of its term, acknowledges and becomes s2.
Follows(L, V, A, ns, M, n, m, s2, ns2, out) ==
  /\ M \subseteq Message /\ Safe(L, V, A, ns, M) /\ TypedNodes(ns)
  /\ n \in DOMAIN ns /\ m \in M /\ m.type = "App" /\ m.term = ns[n].term
  /\ ns[n].role # "leader"
  /\ Typed(s2) /\ s2.term = ns[n].term /\ s2.role = "follower"
  /\ ns[n].vote # 0 => s2.vote = ns[n].vote
  /\ s2.log = Merged(ns[n].log, m.log)
  /\ s2.commit = Max({ns[n].commit, Min({m.commit, Len(m.log)})})
  /\ ns2 = [ns EXCEPT ![n] = s2]
  /\ TypedOut(n, out)
  /\ \A x \in out : x.type = "AppResp" /\ x.term = s2.term /\ x.index = Len(m.log)

LEMMA FollowSafe ==
  ASSUME NEW L, NEW V, NEW A, NEW ns, NEW M, NEW n, NEW m, NEW s2, NEW ns2, NEW out,
         Follows(L, V, A, ns, M, n, m, s2, ns2, out)
  PROVE  \E A2 : Safe(L, V, A2, ns2, M \union out) /\ Move(L, V, A, ns, L, V, A2, ns2)
<1> USE DEF Follows
<1> DEFINE s == ns[n]
           T == s.term
           k == Len(m.log)
           a == A[n][T]
           a2 == IF a >= k THEN a ELSE k
           A2 == [A EXCEPT ![n] = [A[n] EXCEPT ![T] = a2]]
           new == s2.log
<1>1. /\ T \in Nat /\ s.commit \in Nat /\ s.log \in Seq(Logged) /\ n \in Node
      /\ m.log \in Seq(Logged) /\ m.commit \in Nat
  <2>1. T \in Nat /\ s.commit \in Nat /\ s.log \in Seq(Logged) /\ n \in Node
    BY NodeFields
  <2> QED
    BY <2>1, MessageFields, LogsAreLogged
<1>2. /\ History(L, V, A) /\ Accepted(L, A, ns) /\ LeaderLogs(L) /\ LaterLeaders(L, A, ns)
      /\ SafeNode(L, V, A, ns, n) /\ SafeMessage(L, V, A, ns, m)
  BY DEF Safe
<1>3. SafeFollower(L, V, A, ns, n)
  BY <1>2 DEF SafeNode
<1>4. /\ k \in Nat /\ a \in Nat /\ L[T] \in Seq(Logged) /\ Len(L[T]) \in Nat /\ a2 \in Nat /\ a2 >= a
      /\ a2 >= k /\ a2 \in {a, k}
  <2>1. k \in Nat /\ a \in Nat /\ L[T] \in Seq(Logged) /\ Len(L[T]) \in Nat
    BY <1>1, <1>2, HistoryIs, LenProperties
  <2> QED
    BY <2>1
<1>5. /\ m.log # <<>> /\ Same(m.log, L[T], k) /\ LastTerm(m.log) = T
      /\ Committed(L, A, m.log, m.commit, T)
  BY <1>2 DEF SafeMessage
<1>6. /\ T >= 1 /\ Sound(L, s.log) /\ \A j \in 1..Len(s.log) : s.log[j].term \in 1..T
      /\ V[n][T] \in {0, s.vote} /\ Same(s.log, L[T], a)
      /\ Committed(L, A, s.log, s.commit, T)
      /\ \A t \in Nat : t <= T => Len(s.log) >= A[n][t] \/ LastTerm(s.log) > t
  BY <1>3 DEF SafeFollower
<1> HIDE DEF T, k, a, a2, s
<1>7. /\ new \in Seq(Logged) /\ Sound(L, new) /\ \A j \in 1..Len(new) : new[j].term \in 1..T
      /\ Same(new, L[T], k) /\ LastTerm(new) >= T
      /\ \A c \in Nat : Same(s.log, L[T], c) => Same(new, L[T], c)
      /\ \A t \in Nat : t < T => \A i \in Nat : Own(L, t, i) => Kept(L, A, ns, new, t, i)
  <2>1. new = Merged(s.log, m.log)
    BY DEF s
  <2>2. Same(m.log, L[T], Len(m.log))
    BY <1>5 DEF k
  <2>3. /\ Sound(L, s.log) /\ \A j \in 1..Len(s.log) : s.log[j].term \in 1..T
        /\ m.log # <<>> /\ LastTerm(m.log) = T
    BY <1>5, <1>6
  <2>4. History(L, V, A) /\ LeaderLogs(L) /\ LaterLeaders(L, A, ns)
    BY <1>2
  <2> HIDE DEF new
  <2> QED
    BY <1>1, <2>1, <2>2, <2>3, <2>4, MergedFollows DEF k
<1> HIDE DEF new
<1>8. /\ A2 \in [Node -> [Nat -> Nat]] /\ A2[n][T] = a2
      /\ \A q \in Node \ {n} : A2[q] = A[q]
      /\ \A t \in Nat \ {T} : A2[n][t] = A[n][t]
  BY <1>1, <1>2, <1>4 DEF History
<1> HIDE DEF A2
<1>9. History(L, V, A2)
  BY <1>2, <1>8 DEF History
<1>10. s2.commit \in Nat /\ s2.commit >= s.commit /\ s2.commit \in {s.commit, m.commit}
  <2>1. m.commit <= k
    BY <1>5 DEF Committed, k
  <2>2. Min({m.commit, k}) = m.commit
    BY <1>1, <1>4, <2>1, MaxOfTwo
  <2>3. s2.commit = Max({s.commit, m.commit})
    BY <2>2 DEF k, s
  <2> QED
    BY <1>1, <2>3, MaxOfTwo
<1>11. /\ Move(L, V, A, ns, L, V, A2, ns2) /\ DOMAIN ns2 = DOMAIN ns /\ ns2[n] = s2
       /\ \A q \in DOMAIN ns \ {n} : ns2[q] = ns[q]
  <2>1. s2.term >= s.term /\ s2.commit >= s.commit
    BY <1>1, <1>10 DEF s, T
  <2>2. ASSUME NEW q \in Node, NEW t \in Nat, A2[q][t] # A[q][t]
        PROVE  q = n /\ t = ns[n].term /\ A2[n][t] >= A[n][t]
    BY <1>1, <1>4, <1>8, <2>2 DEF T, a, s
  <2>3. Change(L, V, A, ns, n, s2, L, V, A2, ns2)
    BY <1>2, <1>9, <2>1, <2>2 DEF Change, s
  <2> QED
    BY <2>3, MoveIs
<1>12. s2.term = T
  BY DEF T, s
<1>13. Same(new, L[T], a2)
  BY <1>4, <1>6, <1>7
<1>14. Covers(L, A2, ns2, new, n, T)
  <2>1. Covers(L, A, ns, new, n, T)
    BY <1>7 DEF Covers
  <2>2. \A t \in Nat : t < T => A2[n][t] = A[n][t]
    BY <1>1, <1>8
  <2> QED
    BY <1>1, <1>2, <1>7, <1>11, <2>1, <2>2, CoversStays
<1>15. ASSUME NEW t \in Nat, t <= T PROVE Len(new) >= A2[n][t] \/ LastTerm(new) > t
  <2>1. CASE t = T
    <3>1. Len(new) \in Nat
      BY <1>7, LenProperties
    <3> QED
      BY <1>4, <1>8, <1>13, <2>1, <3>1 DEF Same
  <2>2. CASE t # T
    <3>1. LastTerm(new) \in Nat
      BY <1>7, EntryOf
    <3> QED
      BY <1>1, <1>7, <1>15, <2>2, <3>1
  <2> QED
    BY <2>1, <2>2
<1>16. Committed(L, A2, new, s2.commit, T)
  <2>1. Committed(L, A, new, s.commit, T)
    BY <1>1, <1>2, <1>6, <1>7, CommittedFollows
  <2>2. Committed(L, A, new, m.commit, T)
    <3>1. Same(new, m.log, m.commit)
      <4>1. m.commit <= k /\ k <= k
        BY <1>4, <1>5 DEF Committed, k
      <4>2. Same(L[T], m.log, k)
        BY <1>1, <1>4, <1>5, SameIs
      <4>3. Same(new, m.log, k)
        BY <1>1, <1>4, <1>7, <4>1, <4>2, SameIs
      <4> QED
        BY <1>1, <1>4, <1>7, <4>1, <4>3, SameIs
    <3> QED
      BY <1>1, <1>2, <1>5, <1>7, <3>1, CommittedPrefix
  <2>3. T <= T
    BY <1>1
  <2>4. Committed(L, A, new, s2.commit, T)
    BY <1>10, <2>1, <2>2
  <2> QED
    BY <1>1, <1>7, <1>10, <1>11, <2>3, <2>4, CommittedStays
<1>17. SafeFollower(L, V, A2, ns2, n)
  <2>1. V[n][T] \in {0, s2.vote}
    <3>1. s.vote # 0 => s2.vote = s.vote
      BY DEF s
    <3> QED
      BY <1>6, <3>1
  <2> QED
    BY <1>6, <1>7, <1>8, <1>11, <1>12, <1>13, <1>14, <1>15, <1>16, <2>1 DEF SafeFollower, new
<1>18. SafeNode(L, V, A2, ns2, n)
  BY <1>11, <1>17 DEF SafeNode
<1>19. ASSUME NEW x \in out PROVE SafeMessage(L, V, A2, ns2, x)
  BY <1>4, <1>8, <1>12 DEF SafeMessage, TypedOut, k
<1>20. StepOf(L, V, A, ns, L, V, A2, ns2, M, n, s2, out)
  BY <1>8, <1>11, <1>18, <1>19 DEF StepOf, TypedOut
<1>21. Safe(L, V, A2, ns2, M \union out)
  <2>1. \A t \in Nat : \/ A2[n][t] = A[n][t]
                       \/ t = s2.term /\ A2[n][t] <= Len(L[t])
    BY <1>1, <1>4, <1>8, <1>12, <1>13 DEF Same
  <2> QED
    BY <1>20, <2>1, SameLogsSafe
<1> QED
  BY <1>11, <1>21

-----------------------------------------------------------------------------
(* The history goes on with every step *)

\* The log with one entry more, of term t.
Extended(new, log, t) ==
  /\ new \in Seq(Logged) /\ Len(new) = Len(log) + 1 /\ Len(log) \in Nat
  /\ new # <<>> /\ new[Len(new)].term = t /\ LastTerm(new) = t
  /\ \A j \in 1..Len(log) : new[j] = log[j]
  /\ Same(new, log, Len(log))
  /\ \A b \in Seq(Logged) : \A j \in Nat : Same(log, b, j) => Same(new, b, j)

LEMMA AppendedIs ==
  ASSUME NEW log \in Seq(Logged), NEW e \in Logged, NEW new, new = Append(log, e)
  PROVE  Extended(new, log, e.term)
<1>1. /\ new \in Seq(Logged) /\ Len(new) = Len(log) + 1 /\ Len(log) \in Nat
      /\ new[Len(new)] = e /\ \A j \in 1..Len(log) : new[j] = log[j]
  BY AppendProperties, LenProperties
<1>2. new # <<>>
  BY <1>1, EntryOf
<1>3. LastTerm(new) = e.term
  BY <1>1, <1>2 DEF LastTerm
<1>4. Same(new, log, Len(log))
  BY <1>1 DEF Same
<1>5. ASSUME NEW b \in Seq(Logged), NEW j \in Nat, Same(log, b, j) PROVE Same(new, b, j)
  BY <1>1, <1>5 DEF Same
<1> QED
  BY <1>1, <1>2, <1>3, <1>4, <1>5 DEF Extended

\* A term has one leader.
LEMMA OneElected ==
  ASSUME NEW V, NEW t, NEW c \in Node, NEW d \in Node,
         IsMajority(Support(V, t, c)), IsMajority(Support(V, t, d))
  PROVE  c = d
<1>1. Support(V, t, c) \in SUBSET Node /\ Support(V, t, d) \in SUBSET Node
  BY DEF Support
<1>2. PICK q \in Node : q \in Support(V, t, c) /\ q \in Support(V, t, d)
  BY <1>1, MajoritiesMeet
<1> QED
  BY <1>2 DEF Support

\* Node n, which a majority elected in its term T, adds an entry to its log,
\* which has what earlier leaders may have committed.
Leads(L, V, A, ns, M, n, s2, ns2, T, log, new) ==
  /\ Safe(L, V, A, ns, M) /\ TypedNodes(ns) /\ M \subseteq Message /\ n \in DOMAIN ns
  /\ T = ns[n].term /\ log = ns[n].log /\ new = s2.log
  /\ IsMajority(Support(V, T, n)) /\ V[n][T] = n /\ T >= 2
  /\ L[T] = <<>> \/ L[T] = log
  /\ \A t \in Nat : t < T => \A i \in Nat : Own(L, t, i) => Kept(L, A, ns, log, t, i)
  /\ Typed(s2) /\ s2.term = T /\ s2.role = "leader" /\ s2.vote = ns[n].vote
  /\ s2.commit = ns[n].commit
  /\ \E e \in Logged : e.term = T /\ new = Append(log, e)
  /\ \A q \in Node : IF q = n THEN s2.match[q] = Len(new) ELSE s2.match[q] <= A[q][T]
  /\ ns2 = [ns EXCEPT ![n] = s2]

\* The history that goes on with it.
GoesOn(L, A, n, T, new, L2, A2) ==
  /\ L2 = [L EXCEPT ![T] = new]
  /\ A2 = [A EXCEPT ![n] = [A[n] EXCEPT ![T] = Len(new)]]

LEMMA LeadsMove ==
  ASSUME NEW L, NEW V, NEW A, NEW ns, NEW M, NEW n, NEW s2, NEW ns2, NEW T, NEW log, NEW new,
         Leads(L, V, A, ns, M, n, s2, ns2, T, log, new),
         NEW L2, NEW A2, GoesOn(L, A, n, T, new, L2, A2)
  PROVE  /\ Move(L, V, A, ns, L2, V, A2, ns2) /\ DOMAIN ns2 = DOMAIN ns /\ ns2[n] = s2
         /\ \A q \in DOMAIN ns \ {n} : ns2[q] = ns[q]
         /\ T \in Nat /\ T >= 2 /\ n \in Node /\ log \in Seq(Logged) /\ new \in Seq(Logged)
         /\ Len(log) \in Nat /\ Len(new) = Len(log) + 1 /\ LastTerm(new) = T /\ new # <<>>
         /\ new[Len(new)].term = T /\ \A j \in 1..Len(log) : new[j] = log[j]
         /\ \A b \in Seq(Logged) : \A j \in Nat : Same(log, b, j) => Same(new, b, j)
         /\ L2[T] = new /\ \A t \in Nat \ {T} : L2[t] = L[t]
         /\ A2[n][T] = Len(new) /\ \A t \in Nat \ {T} : A2[n][t] = A[n][t]
         /\ \A q \in Node \ {n} : A2[q] = A[q]
<1>0. /\ n \in DOMAIN ns /\ TypedNodes(ns) /\ T >= 2 /\ Typed(s2) /\ ns[n].term = T
      /\ s2.term = T /\ s2.commit = ns[n].commit /\ Safe(L, V, A, ns, M)
      /\ L[T] = <<>> \/ L[T] = log
  BY DEF Leads
<1>1. /\ n \in Node /\ T \in Nat /\ log \in Seq(Logged) /\ ns[n].commit \in Nat
  <2>1. log = ns[n].log
    BY DEF Leads
  <2> QED
    BY <1>0, <2>1, NodeFields
<1>2. PICK e \in Logged : e.term = T /\ new = Append(log, e)
  BY DEF Leads
<1>4. /\ new \in Seq(Logged) /\ Len(new) = Len(log) + 1 /\ Len(log) \in Nat
      /\ new # <<>> /\ new[Len(new)].term = T /\ LastTerm(new) = T
      /\ \A j \in 1..Len(log) : new[j] = log[j]
      /\ Same(new, log, Len(log))
      /\ \A b \in Seq(Logged) : \A j \in Nat : Same(log, b, j) => Same(new, b, j)
  <2>1. Extended(new, log, T)
    BY <1>1, <1>2, AppendedIs
  <2> QED
    BY <2>1 DEF Extended
<1>5. History(L, V, A) /\ SafeFollower(L, V, A, ns, n)
  BY <1>0 DEF Safe, SafeNode
<1>6. /\ L2 \in [Nat -> Seq(Logged)] /\ L2[T] = new /\ \A t \in Nat \ {T} : L2[t] = L[t]
  BY <1>1, <1>4, <1>5 DEF History, GoesOn
<1>7. /\ A2 \in [Node -> [Nat -> Nat]] /\ A2[n][T] = Len(new)
      /\ \A t \in Nat \ {T} : A2[n][t] = A[n][t]
      /\ \A q \in Node \ {n} : A2[q] = A[q]
  <2>0. PICK k \in Nat : k = Len(new)
    BY <1>4
  <2>1. A[n] \in [Nat -> Nat] /\ A \in [Node -> [Nat -> Nat]]
    BY <1>1, <1>5 DEF History
  <2>2. PICK f : f = [A[n] EXCEPT ![T] = k]
    OBVIOUS
  <2>3. f \in [Nat -> Nat] /\ f[T] = k /\ \A t \in Nat \ {T} : f[t] = A[n][t]
    BY <1>1, <2>1, <2>2
  <2>4. A2 = [A EXCEPT ![n] = f]
    BY <2>0, <2>2 DEF GoesOn
  <2> QED
    BY <1>1, <2>0, <2>1, <2>3, <2>4
<1>8. History(L2, V, A2)
  BY <1>5, <1>6, <1>7 DEF History
<1>9. A2[n][T] >= A[n][T]
  <2>1. Same(log, L[T], A[n][T])
    BY <1>5 DEF SafeFollower, Leads
  <2>2. A[n][T] <= Len(log) /\ A[n][T] \in Nat
    BY <1>1, <1>5, <2>1, HistoryIs DEF Same
  <2> QED
    BY <1>4, <1>7, <2>2
<1>10. ASSUME NEW t \in Nat PROVE Same(L2[t], L[t], Len(L[t]))
  <2>0. L[t] \in Seq(Logged) /\ Len(L[t]) \in Nat /\ Len(L[t]) <= Len(L[t]) /\ Len(new) \in Nat
    BY <1>4, <1>5, HistoryIs
  <2>1. CASE t # T
    BY <1>6, <2>0, <2>1, SameSelf
  <2>2. CASE t = T /\ L[T] = log
    BY <1>4, <1>6, <2>2
  <2>3. CASE t = T /\ L[T] = <<>>
    <3>1. Len(L[T]) = 0
      BY <2>0, <2>3, EntryOf
    <3> QED
      BY <1>6, <2>0, <2>3, <3>1 DEF Same
  <2> QED
    BY <1>0, <2>1, <2>2, <2>3
<1>11. ASSUME NEW q \in Node, NEW t \in Nat
       PROVE  A2[q][t] # A[q][t] => q = n /\ t = ns[n].term /\ A2[n][t] >= A[n][t]
  BY <1>0, <1>1, <1>7, <1>9
<1>12. Change(L, V, A, ns, n, s2, L2, V, A2, ns2)
  <2>1. s2.term >= ns[n].term /\ s2.commit >= ns[n].commit
    BY <1>0, <1>1
  <2> QED
    BY <1>0, <1>5, <1>8, <1>10, <1>11, <2>1 DEF Change, Leads
<1>13. /\ Move(L, V, A, ns, L2, V, A2, ns2) /\ DOMAIN ns2 = DOMAIN ns /\ ns2[n] = s2
       /\ \A q \in DOMAIN ns \ {n} : ns2[q] = ns[q]
  BY <1>12, MoveIs
<1> QED
  BY <1>0, <1>1, <1>4, <1>6, <1>7, <1>13

LEMMA LeadSafe ==
  ASSUME NEW L, NEW V, NEW A, NEW ns, NEW M, NEW n, NEW s2, NEW ns2, NEW T, NEW log, NEW new,
         Leads(L, V, A, ns, M, n, s2, ns2, T, log, new),
         NEW out \in SUBSET Message, out \subseteq Appends(n, s2)
  PROVE  \E L2, A2 : Safe(L2, V, A2, ns2, M \union out) /\ Move(L, V, A, ns, L2, V, A2, ns2)
<1>1. PICK L2, A2 : GoesOn(L, A, n, T, new, L2, A2)
  BY DEF GoesOn
<1>2. /\ Move(L, V, A, ns, L2, V, A2, ns2) /\ DOMAIN ns2 = DOMAIN ns /\ ns2[n] = s2
      /\ \A q \in DOMAIN ns \ {n} : ns2[q] = ns[q]
      /\ T \in Nat /\ T >= 2 /\ n \in Node /\ log \in Seq(Logged) /\ new \in Seq(Logged)
      /\ Len(log) \in Nat /\ Len(new) = Len(log) + 1 /\ LastTerm(new) = T /\ new # <<>>
      /\ new[Len(new)].term = T /\ \A j \in 1..Len(log) : new[j] = log[j]
      /\ \A b \in Seq(Logged) : \A j \in Nat : Same(log, b, j) => Same(new, b, j)
      /\ L2[T] = new /\ \A t \in Nat \ {T} : L2[t] = L[t]
      /\ A2[n][T] = Len(new) /\ \A t \in Nat \ {T} : A2[n][t] = A[n][t]
      /\ \A q \in Node \ {n} : A2[q] = A[q]
  BY <1>1, LeadsMove
<1>3. /\ History(L, V, A) /\ Accepted(L, A, ns) /\ LeaderLogs(L) /\ LaterLeaders(L, A, ns)
      /\ Elected(L, V, ns) /\ Votes(V, ns) /\ TypedNodes(ns) /\ n \in DOMAIN ns
      /\ \A q \in DOMAIN ns : SafeNode(L, V, A, ns, q)
  BY DEF Safe, Leads
<1>4. /\ Sound(L, log) /\ \A j \in 1..Len(log) : log[j].term \in 1..T
      /\ V[n][T] \in {0, s2.vote} /\ Committed(L, A, log, s2.commit, T)
  <2>1. SafeFollower(L, V, A, ns, n)
    BY <1>3 DEF SafeNode
  <2>2. s2.vote = ns[n].vote /\ s2.commit = ns[n].commit /\ ns[n].term = T /\ ns[n].log = log
    BY DEF Leads
  <2> QED
    BY <2>1, <2>2 DEF SafeFollower
<1>5. /\ IsMajority(Support(V, T, n)) /\ V[n][T] = n /\ s2.term = T /\ s2.role = "leader"
      /\ ns[n].term = T /\ (L[T] = <<>> \/ L[T] = log)
      /\ \A t \in Nat : t < T => \A i \in Nat : Own(L, t, i) => Kept(L, A, ns, log, t, i)
      /\ s2.commit \in Nat
      /\ \A q \in Node : IF q = n THEN s2.match[q] = Len(new) ELSE s2.match[q] <= A[q][T]
  BY NodeFields DEF Leads
<1>6. History(L2, V, A2) /\ TypedNodes(ns2)
  BY <1>2 DEF Move
<1>7. Sound(L2, new) /\ \A j \in 1..Len(new) : new[j].term \in 1..T
  <2>1. Sound(L2, log)
    BY <1>2, <1>4, SoundStays
  <2>2. ASSUME NEW j \in 1..Len(new) PROVE Same(new, L2[new[j].term], j) /\ new[j].term \in 1..T
    <3>1. CASE j = Len(new)
      <4>1. Same(new, new, j)
        BY <1>2, <3>1, SameSelf
      <4> QED
        BY <1>2, <3>1, <4>1
    <3>2. CASE j # Len(new)
      <4>1. j \in 1..Len(log) /\ new[j] = log[j] /\ log[j].term \in 1..T /\ log[j].term \in Nat
        BY <1>2, <1>4, <3>2
      <4>2. Same(log, L2[log[j].term], j) /\ L2[log[j].term] \in Seq(Logged)
        BY <1>6, <2>1, <4>1, HistoryIs DEF Sound
      <4> QED
        BY <1>2, <4>1, <4>2
    <3> QED
      BY <3>1, <3>2
  <2> QED
    BY <2>2 DEF Sound
<1>8. LeaderLogs(L2)
  <2>1. ASSUME NEW t \in Nat
        PROVE  /\ Sound(L2, L2[t]) /\ \A j \in 1..Len(L2[t]) : L2[t][j].term \in 1..t
               /\ L2[t] # <<>> => L2[t][Len(L2[t])].term = t
    <3>1. CASE t = T
      BY <1>2, <1>7, <3>1
    <3>2. CASE t # T
      <4>1. L2[t] = L[t] /\ L[t] \in Seq(Logged)
        BY <1>2, <1>3, <3>2, HistoryIs
      <4>2. Sound(L2, L[t])
        BY <1>2, <1>3, <4>1, SoundStays DEF LeaderLogs
      <4> QED
        BY <1>3, <4>1, <4>2 DEF LeaderLogs
    <3> QED
      BY <3>1, <3>2
  <2> QED
    BY <2>1 DEF LeaderLogs
<1>9. Elected(L2, V, ns2)
  <2>1. ASSUME NEW t \in Nat, t >= 2, L2[t] # <<>>
        PROVE  \E c \in Node : /\ IsMajority(Support(V, t, c))
                               /\ c \in DOMAIN ns2 /\ ns2[c].term = t => ns2[c].role = "leader"
    <3>1. CASE t = T
      BY <1>2, <1>5, <3>1
    <3>2. CASE t # T
      <4>1. PICK c \in Node : /\ IsMajority(Support(V, t, c))
                              /\ c \in DOMAIN ns /\ ns[c].term = t => ns[c].role = "leader"
        BY <1>2, <1>3, <2>1, <3>2 DEF Elected
      <4> QED
        BY <1>2, <1>5, <3>2, <4>1
    <3> QED
      BY <3>1, <3>2
  <2> QED
    BY <2>1 DEF Elected
<1>10. Accepted(L2, A2, ns2)
  <2>1. ASSUME NEW q \in Node, NEW t \in Nat
        PROVE  A2[q][t] <= Len(L2[t]) /\ (A2[q][t] # 0 => Reached(ns2, q, t))
    <3>1. CASE q = n /\ t = T
      BY <1>2, <1>5, <3>1 DEF Reached
    <3>2. CASE ~(q = n /\ t = T)
      <4>1. A2[q][t] = A[q][t] /\ A[q][t] \in Nat /\ A[q][t] <= Len(L[t]) /\ (A[q][t] # 0 => Reached(ns, q, t))
        BY <1>2, <1>3, <3>2, HistoryIs DEF Accepted
      <4>2. Len(L[t]) <= Len(L2[t]) /\ Len(L[t]) \in Nat /\ Len(L2[t]) \in Nat
        BY <1>2, <1>3, <1>6, EntriesStay, HistoryIs
      <4> QED
        BY <1>2, <4>1, <4>2, TermsStay
    <3> QED
      BY <3>1, <3>2
  <2> QED
    BY <2>1 DEF Accepted
<1>11. ASSUME NEW t \in Nat, t < T, NEW i \in Nat, Own(L2, t, i) PROVE Kept(L2, A2, ns2, new, t, i)
  <2>1. L2[t] = L[t] /\ L2[t] \in Seq(Logged)
    BY <1>2, <1>6, <1>11, HistoryIs
  <2>2. Own(L, t, i)
    BY <1>11, <2>1 DEF Own
  <2>3. Kept(L, A, ns, log, t, i)
    BY <1>5, <1>11, <2>2
  <2>4. Kept(L2, A2, ns2, log, t, i)
    BY <1>2, <2>3, KeptStays
  <2> QED
    BY <1>2, <2>1, <2>4 DEF Kept
<1>12. LaterLeaders(L2, A2, ns2)
  <2>1. ASSUME NEW u \in Nat, L2[u] # <<>>, NEW t \in Nat, t < u, NEW i \in Nat, Own(L2, t, i)
        PROVE  Kept(L2, A2, ns2, L2[u], t, i)
    <3>1. CASE u = T
      BY <1>2, <1>11, <2>1, <3>1
    <3>2. CASE u # T /\ Own(L, t, i)
      <4>1. L2[u] = L[u] /\ L[u] \in Seq(Logged)
        BY <1>2, <1>3, <3>2, HistoryIs
      <4>2. Kept(L, A, ns, L[u], t, i)
        BY <1>3, <2>1, <3>2, <4>1 DEF LaterLeaders
      <4> QED
        BY <1>2, <4>1, <4>2, KeptStays
    <3>3. CASE u # T /\ ~Own(L, t, i)
      <4>1. t = T
        BY <1>2, <2>1, <3>3 DEF Own
      <4>2. L[u] # <<>> /\ u >= 2
        BY <1>2, <2>1, <3>3, <4>1
      <4>3. PICK c \in Node : IsMajority(Support(V, u, c))
        BY <1>3, <4>2 DEF Elected
      <4>4. ~(i \in 1..Len(L[t])) /\ i \in 1..Len(L2[t])
        BY <1>2, <2>1, <3>3, EntriesStay DEF Own
      <4>5. ASSUME NEW q \in Support(V, u, c) PROVE A2[q][t] < i /\ Gone(ns2, q, t)
        <5>1. q \in Node /\ V[q][u] = c /\ c # 0
          BY DEF Support, Node
        <5>2. Reached(ns, q, u)
          BY <1>3, <5>1 DEF Votes
        <5>3. Gone(ns, q, t)
          BY <1>3, <2>1, <5>2, NodeFields DEF Reached, Gone
        <5>4. Gone(ns2, q, t) /\ A2[q][t] = A[q][t]
          BY <1>2, <5>1, <5>3, TermsStay
        <5>5. A[q][t] <= Len(L[t]) /\ A[q][t] \in Nat /\ Len(L[t]) \in Nat
          BY <1>3, <5>1, HistoryIs DEF Accepted
        <5> QED
          BY <4>4, <5>4, <5>5
      <4>6. IsMajority({q \in Node : A2[q][t] < i /\ Gone(ns2, q, t)})
        <5> DEFINE S == {q \in Node : A2[q][t] < i /\ Gone(ns2, q, t)}
        <5>1. S \in SUBSET Node
          OBVIOUS
        <5>2. Support(V, u, c) \subseteq S
          BY <4>5 DEF Support
        <5> HIDE DEF S
        <5>3. IsMajority(S)
          BY <4>3, <5>1, <5>2, MajorityGrows
        <5> QED
          BY <5>3 DEF S
      <4> QED
        BY <4>6 DEF Kept, Lost
    <3> QED
      BY <3>1, <3>2, <3>3
  <2> QED
    BY <2>1 DEF LaterLeaders
<1>13. SafeFollower(L2, V, A2, ns2, n)
  <2>1. Same(new, L2[T], A2[n][T])
    BY <1>2, SameSelf
  <2>2. Covers(L2, A2, ns2, new, n, T)
    BY <1>11 DEF Covers
  <2>3. ASSUME NEW t \in Nat, t <= T PROVE Len(new) >= A2[n][t] \/ LastTerm(new) > t
    BY <1>2, <2>3
  <2>4. Committed(L2, A2, new, s2.commit, T)
    <3>1. T <= T
      BY <1>2
    <3>2. Committed(L2, A2, log, s2.commit, T)
      BY <1>2, <1>4, <1>5, <3>1, CommittedStays
    <3>3. Same(new, log, s2.commit)
      <4>1. s2.commit <= Len(log)
        BY <1>4 DEF Committed
      <4> QED
        BY <1>2, <1>5, <4>1, SameSelf
    <3> QED
      BY <1>2, <1>5, <1>6, <3>2, <3>3, CommittedPrefix
  <2>5. ns2[n] = s2 /\ s2.log = new /\ s2.term = T /\ T >= 1
    BY <1>2, <1>5 DEF Leads
  <2> QED
    BY ONLY <1>4, <1>7, <2>1, <2>2, <2>3, <2>4, <2>5 DEF SafeFollower
<1>14. SafeLeader(L2, V, A2, ns2, n)
  <2>1. ASSUME NEW q \in Node PROVE s2.match[q] <= A2[q][T]
    <3>1. IF q = n THEN s2.match[q] = Len(new) ELSE s2.match[q] <= A[q][T]
      BY <1>5
    <3>2. CASE q = n
      <4>1. A2[n][T] = Len(new) /\ Len(new) \in Nat
        BY <1>2
      <4> QED
        BY <3>1, <3>2, <4>1
    <3>3. CASE q # n
      <4>1. A2[q] = A[q]
        BY <1>2, <3>3
      <4> QED
        BY <3>1, <3>3, <4>1
    <3> QED
      BY <3>2, <3>3
  <2>2. ns2[n] = s2 /\ s2.log = new /\ s2.term = T
    BY <1>2, <1>5 DEF Leads
  <2>3. /\ T >= 2 /\ IsMajority(Support(V, T, n)) /\ V[n][T] = n
        /\ new = L2[T] /\ new # <<>>
    BY <1>2, <1>5
  <2> QED
    BY ONLY <2>1, <2>2, <2>3 DEF SafeLeader
<1>15. SafeNode(L2, V, A2, ns2, n)
  BY <1>2, <1>5, <1>13, <1>14 DEF SafeNode
<1>16. ASSUME NEW x \in out PROVE SafeMessage(L2, V, A2, ns2, x)
  BY <1>2, <1>3, <1>5, <1>6, <1>8, <1>15, LeaderAppends
<1>17. ASSUME NEW q \in DOMAIN ns \ {n}, ns[q].role = "leader" PROVE L2[ns[q].term] = L[ns[q].term]
  <2>1. IsMajority(Support(V, ns[q].term, q)) /\ q \in Node /\ ns[q].term \in Nat
    BY <1>3, <1>17, NodeFields DEF SafeNode, SafeLeader
  <2>2. ns[q].term # T
    BY <1>2, <1>5, <2>1, OneElected
  <2> QED
    BY <1>2, <2>1, <2>2
<1>18. StepOf(L, V, A, ns, L2, V, A2, ns2, M, n, s2, out)
  <2>1. Safe(L, V, A, ns, M) /\ M \subseteq Message
    BY DEF Leads
  <2>2. s2.role # "candidate"
    BY <1>5
  <2>3. ns2 = [ns EXCEPT ![n] = s2]
    BY DEF Leads
  <2> QED
    BY <1>2, <1>3, <1>15, <1>16, <2>1, <2>2, <2>3 DEF StepOf
<1>19. Safe(L2, V, A2, ns2, M \union out)
  BY <1>8, <1>9, <1>10, <1>12, <1>17, <1>18, StepSafe
<1> QED
  BY <1>2, <1>19

\* The history goes on safely when the nodes become ns2 and send out.
Goes(L, V, A, ns, M, ns2, out) ==
  \E L2, V2, A2 : Safe(L2, V2, A2, ns2, M \union out) /\ Move(L, V, A, ns, L2, V2, A2, ns2)

LEMMA NothingGoes ==
  ASSUME NEW L, NEW V, NEW A, NEW ns, NEW M, Safe(L, V, A, ns, M), TypedNodes(ns)
  PROVE  Goes(L, V, A, ns, M, ns, {})
<1>1. History(L, V, A)
  BY DEF Safe
<1>2. ASSUME NEW t \in Nat PROVE Same(L[t], L[t], Len(L[t]))
  <2>1. L[t] \in Seq(Logged) /\ Len(L[t]) \in Nat /\ Len(L[t]) <= Len(L[t])
    BY <1>1, HistoryIs
  <2> QED
    BY <2>1, SameSelf
<1>3. \A q \in DOMAIN ns : ns[q].term \in Nat /\ ns[q].commit \in Nat
  BY NodeFields
<1>4. Move(L, V, A, ns, L, V, A, ns)
  BY <1>1, <1>2, <1>3 DEF Move, Later
<1>5. Safe(L, V, A, ns, M \union {})
  <2>1. M \union {} = M
    OBVIOUS
  <2> QED
    BY <2>1
<1> QED
  BY <1>4, <1>5 DEF Goes

LEMMA GoesOnce ==
  ASSUME NEW L, NEW V, NEW A, NEW ns, NEW M, NEW ns1, NEW out1, NEW ns2, NEW out2,
         Goes(L, V, A, ns, M, ns1, out1),
         \A L1, V1, A1 : Safe(L1, V1, A1, ns1, M \union out1) =>
           Goes(L1, V1, A1, ns1, M \union out1, ns2, out2)
  PROVE  Goes(L, V, A, ns, M, ns2, out1 \union out2)
<1>1. PICK L1, V1, A1 : Safe(L1, V1, A1, ns1, M \union out1) /\ Move(L, V, A, ns, L1, V1, A1, ns1)
  BY DEF Goes
<1>2. PICK L2, V2, A2 : /\ Safe(L2, V2, A2, ns2, (M \union out1) \union out2)
                        /\ Move(L1, V1, A1, ns1, L2, V2, A2, ns2)
  BY <1>1 DEF Goes
<1>3. Move(L, V, A, ns, L2, V2, A2, ns2)
  BY <1>1, <1>2, LaterMoves
<1>4. (M \union out1) \union out2 = M \union (out1 \union out2)
  OBVIOUS
<1> QED
  BY <1>2, <1>3, <1>4 DEF Goes

\* A candidate whom a majority voted for may lead.
LEMMA WonLeads ==
  ASSUME NEW L, NEW V, NEW A, NEW ns, NEW M, Safe(L, V, A, ns, M), TypedNodes(ns),
         NEW n \in DOMAIN ns, ns[n].role = "candidate", IsMajority(ns[n].granted),
         NEW T, T = ns[n].term
  PROVE  /\ L[T] = <<>> /\ IsMajority(Support(V, T, n)) /\ V[n][T] = n /\ T >= 2
         /\ \A t \in Nat : t < T => \A i \in Nat : Own(L, t, i) => Kept(L, A, ns, ns[n].log, t, i)
<1>1. T \in Nat /\ n \in Node
  BY NodeFields
<1>2. /\ History(L, V, A) /\ Accepted(L, A, ns) /\ Elected(L, V, ns) /\ Votes(V, ns)
      /\ SafeCandidate(L, V, A, ns, n)
  BY DEF Safe, SafeNode
<1>3. /\ V[n][T] = n /\ ns[n].granted \subseteq Support(V, T, n) /\ T >= 2
      /\ \A q \in Support(V, T, n) : Covers(L, A, ns, ns[n].log, q, T)
  BY <1>2 DEF SafeCandidate
<1>4. IsMajority(Support(V, T, n)) /\ Support(V, T, n) \in SUBSET Node
  BY <1>3, MajorityGrows DEF Support
<1>5. ASSUME L[T] # <<>> PROVE FALSE
  <2>1. PICK c \in Node : /\ IsMajority(Support(V, T, c))
                          /\ c \in DOMAIN ns /\ ns[c].term = T => ns[c].role = "leader"
    BY <1>1, <1>2, <1>3, <1>5 DEF Elected
  <2>2. c = n
    BY <1>1, <1>4, <2>1, OneElected
  <2> QED
    BY <2>1, <2>2
<1>6. ASSUME NEW t \in Nat, t < T, NEW i \in Nat, Own(L, t, i) PROVE Kept(L, A, ns, ns[n].log, t, i)
  <2>1. CASE \E q \in Support(V, T, n) : i <= A[q][t]
    BY <1>3, <1>6, <2>1 DEF Covers
  <2>2. CASE ~\E q \in Support(V, T, n) : i <= A[q][t]
    <3> DEFINE S == {q \in Node : A[q][t] < i /\ Gone(ns, q, t)}
    <3>1. ASSUME NEW q \in Support(V, T, n) PROVE q \in S
      <4>1. q \in Node /\ V[q][T] = n /\ n # 0
        BY <1>1 DEF Support, Node
      <4>2. Reached(ns, q, T)
        BY <1>1, <1>2, <4>1 DEF Votes
      <4>3. Gone(ns, q, t)
        BY <1>1, <1>6, <4>2, NodeFields DEF Reached, Gone
      <4>4. A[q][t] \in Nat
        BY <1>2, <4>1, HistoryIs
      <4> QED
        BY <2>2, <4>1, <4>3, <4>4
    <3>2. S \in SUBSET Node /\ Support(V, T, n) \subseteq S
      BY <3>1
    <3> HIDE DEF S
    <3>3. IsMajority(S)
      BY <1>4, <3>2, MajorityGrows
    <3> QED
      BY <3>3 DEF Kept, Lost, S
  <2> QED
    BY <2>1, <2>2
<1> QED
  BY <1>3, <1>4, <1>5, <1>6

\* Node n, as a leader s, appends an entry.
LEMMA AppendEntryGoes ==
  ASSUME NEW L, NEW V, NEW A, NEW ns, NEW M \in SUBSET Message, Safe(L, V, A, ns, M), TypedNodes(ns),
         NEW n \in DOMAIN ns, NEW T, T = ns[n].term,
         IsMajority(Support(V, T, n)), V[n][T] = n, T >= 2,
         L[T] = <<>> \/ L[T] = ns[n].log,
         \A t \in Nat : t < T => \A i \in Nat : Own(L, t, i) => Kept(L, A, ns, ns[n].log, t, i),
         NEW s, Typed(s), s.role = "leader", s.term = T, s.log = ns[n].log, s.vote = ns[n].vote,
         s.commit = ns[n].commit, \A q \in Node : s.match[q] <= A[q][T],
         NEW d \in 0..Len(Requests)
  PROVE  Goes(L, V, A, ns, M, [ns EXCEPT ![n] = AppendEntry(n, s, d).node], AppendEntry(n, s, d).out)
<1> DEFINE log == Append(s.log, Entry(s.term, d))
           led == [s EXCEPT !.log = log, !.match[n] = Len(log)]
<1>1. /\ n \in Node /\ T \in Nat /\ s \in NodeState /\ s.vote # 0 /\ s.term # 0 /\ d \in Nat
      /\ s.log \in Seq(Logged)
  <2>1. n \in Node /\ T \in Nat
    BY NodeFields
  <2>2. s \in NodeState /\ s.vote \in Node /\ s.log \in Log
    BY NodeStateIs DEF Typed, FitsRole
  <2>3. d \in Nat
    BY LogIs
  <2> QED
    BY <2>1, <2>2, <2>3, LogsAreLogged DEF Node
<1>2. AppendEntry(n, s, d) = [node |-> led, out |-> Appends(n, led)]
  BY DEF AppendEntry, Outcome
<1>3. Typed(AppendEntry(n, s, d).node) /\ TypedOut(n, AppendEntry(n, s, d).out)
  BY <1>1, AppendEntryTyped
<1>4. PICK e \in Logged : e.term = T /\ log = Append(s.log, e)
  <2>1. Entry(T, d) \in Logged /\ Entry(T, d).term = T
    BY <1>1 DEF Entry, Logged
  <2> QED
    BY <2>1
<1> HIDE DEF log
<1>5. /\ led.log = log /\ led.term = T /\ led.role = "leader" /\ led.vote = s.vote /\ led.commit = s.commit
      /\ led.match = [s.match EXCEPT ![n] = Len(log)]
  BY <1>1, NodeStateIs
<1>6. \A q \in Node : IF q = n THEN led.match[q] = Len(log) ELSE led.match[q] <= A[q][T]
  <2>1. s.match \in [Node -> Nat]
    BY <1>1, NodeStateIs
  <2> QED
    BY <1>1, <1>5, <2>1
<1> HIDE DEF led
<1>7. PICK s2, ns2 : s2 = led /\ ns2 = [ns EXCEPT ![n] = s2]
  OBVIOUS
<1>8. Leads(L, V, A, ns, M, n, s2, ns2, T, s.log, log)
  <2>1. Typed(s2) /\ M \subseteq Message
    BY <1>2, <1>3, <1>7
  <2>2. \A t \in Nat : t < T => \A i \in Nat : Own(L, t, i) => Kept(L, A, ns, s.log, t, i)
    OBVIOUS
  <2> QED
    BY <1>4, <1>5, <1>6, <1>7, <2>1, <2>2 DEF Leads
<1>9. Appends(n, s2) \in SUBSET Message
  BY <1>2, <1>3, <1>7 DEF TypedOut
<1>10. \E L2, A2 : Safe(L2, V, A2, ns2, M \union Appends(n, s2)) /\ Move(L, V, A, ns, L2, V, A2, ns2)
  BY <1>8, <1>9, LeadSafe
<1>11. Goes(L, V, A, ns, M, ns2, Appends(n, s2))
  BY <1>10 DEF Goes
<1> QED
  BY <1>2, <1>7, <1>11

\* Some nodes stop, and nothing happens to the others.
LEMMA FewerGo ==
  ASSUME NEW L, NEW V, NEW A, NEW ns, NEW M \in SUBSET Message, Safe(L, V, A, ns, M), TypedNodes(ns),
         NEW ns2, DOMAIN ns2 \subseteq DOMAIN ns, \A q \in DOMAIN ns2 : ns2[q] = ns[q]
  PROVE  Safe(L, V, A, ns2, M) /\ Move(L, V, A, ns, L, V, A, ns2)
<1>1. /\ History(L, V, A) /\ LeaderLogs(L) /\ Elected(L, V, ns) /\ Votes(V, ns)
      /\ Accepted(L, A, ns) /\ LaterLeaders(L, A, ns)
      /\ \A n \in DOMAIN ns : SafeNode(L, V, A, ns, n)
      /\ \A m \in M : SafeMessage(L, V, A, ns, m)
  BY DEF Safe
<1>2. ASSUME NEW t \in Nat PROVE Same(L[t], L[t], Len(L[t]))
  <2>1. L[t] \in Seq(Logged) /\ Len(L[t]) \in Nat /\ Len(L[t]) <= Len(L[t])
    BY <1>1, HistoryIs
  <2> QED
    BY <2>1, SameSelf
<1>3. \A q \in DOMAIN ns : ns[q].term \in Nat /\ ns[q].commit \in Nat
  BY NodeFields
<1>4. TypedNodes(ns2)
  BY DEF TypedNodes
<1>5. Move(L, V, A, ns, L, V, A, ns2)
  BY <1>1, <1>2, <1>3, <1>4 DEF Move, Later
<1>6. ASSUME NEW q \in DOMAIN ns2 PROVE SafeNode(L, V, A, ns2, q)
  BY <1>1, <1>5, NodeStays
<1>7. ASSUME NEW m \in M PROVE SafeMessage(L, V, A, ns2, m)
  BY <1>1, <1>5, MessageStays
<1>8. Votes(V, ns2) /\ Accepted(L, A, ns2)
  BY <1>1, <1>5, TermsStay DEF Votes, Accepted
<1>9. Elected(L, V, ns2)
  BY <1>1 DEF Elected
<1>10. LaterLeaders(L, A, ns2)
  <2>1. ASSUME NEW u \in Nat, L[u] # <<>>, NEW t \in Nat, t < u, NEW i \in Nat, Own(L, t, i)
        PROVE  Kept(L, A, ns2, L[u], t, i)
    <3>1. Kept(L, A, ns, L[u], t, i) /\ L[u] \in Seq(Logged)
      BY <1>1, <2>1, HistoryIs DEF LaterLeaders
    <3> QED
      BY <1>5, <3>1, KeptStays
  <2> QED
    BY <2>1 DEF LaterLeaders
<1> QED
  BY <1>1, <1>5, <1>6, <1>7, <1>8, <1>9, <1>10 DEF Safe

LEMMA NothingHappens ==
  ASSUME NEW L, NEW V, NEW A, NEW ns, NEW M \in SUBSET Message, Safe(L, V, A, ns, M), TypedNodes(ns),
         NEW n \in DOMAIN ns, NEW s, s = ns[n], NEW r, r = Ignored(s)
  PROVE  Goes(L, V, A, ns, M, [ns EXCEPT ![n] = r.node], r.out)
<1>1. PICK ns2 : ns2 = [ns EXCEPT ![n] = s]
  OBVIOUS
<1>2. DOMAIN ns2 \subseteq DOMAIN ns /\ \A q \in DOMAIN ns2 : ns2[q] = ns[q]
  BY <1>1
<1>3. Safe(L, V, A, ns2, M) /\ Move(L, V, A, ns, L, V, A, ns2)
  BY <1>2, FewerGo
<1>4. M \union {} = M
  OBVIOUS
<1>5. Goes(L, V, A, ns, M, ns2, {})
  BY <1>3, <1>4 DEF Goes
<1>6. r.node = s /\ r.out = {}
  BY DEF Ignored, Outcome
<1> QED
  BY <1>1, <1>5, <1>6

LEMMA VoteGoes ==
  ASSUME NEW L, NEW V, NEW A, NEW ns, NEW M \in SUBSET Message, Safe(L, V, A, ns, M), TypedNodes(ns),
         NEW n \in DOMAIN ns, NEW m \in M, m.type = "Vote", m.to = n, m.term = ns[n].term,
         NEW r, r = Handled(n, ns[n], m)
  PROVE  Goes(L, V, A, ns, M, [ns EXCEPT ![n] = r.node], r.out)
<1> DEFINE s == ns[n]
           s2 == [s EXCEPT !.vote = m.from]
           out == {[type |-> "VoteResp", from |-> n, to |-> m.from, term |-> s.term]}
<1>1. n \in Node /\ s \in NodeState /\ Typed(s)
  BY DEF TypedNodes, Typed
<1>2. Typed(r.node) /\ TypedOut(n, r.out)
  BY <1>1, HandledTyped
<1>3. r = HandleVote(n, s, m)
  BY DEF Handled
<1>4. CASE ~(/\ s.vote \in {0, m.from}
             /\ \/ m.last > LastTerm(s.log)
                \/ m.last = LastTerm(s.log) /\ m.index >= Len(s.log))
  <2>1. r = Ignored(s)
    BY <1>3, <1>4 DEF HandleVote
  <2> QED
    BY <2>1, NothingHappens
<1>5. CASE /\ s.vote \in {0, m.from}
           /\ \/ m.last > LastTerm(s.log)
              \/ m.last = LastTerm(s.log) /\ m.index >= Len(s.log)
  <2>1. r.node = s2 /\ r.out = out
    BY <1>3, <1>5 DEF HandleVote, Outcome
  <2>2. /\ s2.term = s.term /\ s2.role = s.role /\ s2.vote = m.from /\ s2.granted = s.granted
        /\ s2.log = s.log /\ s2.commit = s.commit /\ s2.match = s.match
    BY <1>1, NodeStateIs
  <2>3. Typed(s2) /\ TypedOut(n, out)
    BY <1>2, <2>1
  <2>4. \A x \in out : x.type = "VoteResp" /\ x.from = n /\ x.to = m.from /\ x.term = s2.term
    BY <2>2
  <2> HIDE DEF s2, out
  <2>5. PICK ns2 : ns2 = [ns EXCEPT ![n] = s2]
    OBVIOUS
  <2>6. \E V2 : Safe(L, V2, A, ns2, M \union out) /\ Move(L, V, A, ns, L, V2, A, ns2)
    <3>1. Grants(L, V, A, ns, M, n, m, s2, ns2, out)
      BY <1>5, <2>2, <2>3, <2>4, <2>5 DEF Grants
    <3> QED
      BY <3>1, GrantSafe
  <2>7. Goes(L, V, A, ns, M, ns2, out)
    BY <2>6 DEF Goes
  <2> QED
    BY <2>1, <2>5, <2>7
<1> QED
  BY <1>4, <1>5

LEMMA AppGoes ==
  ASSUME NEW L, NEW V, NEW A, NEW ns, NEW M \in SUBSET Message, Safe(L, V, A, ns, M), TypedNodes(ns),
         NEW n \in DOMAIN ns, NEW m \in M, m.type = "App", m.to = n, m.term = ns[n].term,
         NEW r, r = Handled(n, ns[n], m)
  PROVE  Goes(L, V, A, ns, M, [ns EXCEPT ![n] = r.node], r.out)
<1> DEFINE s == ns[n]
           c == Max({s.commit, Min({m.commit, Len(m.log)})})
           log == Merged(s.log, m.log)
           s2 == [s EXCEPT !.role = "follower", !.vote = IF @ = 0 THEN m.from ELSE @,
                           !.granted = {}, !.log = log, !.commit = c]
           out == {[type |-> "AppResp", from |-> n, to |-> m.from, term |-> s.term,
                    index |-> Len(m.log)]}
<1>1. n \in Node /\ s \in NodeState /\ Typed(s)
  BY DEF TypedNodes, Typed
<1>2. Typed(r.node) /\ TypedOut(n, r.out)
  BY <1>1, HandledTyped
<1>3. r = HandleApp(n, s, m)
  BY DEF Handled
<1>4. CASE s.role = "leader"
  <2>1. r = Ignored(s)
    BY <1>3, <1>4 DEF HandleApp
  <2> QED
    BY <2>1, NothingHappens
<1>5. CASE s.role # "leader"
  <2>1. r.node = s2 /\ r.out = out
    BY <1>3, <1>5 DEF HandleApp, Outcome
  <2>2. /\ s2.term = s.term /\ s2.role = "follower"
        /\ s.vote # 0 => s2.vote = s.vote
        /\ s2.log = log /\ s2.commit = c
    <3> HIDE DEF log, c
    <3> QED
      BY <1>1, NodeStateIs
  <2>3. Typed(s2) /\ TypedOut(n, out)
    BY <1>2, <2>1
  <2>4. \A x \in out : x.type = "AppResp" /\ x.from = n /\ x.term = s2.term /\ x.index = Len(m.log)
    BY <2>2
  <2> HIDE DEF s2, out
  <2>5. PICK ns2 : ns2 = [ns EXCEPT ![n] = s2]
    OBVIOUS
  <2>6. \E A2 : Safe(L, V, A2, ns2, M \union out) /\ Move(L, V, A, ns, L, V, A2, ns2)
    <3>1. Follows(L, V, A, ns, M, n, m, s2, ns2, out)
      BY <1>5, <2>2, <2>3, <2>4, <2>5 DEF Follows
    <3> QED
      BY <3>1, FollowSafe
  <2>7. Goes(L, V, A, ns, M, ns2, out)
    BY <2>6 DEF Goes
  <2> QED
    BY <2>1, <2>5, <2>7
<1> QED
  BY <1>4, <1>5

LEMMA VoteRespGoes ==
  ASSUME NEW L, NEW V, NEW A, NEW ns, NEW M \in SUBSET Message, Safe(L, V, A, ns, M), TypedNodes(ns),
         NEW n \in DOMAIN ns, NEW m \in M, m.type = "VoteResp", m.to = n, m.term = ns[n].term,
         NEW r, r = Handled(n, ns[n], m)
  PROVE  Goes(L, V, A, ns, M, [ns EXCEPT ![n] = r.node], r.out)
<1> DEFINE s == ns[n]
           c == [s EXCEPT !.granted = @ \union {m.from}]
           l == [c EXCEPT !.role = "leader"]
<1>1. n \in Node /\ s \in NodeState /\ Typed(s) /\ m.from \in Node
  BY MessageFields DEF TypedNodes, Typed
<1>2. Typed(r.node) /\ TypedOut(n, r.out)
  BY <1>1, HandledTyped
<1>3. r = HandleVoteResp(n, s, m)
  BY DEF Handled
<1>4. CASE s.role # "candidate"
  <2>1. r = Ignored(s)
    BY <1>3, <1>4 DEF HandleVoteResp
  <2> QED
    BY <2>1, NothingHappens
<1>5. CASE s.role = "candidate"
  <2>1. r = IF IsMajority(c.granted) THEN AppendEntry(n, l, 0) ELSE Ignored(c)
    BY <1>3, <1>5 DEF HandleVoteResp
  <2>2. c \in NodeState
    BY <1>1, NodeStateIs DEF NodeState
  <2>3. /\ c.term = s.term /\ c.role = s.role /\ c.vote = s.vote /\ c.log = s.log
        /\ c.commit = s.commit /\ c.match = s.match /\ c.granted = s.granted \union {m.from}
    BY <1>1, NodeStateIs
  <2> HIDE DEF c
  <2>4. Typed(c) /\ c.match = Zero
    BY <1>1, <1>5, <2>2, <2>3 DEF Typed, FitsRole, Zero
  <2>5. PICK ns1 : ns1 = [ns EXCEPT ![n] = c]
    OBVIOUS
  <2>6. Counts(L, V, A, ns, M, n, m, c, ns1)
    BY <1>5, <2>3, <2>4, <2>5 DEF Counts
  <2>7. Safe(L, V, A, ns1, M) /\ Move(L, V, A, ns, L, V, A, ns1)
    BY <2>6, CountSafe
  <2>8. Goes(L, V, A, ns, M, ns1, {})
    <3>1. M \union {} = M
      OBVIOUS
    <3> QED
      BY <2>7, <3>1 DEF Goes
  <2>9. CASE ~IsMajority(c.granted)
    <3>1. r.node = c /\ r.out = {}
      BY <2>1, <2>9 DEF Ignored, Outcome
    <3> QED
      BY <2>5, <2>8, <3>1
  <2>10. CASE IsMajority(c.granted)
    <3>1. l \in NodeState
      BY <2>2 DEF NodeState
    <3>2. /\ l.role = "leader" /\ l.term = s.term /\ l.vote = s.vote /\ l.log = s.log
          /\ l.commit = s.commit /\ l.match = Zero
      BY <2>2, <2>3, <2>4, NodeStateIs
    <3> HIDE DEF l
    <3>3. Typed(l)
      BY <1>1, <1>5, <3>1, <3>2 DEF Typed, FitsRole
    <3>4. /\ DOMAIN ns1 = DOMAIN ns /\ ns1[n] = c /\ TypedNodes(ns1) /\ n \in DOMAIN ns1
      BY <2>5, <2>7 DEF Move
    <3>5. PICK T : T = ns1[n].term
      OBVIOUS
    <3>6. /\ L[T] = <<>> /\ IsMajority(Support(V, T, n)) /\ V[n][T] = n /\ T >= 2
          /\ \A t \in Nat : t < T => \A i \in Nat : Own(L, t, i) => Kept(L, A, ns1, ns1[n].log, t, i)
      <4>1. ns1[n].role = "candidate" /\ IsMajority(ns1[n].granted)
        BY <1>5, <2>3, <2>10, <3>4
      <4> QED
        BY <2>7, <3>4, <3>5, <4>1, WonLeads
    <3>7. \A q \in Node : l.match[q] <= A[q][T]
      <4>1. T \in Nat /\ History(L, V, A)
        BY <2>7, <3>4, <3>5, NodeFields DEF Safe
      <4>2. \A q \in Node : A[q][T] \in Nat
        BY <4>1, HistoryIs
      <4> QED
        BY <3>2, <4>2 DEF Zero
    <3>8. 0 \in 0..Len(Requests)
      BY LogIs
    <3>9. /\ l.term = T /\ l.log = ns1[n].log /\ l.vote = ns1[n].vote /\ l.commit = ns1[n].commit
      BY <2>3, <3>2, <3>4, <3>5
    <3>10. Goes(L, V, A, ns1, M, [ns1 EXCEPT ![n] = AppendEntry(n, l, 0).node], AppendEntry(n, l, 0).out)
      BY <2>7, <3>2, <3>3, <3>4, <3>5, <3>6, <3>7, <3>8, <3>9, AppendEntryGoes
    <3>11. r = AppendEntry(n, l, 0)
      BY <2>1, <2>10
    <3>12. [ns1 EXCEPT ![n] = r.node] = [ns EXCEPT ![n] = r.node]
      BY <2>5
    <3>13. PICK ns2 : ns2 = [ns EXCEPT ![n] = r.node]
      OBVIOUS
    <3>14. Goes(L, V, A, ns1, M, ns2, r.out)
      BY <3>10, <3>11, <3>12, <3>13
    <3>15. PICK L2, V2, A2 : Safe(L2, V2, A2, ns2, M \union r.out) /\ Move(L, V, A, ns1, L2, V2, A2, ns2)
      BY <3>14 DEF Goes
    <3>16. Move(L, V, A, ns, L2, V2, A2, ns2)
      BY <2>7, <3>15, LaterMoves
    <3> QED
      BY <3>13, <3>15, <3>16 DEF Goes
  <2> QED
    BY <2>9, <2>10
<1> QED
  BY <1>4, <1>5

LEMMA AppRespGoes ==
  ASSUME NEW L, NEW V, NEW A, NEW ns, NEW M \in SUBSET Message, Safe(L, V, A, ns, M), TypedNodes(ns),
         NEW n \in DOMAIN ns, NEW m \in M, m.type = "AppResp", m.to = n, m.term = ns[n].term,
         NEW r, r = Handled(n, ns[n], m)
  PROVE  Goes(L, V, A, ns, M, [ns EXCEPT ![n] = r.node], r.out)
<1> DEFINE s == ns[n]
           i == Max({s.match[m.from], m.index})
           l == [s EXCEPT !.match[m.from] = i]
           k == Max({l.commit} \union Committable(l))
           c == [l EXCEPT !.commit = k]
           out == IF c.commit > s.commit THEN Appends(n, c) ELSE {}
<1>1. n \in Node /\ s \in NodeState /\ Typed(s) /\ m.from \in Node /\ m.index \in Nat
  BY MessageFields DEF TypedNodes, Typed
<1>2. Typed(r.node) /\ TypedOut(n, r.out)
  BY <1>1, HandledTyped
<1>3. r = HandleAppResp(n, s, m)
  BY DEF Handled
<1>4. CASE s.role # "leader"
  <2>1. r = Ignored(s)
    BY <1>3, <1>4 DEF HandleAppResp
  <2> QED
    BY <2>1, NothingHappens
<1>5. CASE s.role = "leader"
  <2>1. r = [node |-> c, out |-> out]
    BY <1>3, <1>5 DEF HandleAppResp, Outcome
  <2>2. i \in Nat /\ i \in {s.match[m.from], m.index} /\ s.match \in [Node -> Nat]
    <3>1. s.match[m.from] \in Nat /\ s.match \in [Node -> Nat]
      BY <1>1, NodeStateIs
    <3> QED
      BY <1>1, <3>1, MaxOfTwo
  <2> HIDE DEF i
  <2>3. l \in NodeState
    BY <1>1, <2>2 DEF NodeState
  <2>4. /\ l.term = s.term /\ l.role = s.role /\ l.vote = s.vote /\ l.log = s.log
        /\ l.commit = s.commit /\ l.match = [s.match EXCEPT ![m.from] = i]
    BY <1>1, NodeStateIs
  <2> HIDE DEF l
  <2>5. k \in Nat /\ k >= s.commit /\ (k = s.commit \/ k \in Committable(l))
    BY <2>3, <2>4, CommitIs
  <2> HIDE DEF k
  <2>6. c \in NodeState
    BY <2>3, <2>5 DEF NodeState
  <2>7. /\ c.term = s.term /\ c.role = s.role /\ c.vote = s.vote /\ c.log = s.log
        /\ c.commit = k /\ c.match = l.match
    BY <2>3, <2>4, NodeStateIs
  <2> HIDE DEF c
  <2>8. Committable(c) = Committable(l)
    BY <2>4, <2>7 DEF Committable
  <2>9. \A q \in Node : c.match[q] = s.match[q] \/ (q = m.from /\ c.match[q] = m.index)
    BY <1>1, <2>2, <2>4, <2>7
  <2>10. r.node = c /\ r.out = out /\ out \subseteq Appends(n, c)
    BY <2>1
  <2> HIDE DEF out
  <2>11. PICK ns2 : ns2 = [ns EXCEPT ![n] = c]
    OBVIOUS
  <2>12. Confirms(L, V, A, ns, M, n, m, c, ns2, out)
    BY <1>2, <1>5, <2>5, <2>7, <2>8, <2>9, <2>10, <2>11 DEF Confirms
  <2>13. Goes(L, V, A, ns, M, ns2, out)
    BY <2>12, ConfirmSafe DEF Goes
  <2> QED
    BY <2>10, <2>11, <2>13
<1> QED
  BY <1>4, <1>5

\* A message of the term of the node.
LEMMA HandledGoes ==
  ASSUME NEW L, NEW V, NEW A, NEW ns, NEW M \in SUBSET Message, Safe(L, V, A, ns, M), TypedNodes(ns),
         NEW n \in DOMAIN ns, NEW m \in M, m.to = n, m.term = ns[n].term,
         NEW r, r = Handled(n, ns[n], m)
  PROVE  Goes(L, V, A, ns, M, [ns EXCEPT ![n] = r.node], r.out)
<1>1. m.type \in {"Vote", "VoteResp", "App", "AppResp"}
  BY MessageFields
<1> QED
  BY <1>1, VoteGoes, VoteRespGoes, AppGoes, AppRespGoes

LEMMA StepNodeGoes ==
  ASSUME NEW L, NEW V, NEW A, NEW ns, NEW M \in SUBSET Message, Safe(L, V, A, ns, M), TypedNodes(ns),
         NEW n \in DOMAIN ns, NEW m \in M, m.to = n,
         NEW r, r = StepNode(n, ns[n], m)
  PROVE  Goes(L, V, A, ns, M, [ns EXCEPT ![n] = r.node], r.out)
<1> DEFINE s == ns[n]
           f == Follower(s, m.term)
<1>1. s.term \in Nat /\ m.term \in Nat /\ m.term \in 0..MaxTerm /\ Typed(s)
  BY NodeFields, MessageFields, NodeAssumption DEF TypedNodes
<1>2. CASE m.term < s.term
  <2>1. r = Ignored(s)
    BY <1>2 DEF StepNode
  <2> QED
    BY <2>1, NothingHappens
<1>3. CASE m.term = s.term
  <2>1. r = Handled(n, s, m)
    BY <1>1, <1>3 DEF StepNode
  <2> QED
    BY <1>3, <2>1, HandledGoes
<1>4. CASE m.term > s.term
  <2>1. r = Handled(n, f, m)
    BY <1>1, <1>4 DEF StepNode
  <2>2. f.term = m.term
    BY <1>1, FollowerTyped
  <2>3. PICK ns1 : ns1 = [ns EXCEPT ![n] = f]
    OBVIOUS
  <2>4. Safe(L, V, A, ns1, M) /\ Move(L, V, A, ns, L, V, A, ns1)
    BY <1>1, <1>4, <2>3, RaiseSafe
  <2> HIDE DEF f
  <2>5. ns1[n] = f /\ n \in DOMAIN ns1 /\ TypedNodes(ns1)
    BY <2>3, <2>4 DEF Move
  <2>6. [ns1 EXCEPT ![n] = r.node] = [ns EXCEPT ![n] = r.node]
    BY <2>3
  <2>7. PICK ns2 : ns2 = [ns1 EXCEPT ![n] = r.node]
    OBVIOUS
  <2>8. Goes(L, V, A, ns1, M, ns2, r.out)
    BY <2>1, <2>2, <2>4, <2>5, <2>7, HandledGoes
  <2>9. PICK L2, V2, A2 : Safe(L2, V2, A2, ns2, M \union r.out) /\ Move(L, V, A, ns1, L2, V2, A2, ns2)
    BY <2>8 DEF Goes
  <2>10. Move(L, V, A, ns, L2, V2, A2, ns2)
    BY <2>4, <2>9, LaterMoves
  <2> QED
    BY <2>6, <2>7, <2>9, <2>10 DEF Goes
<1> QED
  BY <1>1, <1>2, <1>3, <1>4

-----------------------------------------------------------------------------
(* Acting nodes and ticks *)

LEMMA ActGoes ==
  ASSUME NEW L, NEW V, NEW A, NEW ns, NEW M \in SUBSET Message, Safe(L, V, A, ns, M), TypedNodes(ns),
         NEW n \in DOMAIN ns, MayAct(n, ns[n]), NEW r, r = Act(n, ns[n])
  PROVE  Goes(L, V, A, ns, M, [ns EXCEPT ![n] = r.node], r.out)
<1> DEFINE s == ns[n]
<1>1. n \in Node /\ s \in NodeState /\ Typed(s) /\ n \in 0..NumNodes /\ {n} \in SUBSET Node
  BY DEF TypedNodes, Typed, Node
<1>2. Typed(r.node) /\ TypedOut(n, r.out)
  BY <1>1, ActTyped
<1>3. CASE s.role = "leader"
  <2>1. r.node = s /\ r.out = Appends(n, s)
    BY <1>3 DEF Act, Outcome
  <2>2. PICK ns2 : ns2 = [ns EXCEPT ![n] = s]
    OBVIOUS
  <2>3. DOMAIN ns2 = DOMAIN ns /\ \A q \in DOMAIN ns2 : ns2[q] = ns[q]
    BY <2>2
  <2>4. Safe(L, V, A, ns2, M) /\ Move(L, V, A, ns, L, V, A, ns2)
    BY <2>3, FewerGo
  <2>5. ASSUME NEW x \in Appends(n, s) PROVE SafeMessage(L, V, A, ns2, x)
    <3>1. /\ History(L, V, A) /\ LeaderLogs(L) /\ TypedNodes(ns2)
          /\ n \in DOMAIN ns2 /\ SafeNode(L, V, A, ns2, n) /\ ns2[n] = s
      BY <2>3, <2>4 DEF Safe, Move
    <3> QED
      BY <1>3, <3>1, LeaderAppends
  <2>6. Safe(L, V, A, ns2, M \union Appends(n, s))
    BY <2>4, <2>5 DEF Safe
  <2>7. Goes(L, V, A, ns, M, ns2, Appends(n, s))
    BY <2>4, <2>6 DEF Goes
  <2> QED
    BY <2>1, <2>2, <2>7
<1>4. CASE s.role # "leader"
  <2> DEFINE t == s.term + 1
             f == Follower(s, t)
             c == [f EXCEPT !.vote = n, !.role = "candidate", !.granted = {n}]
             out == {[type |-> "Vote", from |-> n, to |-> q, term |-> c.term,
                      last |-> LastTerm(c.log), index |-> Len(c.log)] : q \in Node \ {n}}
  <2>1. r.node = c /\ r.out = out
    BY <1>4 DEF Act, Campaign, Outcome
  <2>2. t \in 0..MaxTerm
    BY <1>1, <1>4, NodeStateIs DEF MayAct
  <2> HIDE DEF t
  <2>3. Typed(f) /\ f.term = t /\ f.log = s.log /\ f.commit = s.commit
    BY <1>1, <2>2, FollowerTyped
  <2> HIDE DEF f
  <2>4. f \in NodeState
    BY <2>3 DEF Typed
  <2>5. /\ c.term = t /\ c.role = "candidate" /\ c.vote = n /\ c.granted = {n} /\ c.log = s.log
        /\ c.commit = s.commit
    BY <2>3, <2>4, NodeStateIs
  <2>6. \A m \in out : /\ m.type = "Vote" /\ m.from = n /\ m.term = c.term
                       /\ m.last = LastTerm(c.log) /\ m.index = Len(c.log)
    BY DEF out
  <2> HIDE DEF c, out
  <2>7. Typed(c) /\ TypedOut(n, out)
    BY <1>2, <2>1
  <2>8. PICK ns2 : ns2 = [ns EXCEPT ![n] = c]
    OBVIOUS
  <2>9. c.term = s.term + 1
    BY <2>5 DEF t
  <2>10. \E V2 : Safe(L, V2, A, ns2, M \union out) /\ Move(L, V, A, ns, L, V2, A, ns2)
    BY <2>5, <2>6, <2>7, <2>8, <2>9, StandSafe
  <2>11. Goes(L, V, A, ns, M, ns2, out)
    BY <2>10 DEF Goes
  <2> QED
    BY <2>1, <2>8, <2>11
<1> QED
  BY <1>3, <1>4

LEMMA DeliveredGoes ==
  ASSUME NEW L, NEW V, NEW A, NEW M \in SUBSET Message, Safe(L, V, A, nodes, M), TypedNodes(nodes),
         NEW m \in M, NEW r, r = Delivered(m)
  PROVE  Goes(L, V, A, nodes, M, r.node, r.out)
<1>1. CASE m.to \notin Live
  <2>1. r.node = nodes /\ r.out = {}
    BY <1>1 DEF Delivered, Outcome
  <2> QED
    BY <2>1, NothingGoes
<1>2. CASE m.to \in Live
  <2>1. PICK a : a = StepNode(m.to, nodes[m.to], m)
    OBVIOUS
  <2>2. r.node = [nodes EXCEPT ![m.to] = a.node] /\ r.out = a.out
    BY <1>2, <2>1 DEF Delivered, Outcome
  <2>3. Goes(L, V, A, nodes, M, [nodes EXCEPT ![m.to] = a.node], a.out)
    BY <1>2, <2>1, StepNodeGoes DEF Live
  <2> QED
    BY <2>2, <2>3
<1> QED
  BY <1>1, <1>2

LEMMA ProposedGoes ==
  ASSUME NEW L, NEW V, NEW A, NEW M \in SUBSET Message, Safe(L, V, A, nodes, M), TypedNodes(nodes),
         NEW d \in 0..Len(Requests), NEW r \in Proposed(d)
  PROVE  /\ Goes(L, V, A, nodes, M, r.node, r.out)
         /\ \A m \in r.out : m.type = "App"
         /\ \A q \in Live : /\ r.node[q].commit = nodes[q].commit
                            /\ Same(r.node[q].log, nodes[q].log, Len(nodes[q].log))
<1>a. ASSUME NEW q \in Live
      PROVE  /\ nodes[q].log \in Seq(Logged) /\ Len(nodes[q].log) \in Nat
             /\ Same(nodes[q].log, nodes[q].log, Len(nodes[q].log))
  <2>1. nodes[q].log \in Seq(Logged)
    BY NodeFields DEF Live
  <2>2. Len(nodes[q].log) \in Nat /\ Len(nodes[q].log) <= Len(nodes[q].log)
    BY <2>1, LenProperties
  <2> QED
    BY <2>1, <2>2, SameSelf
<1>1. CASE Leaders = {}
  <2>1. r.node = nodes /\ r.out = {}
    BY <1>1 DEF Proposed, Outcome
  <2> QED
    BY <1>a, <2>1, NothingGoes
<1>2. CASE Leaders # {}
  <2>1. PICK n \in Leaders : r = [node |-> [nodes EXCEPT ![n] = AppendEntry(n, nodes[n], d).node],
                                  out |-> AppendEntry(n, nodes[n], d).out]
    BY <1>2 DEF Proposed, Outcome
  <2>2. n \in DOMAIN nodes /\ n \in Live /\ nodes[n].role = "leader" /\ Typed(nodes[n])
    BY DEF Leaders, Live, TypedNodes
  <2>3. PICK s, T : s = nodes[n] /\ T = nodes[n].term
    OBVIOUS
  <2>4. T \in Nat
    BY <2>2, <2>3, NodeFields
  <2>5. SafeLeader(L, V, A, nodes, n) /\ LaterLeaders(L, A, nodes)
    BY <2>2 DEF Safe, SafeNode
  <2>6. /\ T >= 2 /\ IsMajority(Support(V, T, n)) /\ V[n][T] = n
        /\ s.log = L[T] /\ s.log # <<>> /\ \A q \in Node : s.match[q] <= A[q][T]
    BY <2>3, <2>5 DEF SafeLeader
  <2>7. \A t \in Nat : t < T => \A i \in Nat : Own(L, t, i) => Kept(L, A, nodes, nodes[n].log, t, i)
    BY <2>3, <2>4, <2>5, <2>6 DEF LaterLeaders
  <2>8. Typed(s) /\ s.role = "leader" /\ s.term = T
    BY <2>2, <2>3
  <2>9. Goes(L, V, A, nodes, M, [nodes EXCEPT ![n] = AppendEntry(n, s, d).node], AppendEntry(n, s, d).out)
    <3>1. /\ s.log = nodes[n].log /\ s.vote = nodes[n].vote /\ s.commit = nodes[n].commit
          /\ L[T] = nodes[n].log
      BY <2>3, <2>6
    <3> QED
      BY <2>2, <2>3, <2>6, <2>7, <2>8, <3>1, AppendEntryGoes
  <2> DEFINE log == Append(s.log, Entry(s.term, d))
             led == [s EXCEPT !.log = log, !.match[n] = Len(log)]
  <2>10. AppendEntry(n, s, d) = [node |-> led, out |-> Appends(n, led)]
    BY DEF AppendEntry, Outcome
  <2>11. \A m \in Appends(n, led) : m.type = "App"
    BY DEF Appends
  <2>12. led.log = log /\ led.commit = s.commit
    <3> HIDE DEF log
    <3> QED
      BY <2>8, NodeStateIs DEF Typed
  <2>13. Same(log, s.log, Len(s.log))
    <3>1. Entry(s.term, d) \in Logged /\ s.log \in Seq(Logged)
      <4>1. d \in Nat
        BY LogIs
      <4> QED
        BY <1>a, <2>2, <2>3, <2>4, <2>8, <4>1 DEF Entry, Logged
    <3>2. Extended(log, s.log, Entry(s.term, d).term)
      BY <3>1, AppendedIs
    <3> QED
      BY <3>2 DEF Extended
  <2> HIDE DEF led, log
  <2>14. r.node = [nodes EXCEPT ![n] = led] /\ r.out = Appends(n, led)
    BY <2>1, <2>3, <2>10
  <2>15. ASSUME NEW q \in Live
         PROVE  /\ r.node[q].commit = nodes[q].commit
                /\ Same(r.node[q].log, nodes[q].log, Len(nodes[q].log))
    <3>1. CASE q = n
      <4>1. r.node[q] = led
        BY <2>2, <2>14, <3>1
      <4> QED
        BY <2>3, <2>12, <2>13, <3>1, <4>1
    <3>2. CASE q # n
      <4>1. r.node[q] = nodes[q]
        BY <2>14, <3>2 DEF Live
      <4> QED
        BY <1>a, <4>1
    <3> QED
      BY <3>1, <3>2
  <2>16. Goes(L, V, A, nodes, M, r.node, r.out)
    BY <2>9, <2>10, <2>14
  <2> QED
    BY <2>11, <2>14, <2>15, <2>16
<1> QED
  BY <1>1, <1>2

\* The nodes up to k were ticked, and what they sent.
TickedUpTo(ns, o, k) == [n \in DOMAIN ns |-> IF n <= k THEN o[n].node ELSE ns[n]]
SentUpTo(ns, o, k) == UNION {o[n].out : n \in {q \in DOMAIN ns : q <= k}}

LEMMA TickedUpToIs ==
  ASSUME NEW ns, TypedNodes(ns), NEW o \in Ticked(ns), NEW k \in Nat
  PROVE  /\ TypedNodes(TickedUpTo(ns, o, k)) /\ SentUpTo(ns, o, k) \subseteq Message
         /\ DOMAIN TickedUpTo(ns, o, k) = DOMAIN ns
<1>1. ASSUME NEW n \in DOMAIN ns PROVE Typed(o[n].node) /\ o[n].out \subseteq Message
  <2>1. CASE MayAct(n, ns[n]) /\ o[n] = Act(n, ns[n])
    BY <2>1, ActTyped DEF TypedNodes, TypedOut
  <2>2. CASE o[n] = [node |-> ns[n], out |-> {}]
    BY <2>2 DEF TypedNodes
  <2> QED
    BY <2>1, <2>2, TickedOne
<1>2. SentUpTo(ns, o, k) \subseteq Message
  BY <1>1 DEF SentUpTo
<1>3. DOMAIN TickedUpTo(ns, o, k) = DOMAIN ns
  BY DEF TickedUpTo
<1>4. ASSUME NEW n \in DOMAIN ns PROVE Typed(TickedUpTo(ns, o, k)[n])
  <2>1. CASE n <= k
    BY <1>1, <2>1 DEF TickedUpTo
  <2>2. CASE ~(n <= k)
    BY <2>2 DEF TickedUpTo, TypedNodes
  <2> QED
    BY <2>1, <2>2
<1> QED
  BY <1>2, <1>3, <1>4 DEF TypedNodes

LEMMA OneMoreTicked ==
  ASSUME NEW L, NEW V, NEW A, NEW ns, NEW M \in SUBSET Message, TypedNodes(ns),
         NEW o \in Ticked(ns), NEW k \in Nat,
         Goes(L, V, A, ns, M, TickedUpTo(ns, o, k), SentUpTo(ns, o, k))
  PROVE  Goes(L, V, A, ns, M, TickedUpTo(ns, o, k + 1), SentUpTo(ns, o, k + 1))
<1> DEFINE n == k + 1
<1>1. PICK a, b, x, y : /\ a = TickedUpTo(ns, o, k) /\ b = TickedUpTo(ns, o, n)
                        /\ x = SentUpTo(ns, o, k) /\ y = SentUpTo(ns, o, n)
  OBVIOUS
<1>2. /\ TypedNodes(a) /\ x \subseteq Message /\ DOMAIN a = DOMAIN ns
      /\ DOMAIN b = DOMAIN ns
  BY <1>1, TickedUpToIs
<1>3. \A q \in DOMAIN ns : q \in Nat
  BY NodeFields DEF Node
<1>4. \A q \in DOMAIN ns : /\ q <= k => a[q] = o[q].node /\ b[q] = o[q].node
                           /\ q > n => a[q] = ns[q] /\ b[q] = ns[q]
                           /\ q = n => a[q] = ns[q] /\ b[q] = o[q].node
  BY <1>1, <1>3 DEF TickedUpTo
<1>5. PICK L1, V1, A1 : Safe(L1, V1, A1, a, M \union x) /\ Move(L, V, A, ns, L1, V1, A1, a)
  BY <1>1 DEF Goes
<1>6. M \union x \in SUBSET Message
  BY <1>2
<1>7. CASE n \in DOMAIN ns /\ MayAct(n, ns[n]) /\ o[n] = Act(n, ns[n])
  <2>1. PICK r : r = Act(n, ns[n])
    OBVIOUS
  <2>2. a[n] = ns[n] /\ n \in DOMAIN a
    BY <1>2, <1>4, <1>7
  <2>3. Goes(L1, V1, A1, a, M \union x, [a EXCEPT ![n] = r.node], r.out)
    BY <1>2, <1>5, <1>6, <1>7, <2>1, <2>2, ActGoes
  <2>4. b = [a EXCEPT ![n] = r.node]
    <3>1. \A q \in DOMAIN ns : q <= k \/ q = n \/ q > n
      BY <1>3
    <3>2. \A q \in DOMAIN ns : b[q] = IF q = n THEN r.node ELSE a[q]
      BY <1>3, <1>4, <1>7, <2>1, <3>1
    <3>3. a = [q \in DOMAIN ns |-> a[q]] /\ b = [q \in DOMAIN ns |-> b[q]]
      BY <1>1 DEF TickedUpTo
    <3> QED
      BY <3>2, <3>3
  <2>5. y = x \union r.out
    <3>1. {q \in DOMAIN ns : q <= n} = {q \in DOMAIN ns : q <= k} \union {n}
      BY <1>3, <1>7
    <3>2. r.out = o[n].out
      BY <1>7, <2>1
    <3> HIDE DEF n
    <3> QED
      BY <1>1, <3>1, <3>2 DEF SentUpTo
  <2>6. PICK L2, V2, A2 : /\ Safe(L2, V2, A2, b, (M \union x) \union r.out)
                          /\ Move(L1, V1, A1, a, L2, V2, A2, b)
    BY <2>3, <2>4 DEF Goes
  <2>7. Move(L, V, A, ns, L2, V2, A2, b)
    BY <1>5, <2>6, LaterMoves
  <2>8. (M \union x) \union r.out = M \union y
    BY <2>5
  <2> QED
    BY <1>1, <2>6, <2>7, <2>8 DEF Goes
<1>8. CASE ~(n \in DOMAIN ns /\ MayAct(n, ns[n]) /\ o[n] = Act(n, ns[n]))
  <2>1. n \in DOMAIN ns => o[n] = [node |-> ns[n], out |-> {}]
    BY <1>8, TickedOne
  <2>2. \A q \in DOMAIN ns : q <= k \/ q = n \/ q > n
    BY <1>3
  <2>3. \A q \in DOMAIN b : b[q] = a[q]
    BY <1>2, <1>3, <1>4, <2>1, <2>2
  <2>4. y = x
    <3>1. \A q \in DOMAIN ns : q <= n <=> q <= k \/ q = n
      BY <1>3
    <3>2. n \in DOMAIN ns => o[n].out = {}
      BY <2>1
    <3> HIDE DEF n
    <3> QED
      BY <1>1, <1>3, <3>1, <3>2 DEF SentUpTo
  <2>5. Safe(L1, V1, A1, b, M \union x) /\ Move(L1, V1, A1, a, L1, V1, A1, b)
    BY <1>2, <1>5, <1>6, <2>3, FewerGo
  <2>6. Move(L, V, A, ns, L1, V1, A1, b)
    BY <1>5, <2>5, LaterMoves
  <2> QED
    BY <1>1, <2>4, <2>5, <2>6 DEF Goes
<1> QED
  BY <1>7, <1>8

LEMMA TickedGoes ==
  ASSUME NEW L, NEW V, NEW A, NEW ns, NEW M \in SUBSET Message, Safe(L, V, A, ns, M), TypedNodes(ns),
         NEW o \in Ticked(ns)
  PROVE  Goes(L, V, A, ns, M, NodesOf(o), SentBy(o))
<1> DEFINE P(k) == Goes(L, V, A, ns, M, TickedUpTo(ns, o, k), SentUpTo(ns, o, k))
           F == {k \in Nat : ~P(k)}
<1>1. P(0)
  <2>1. \A q \in DOMAIN ns : ~(q <= 0)
    BY NodeFields DEF Node
  <2>2. SentUpTo(ns, o, 0) = {}
    BY <2>1 DEF SentUpTo
  <2>3. PICK a : a = TickedUpTo(ns, o, 0)
    OBVIOUS
  <2>4. DOMAIN a \subseteq DOMAIN ns /\ \A q \in DOMAIN a : a[q] = ns[q]
    BY <2>1, <2>3 DEF TickedUpTo
  <2>5. Safe(L, V, A, a, M) /\ Move(L, V, A, ns, L, V, A, a)
    BY <2>4, FewerGo
  <2>6. M \union {} = M
    OBVIOUS
  <2> QED
    BY <2>2, <2>3, <2>5, <2>6 DEF Goes
<1>2. ASSUME NEW k \in Nat, P(k) PROVE P(k + 1)
  BY <1>2, OneMoreTicked
<1> HIDE DEF P
<1>3. F = {}
  <2>1. SUFFICES ASSUME F # {} PROVE FALSE
    OBVIOUS
  <2>2. Min(F) \in F /\ \A y \in F : Min(F) <= y
    BY <2>1, MinIsLeast
  <2>3. PICK k \in Nat : k = Min(F)
    BY <2>2
  <2>4. k # 0
    BY <1>1, <2>2, <2>3
  <2>5. k - 1 \in Nat /\ (k - 1) + 1 = k /\ ~(k <= k - 1)
    BY <2>4
  <2>6. P(k - 1)
    BY <2>2, <2>3, <2>5
  <2>7. P(k)
    BY <1>2, <2>5, <2>6
  <2> QED
    BY <2>2, <2>3, <2>7
<1>4. P(NumNodes)
  BY <1>3, NodeAssumption
<1>5. \A q \in DOMAIN ns : q <= NumNodes
  BY NodeFields, NodeAssumption DEF Node
<1>6. DOMAIN o = DOMAIN ns
  BY TickedOne
<1>7. TickedUpTo(ns, o, NumNodes) = NodesOf(o)
  BY <1>5, <1>6 DEF TickedUpTo, NodesOf
<1>8. SentUpTo(ns, o, NumNodes) = SentBy(o)
  BY <1>5, <1>6 DEF SentUpTo, SentBy
<1> QED
  BY <1>4, <1>7, <1>8 DEF P

-----------------------------------------------------------------------------
(* The environment *)

\* M is what was ever sent: what is in transit is of it.
SentIn(M) ==
  /\ messages \subseteq M /\ waiting \subseteq M /\ shown \subseteq M
  /\ links \in [Link -> Seq(M)]

\* The storages have the logs as far as Ready was taken, and in them what was
\* applied and acknowledged.
StoresSafely(M) ==
  /\ \A n \in Live : /\ Same(nodes[n].log, stored[n], Len(stored[n]))
                     /\ snapshot[n] <= nodes[n].commit
  /\ \A n \in Node : snapshot[n] <= Len(stored[n])
  /\ \A m \in M : m.type = "AppResp" =>
       Len(stored[m.from]) >= m.index \/ LastTerm(stored[m.from]) > m.term

EnvSafe(L, V, A, M) ==
  M \subseteq Message /\ Safe(L, V, A, nodes, M) /\ SentIn(M) /\ StoresSafely(M)

\* What a step leaves, of the logs too.
Advances(L, V, A) ==
  \E L2, V2, A2, M2 :
    /\ EnvSafe(L2, V2, A2, M2)' /\ Move(L, V, A, nodes, L2, V2, A2, nodes')
    /\ \A n \in Live' : stored'[n] = stored[n] \/ stored'[n] = nodes'[n].log

LEMMA NextMessages ==
  ASSUME mode' = mode, NEW M, M \subseteq Message PROVE (M \subseteq Message)'
  BY SameTypes

\* An acknowledgement is of what the log of a live node has.
LEMMA LogAcknowledged ==
  ASSUME NEW L, NEW V, NEW A, NEW ns, NEW M \in SUBSET Message, Safe(L, V, A, ns, M), TypedNodes(ns),
         NEW m \in M, m.type = "AppResp", m.from \in DOMAIN ns
  PROVE  Len(ns[m.from].log) >= m.index \/ LastTerm(ns[m.from].log) > m.term
<1> DEFINE n == m.from
<1>1. m.from \in Node /\ m.term \in Nat /\ m.index \in Nat
  BY MessageFields
<1>2. SafeMessage(L, V, A, ns, m) /\ SafeFollower(L, V, A, ns, n) /\ Accepted(L, A, ns) /\ History(L, V, A)
  BY DEF Safe, SafeNode
<1>3. m.index <= A[n][m.term] /\ A[n][m.term] \in Nat
  BY <1>1, <1>2, HistoryIs DEF SafeMessage
<1>4. ns[n].log \in Seq(Logged) /\ Len(ns[n].log) \in Nat /\ ns[n].term \in Nat
  BY NodeFields, LenProperties
<1>5. CASE A[n][m.term] = 0
  BY <1>1, <1>3, <1>4, <1>5
<1>6. CASE A[n][m.term] # 0
  <2>1. Reached(ns, n, m.term)
    BY <1>1, <1>2, <1>6 DEF Accepted
  <2>2. m.term <= ns[n].term
    BY <1>1, <1>4, <2>1 DEF Reached
  <2>3. Len(ns[n].log) >= A[n][m.term] \/ LastTerm(ns[n].log) > m.term
    BY <1>1, <1>2, <2>2 DEF SafeFollower
  <2> QED
    BY <1>1, <1>3, <1>4, <2>3
<1> QED
  BY <1>5, <1>6

\* The committed entries of a node are in its log.
LEMMA CommittedIsLogged ==
  ASSUME NEW L, NEW V, NEW A, NEW ns, NEW M, Safe(L, V, A, ns, M), TypedNodes(ns), NEW n \in DOMAIN ns
  PROVE  ns[n].commit <= Len(ns[n].log) /\ Committed(L, A, ns[n].log, ns[n].commit, ns[n].term)
  BY DEF Safe, SafeNode, SafeFollower, Committed

\* A step that ends with a Ready of every node.
LEMMA ReadyAdvances ==
  ASSUME NEW L, NEW V, NEW A, NEW M, EnvSafe(L, V, A, M), TypedNodes(nodes), mode' = mode,
         stored \in [Node -> Log], snapshot \in [Node -> Nat],
         NEW ns, NEW out \in SUBSET Message, Goes(L, V, A, nodes, M, ns, out), TypedNodes(ns),
         DOMAIN ns = Live, \A x \in out : x.from \in Live, Ready(ns),
         messages' \subseteq M \union out, shown' \subseteq M \union out,
         links' \in [Link -> Seq(M \union out)], snapshot' \in [Node -> Nat],
         \A n \in Node : snapshot'[n] = snapshot[n] \/ (n \in Live /\ snapshot'[n] <= ns[n].commit)
  PROVE  Advances(L, V, A)
<1>1. PICK L2, V2, A2 : Safe(L2, V2, A2, ns, M \union out) /\ Move(L, V, A, nodes, L2, V2, A2, ns)
  BY DEF Goes
<1>2. PICK M2 : M2 = M \union out
  OBVIOUS
<1>3. M \subseteq Message /\ M2 \in SUBSET Message /\ StoresSafely(M)
  BY <1>2 DEF EnvSafe
<1>4. nodes' = ns /\ waiting' = {} /\ Live' = DOMAIN ns /\ DOMAIN nodes = Live
      /\ \A n \in Node : stored'[n] = IF n \in Live THEN ns[n].log ELSE stored[n]
  BY DEF Ready, Appended, Live
<1>5. SentIn(M2)'
  BY <1>2, <1>4 DEF SentIn, Link
<1>6. \A n \in Live : /\ n \in Node /\ ns[n].log \in Seq(Logged) /\ Len(ns[n].log) \in Nat
                      /\ ns[n].commit \in Nat /\ nodes[n].commit \in Nat
  BY <1>4, NodeFields, LenProperties
<1>7. ASSUME NEW n \in Live
      PROVE  /\ Same(ns[n].log, stored'[n], Len(stored'[n]))
             /\ snapshot'[n] <= ns[n].commit /\ snapshot'[n] <= Len(stored'[n])
  <2>1. stored'[n] = ns[n].log /\ Len(ns[n].log) <= Len(ns[n].log)
    BY <1>4, <1>6
  <2>2. Same(ns[n].log, ns[n].log, Len(ns[n].log))
    BY <1>6, <2>1, SameSelf
  <2>3. nodes[n].commit <= ns[n].commit
    BY <1>1 DEF Move, Later
  <2>4. snapshot[n] <= nodes[n].commit
    BY <1>3 DEF StoresSafely
  <2>5. snapshot[n] \in Nat /\ snapshot'[n] \in Nat
    BY <1>6
  <2>6. snapshot'[n] <= ns[n].commit
    BY <1>6, <2>3, <2>4, <2>5
  <2>7. ns[n].commit <= Len(ns[n].log)
    BY <1>1, CommittedIsLogged
  <2> QED
    BY <1>6, <2>1, <2>2, <2>5, <2>6, <2>7
<1>8. ASSUME NEW n \in Node PROVE snapshot'[n] <= Len(stored'[n])
  <2>1. CASE n \in Live
    BY <1>7, <2>1
  <2>2. CASE n \notin Live
    <3>1. snapshot'[n] = snapshot[n] /\ stored'[n] = stored[n]
      BY <1>4, <2>2
    <3> QED
      BY <1>3, <3>1 DEF StoresSafely
  <2> QED
    BY <2>1, <2>2
<1>9. ASSUME NEW m \in M2, m.type = "AppResp"
      PROVE  Len(stored'[m.from]) >= m.index \/ LastTerm(stored'[m.from]) > m.term
  <2>0. m.from \in Node
    BY <1>3, MessageFields
  <2>1. CASE m.from \in Live
    <3>1. Len(ns[m.from].log) >= m.index \/ LastTerm(ns[m.from].log) > m.term
      BY <1>1, <1>2, <1>3, <1>9, <2>1, LogAcknowledged
    <3> QED
      BY <1>4, <2>0, <2>1, <3>1
  <2>2. CASE m.from \notin Live
    <3>1. m \in M
      BY <1>2, <2>2
    <3>2. stored'[m.from] = stored[m.from]
      BY <1>4, <2>0, <2>2
    <3> QED
      BY <1>3, <1>9, <3>1, <3>2 DEF StoresSafely
  <2> QED
    BY <2>1, <2>2
<1>10. StoresSafely(M2)'
  BY <1>4, <1>7, <1>8, <1>9 DEF StoresSafely
<1>11. (M2 \subseteq Message)'
  BY <1>3, NextMessages
<1>12. EnvSafe(L2, V2, A2, M2)'
  BY <1>1, <1>2, <1>4, <1>5, <1>10, <1>11 DEF EnvSafe
<1>13. \A n \in Live' : stored'[n] = nodes'[n].log
  BY <1>4, <1>6
<1> QED
  BY <1>1, <1>4, <1>12, <1>13 DEF Advances

\* A step that takes nodes and messages away, and nothing else.
LEMMA FewerAdvance ==
  ASSUME NEW L, NEW V, NEW A, NEW M, EnvSafe(L, V, A, M), TypedNodes(nodes), mode' = mode,
         DOMAIN nodes' \subseteq Live, \A n \in DOMAIN nodes' : nodes'[n] = nodes[n],
         stored' = stored, snapshot' = snapshot, waiting' \subseteq waiting,
         messages' \subseteq messages, shown' \subseteq shown, links' \in [Link -> Seq(M)]
  PROVE  Advances(L, V, A)
<1>1. M \subseteq Message /\ Safe(L, V, A, nodes, M) /\ SentIn(M) /\ StoresSafely(M)
  BY DEF EnvSafe
<1>2. Safe(L, V, A, nodes', M) /\ Move(L, V, A, nodes, L, V, A, nodes')
  BY <1>1, FewerGo DEF Live
<1>3. SentIn(M)'
  BY <1>1 DEF SentIn, Link
<1>4. StoresSafely(M)'
  BY <1>1 DEF StoresSafely, Live
<1>5. (M \subseteq Message)'
  BY <1>1, NextMessages
<1>6. EnvSafe(L, V, A, M)'
  BY <1>2, <1>3, <1>4, <1>5 DEF EnvSafe
<1> QED
  BY <1>2, <1>6 DEF Advances, Live

\* What is sent comes from live nodes.
LEMMA LiveSend ==
  ASSUME NEW ns, TypedNodes(ns), NEW o \in Ticked(ns), NEW x \in SentBy(o)
  PROVE  x.from \in DOMAIN ns
<1>1. DOMAIN o = DOMAIN ns
  BY TickedOne
<1>2. PICK n \in DOMAIN ns : x \in o[n].out
  BY <1>1 DEF SentBy
<1>3. MayAct(n, ns[n]) /\ o[n] = Act(n, ns[n])
  <2>1. o[n] # [node |-> ns[n], out |-> {}]
    BY <1>2
  <2> QED
    BY <2>1, TickedOne
<1>4. TypedOut(n, o[n].out)
  BY <1>3, ActTyped DEF TypedNodes
<1> QED
  BY <1>2, <1>4 DEF TypedOut

LEMMA LiveAnswer ==
  ASSUME TypedNodes(nodes), NEW m \in Message, NEW r, r = Delivered(m), NEW x \in r.out
  PROVE  x.from \in Live
<1>1. CASE m.to \notin Live
  BY <1>1 DEF Delivered, Outcome
<1>2. CASE m.to \in Live
  <2>1. PICK a : a = StepNode(m.to, nodes[m.to], m)
    OBVIOUS
  <2>2. TypedOut(m.to, a.out)
    BY <1>2, <2>1, StepNodeTyped DEF TypedNodes, Live
  <2>3. r.out = a.out
    BY <1>2, <2>1 DEF Delivered, Outcome
  <2> QED
    BY <1>2, <2>2, <2>3 DEF TypedOut
<1> QED
  BY <1>1, <1>2

LEMMA LivePropose ==
  ASSUME TypedNodes(nodes), NEW d \in 0..Len(Requests), NEW r \in Proposed(d), NEW x \in r.out
  PROVE  x.from \in Live
<1>1. CASE Leaders = {}
  BY <1>1 DEF Proposed, Outcome
<1>2. CASE Leaders # {}
  <2>1. PICK n \in Leaders : r = [node |-> [nodes EXCEPT ![n] = AppendEntry(n, nodes[n], d).node],
                                  out |-> AppendEntry(n, nodes[n], d).out]
    BY <1>2 DEF Proposed, Outcome
  <2>2. n \in Live /\ \E led : AppendEntry(n, nodes[n], d).out = Appends(n, led)
    BY DEF Leaders, AppendEntry, Outcome
  <2>3. x.from = n
    BY <2>1, <2>2 DEF Appends
  <2> QED
    BY <2>2, <2>3
<1> QED
  BY <1>1, <1>2

LEMMA LinkReadyAdvances ==
  ASSUME TypeOK, NEW L, NEW V, NEW A, NEW M, EnvSafe(L, V, A, M),
         NEW r, Goes(L, V, A, nodes, M, r.node, r.out), TypedNodes(r.node), DOMAIN r.node = Live,
         r.out \subseteq Message, OnePerLink(r.out), \A x \in r.out : x.from \in Live,
         NEW q, \A l \in Link : q[l] \in Seq(M), LinkReady(r, q)
  PROVE  Advances(L, V, A)
<1>1. PICK o \in Ticked(r.node) : Ready(NodesOf(o)) /\ links' = Added(q, r.out, SentBy(o))
  BY DEF LinkReady
<1>2. UNCHANGED <<mode, snapshot, messages, shown>>
  BY DEF LinkReady
<1>3. PICK ns, out : ns = NodesOf(o) /\ out = r.out \union SentBy(o)
  OBVIOUS
<1>4. /\ TypedNodes(ns) /\ DOMAIN ns = Live /\ SentBy(o) \subseteq Message /\ OnePerLink(SentBy(o))
  BY <1>1, <1>3, TickedTyped
<1>5. out \in SUBSET Message /\ M \in SUBSET Message /\ M \union r.out \in SUBSET Message
  BY <1>3, <1>4 DEF EnvSafe
<1>6. ASSUME NEW x \in out PROVE x.from \in Live
  BY <1>1, <1>3, LiveSend
<1>7. ASSUME NEW L1, NEW V1, NEW A1, Safe(L1, V1, A1, r.node, M \union r.out)
      PROVE  Goes(L1, V1, A1, r.node, M \union r.out, NodesOf(o), SentBy(o))
  BY <1>1, <1>5, <1>7, TickedGoes
<1>8. Goes(L, V, A, nodes, M, ns, out)
  BY <1>3, <1>7, GoesOnce
<1>9. links' \in [Link -> Seq(M \union out)]
  <2>1. \A l \in Link : q[l] \in Seq(M \union out)
    BY MoreMessages
  <2>2. r.out \subseteq M \union out /\ SentBy(o) \subseteq M \union out
    BY <1>3
  <2> QED
    BY <1>1, <1>4, <2>1, <2>2, AddedFits
<1>10. SentIn(M) /\ TypedNodes(nodes) /\ stored \in [Node -> Log] /\ snapshot \in [Node -> Nat]
  BY TypeOKIs DEF EnvSafe
<1>11. messages' \subseteq M \union out /\ shown' \subseteq M \union out
  BY <1>2, <1>10 DEF SentIn
<1>12. snapshot' \in [Node -> Nat] /\ \A n \in Node : snapshot'[n] = snapshot[n]
  BY <1>2, <1>10
<1>13. Ready(ns) /\ mode' = mode
  BY <1>1, <1>2, <1>3
<1> QED
  BY <1>4, <1>5, <1>6, <1>8, <1>9, <1>10, <1>11, <1>12, <1>13, ReadyAdvances

LEMMA TickAdvances ==
  ASSUME TypeOK, NEW L, NEW V, NEW A, NEW M, EnvSafe(L, V, A, M), Tick
  PROVE  Advances(L, V, A)
<1>1. PICK o \in Ticked(nodes) : /\ Ready(NodesOf(o))
                                 /\ messages' = messages \union waiting \union SentBy(o)
  BY DEF Tick
<1>2. /\ shown' = messages'
      /\ snapshot' = [n \in Node |-> IF ticks' = 0 /\ n \in Live
                                     THEN SnapshotOf(nodes'[n], snapshot[n]) ELSE snapshot[n]]
      /\ mode' = mode /\ links' = links
  BY DEF Tick
<1>3. SentIn(M) /\ TypedNodes(nodes) /\ stored \in [Node -> Log] /\ snapshot \in [Node -> Nat]
      /\ M \in SUBSET Message /\ Safe(L, V, A, nodes, M)
  BY TypeOKIs DEF EnvSafe
<1>4. PICK ns, out : ns = NodesOf(o) /\ out = SentBy(o)
  OBVIOUS
<1>5. TypedNodes(ns) /\ DOMAIN ns = Live /\ out \in SUBSET Message
  BY <1>1, <1>3, <1>4, TickedTyped DEF Live
<1>6. Goes(L, V, A, nodes, M, ns, out) /\ \A x \in out : x.from \in Live
  BY <1>1, <1>3, <1>4, TickedGoes, LiveSend DEF Live
<1>7. messages' \subseteq M \union out /\ shown' \subseteq M \union out
  BY <1>1, <1>2, <1>3, <1>4 DEF SentIn
<1>8. links' \in [Link -> Seq(M \union out)]
  <2>1. links \in [Link -> Seq(M)] /\ Seq(M) \subseteq Seq(M \union out)
    BY <1>3, MoreMessages DEF SentIn
  <2> QED
    BY <1>2, <2>1
<1>9. nodes' = ns
  BY <1>1, <1>4 DEF Ready
<1>10. ASSUME NEW n \in Node
       PROVE  /\ snapshot'[n] \in Nat
              /\ snapshot'[n] = snapshot[n] \/ (n \in Live /\ snapshot'[n] <= ns[n].commit)
  <2>1. snapshot[n] \in Nat
    BY <1>3
  <2>2. CASE ~(ticks' = 0 /\ n \in Live)
    BY <1>2, <2>1, <2>2
  <2>3. CASE ticks' = 0 /\ n \in Live
    <3>1. PICK c : c = ns[n].commit
      OBVIOUS
    <3>2. c \in Nat
      BY <1>5, <2>3, <3>1, NodeFields
    <3>3. snapshot'[n] = IF c > 3 THEN Max({snapshot[n], c - 1}) ELSE snapshot[n]
      BY <1>2, <1>9, <2>3, <3>1 DEF SnapshotOf
    <3>4. CASE c > 3
      <4>1. c - 1 \in Nat /\ c - 1 <= c
        BY <3>2, <3>4
      <4>2. PICK d : d = c - 1
        OBVIOUS
      <4>3. d \in Nat /\ d <= c /\ snapshot'[n] = Max({snapshot[n], d})
        BY <3>3, <3>4, <4>1, <4>2
      <4>4. Max({snapshot[n], d}) \in Nat /\ Max({snapshot[n], d}) \in {snapshot[n], d}
        BY <2>1, <4>3, MaxOfTwo
      <4> QED
        BY <2>3, <3>1, <4>3, <4>4
    <3>5. CASE ~(c > 3)
      BY <2>1, <3>3, <3>5
    <3> QED
      BY <3>4, <3>5
  <2> QED
    BY <2>2, <2>3
<1>11. snapshot' \in [Node -> Nat]
  BY <1>2, <1>10
<1>12. Ready(ns) /\ mode' = mode
  BY <1>1, <1>2, <1>4
<1> QED
  BY <1>3, <1>5, <1>6, <1>7, <1>8, <1>10, <1>11, <1>12, ReadyAdvances

LEMMA deliverAdvances ==
  ASSUME TypeOK, NEW L, NEW V, NEW A, NEW M, EnvSafe(L, V, A, M),
         NEW m \in shown, deliverMessage(m)
  PROVE  Advances(L, V, A)
<1>1. PICK r : r = Delivered(m)
  OBVIOUS
<1>2. /\ Ready(r.node) /\ messages' = (messages \ {m}) \union waiting \union r.out
      /\ shown' = messages' /\ UNCHANGED <<mode, snapshot, links>>
  BY <1>1 DEF deliverMessage
<1>3. SentIn(M) /\ TypedNodes(nodes) /\ stored \in [Node -> Log] /\ snapshot \in [Node -> Nat]
      /\ M \in SUBSET Message /\ Safe(L, V, A, nodes, M)
  BY TypeOKIs DEF EnvSafe
<1>4. m \in M /\ m \in Message
  BY <1>3 DEF SentIn
<1>5. PICK ns, out : ns = r.node /\ out = r.out
  OBVIOUS
<1>6. TypedNodes(ns) /\ DOMAIN ns = Live /\ out \in SUBSET Message
  BY <1>1, <1>3, <1>4, <1>5, DeliveredTyped
<1>7. Goes(L, V, A, nodes, M, ns, out) /\ \A x \in out : x.from \in Live
  BY <1>1, <1>3, <1>4, <1>5, DeliveredGoes, LiveAnswer
<1>8. messages' \subseteq M \union out /\ shown' \subseteq M \union out
  BY <1>2, <1>3, <1>5 DEF SentIn
<1>9. links' \in [Link -> Seq(M \union out)]
  <2>1. links \in [Link -> Seq(M)] /\ Seq(M) \subseteq Seq(M \union out)
    BY <1>3, MoreMessages DEF SentIn
  <2> QED
    BY <1>2, <2>1
<1>10. snapshot' \in [Node -> Nat] /\ \A n \in Node : snapshot'[n] = snapshot[n]
  BY <1>2, <1>3
<1>11. Ready(ns) /\ mode' = mode
  BY <1>2, <1>5
<1> QED
  BY <1>3, <1>6, <1>7, <1>8, <1>9, <1>10, <1>11, ReadyAdvances

LEMMA LinkDeliverAdvances ==
  ASSUME TypeOK, NEW L, NEW V, NEW A, NEW M, EnvSafe(L, V, A, M), NEW l \in Link, LinkDeliver(l)
  PROVE  Advances(L, V, A)
<1>1. PICK m, q, r : m = Head(links[l]) /\ q = [links EXCEPT ![l] = Tail(@)] /\ r = Delivered(m)
  OBVIOUS
<1>2. links[l] # <<>> /\ LinkReady(r, q)
  BY <1>1 DEF LinkDeliver
<1>3. links \in [Link -> Seq(M)] /\ TypedNodes(nodes) /\ M \in SUBSET Message
      /\ Safe(L, V, A, nodes, M)
  BY TypeOKIs DEF EnvSafe, SentIn
<1>4. m \in M /\ Tail(links[l]) \in Seq(M)
  BY <1>1, <1>2, <1>3, HeadTailProperties
<1>5. \A k \in Link : q[k] \in Seq(M)
  BY <1>1, <1>3, <1>4
<1>6. TypedNodes(r.node) /\ DOMAIN r.node = Live /\ r.out \subseteq Message /\ OnePerLink(r.out)
  BY <1>1, <1>3, <1>4, DeliveredTyped
<1>7. Goes(L, V, A, nodes, M, r.node, r.out) /\ \A x \in r.out : x.from \in Live
  BY <1>1, <1>3, <1>4, DeliveredGoes, LiveAnswer
<1> QED
  BY <1>2, <1>5, <1>6, <1>7, LinkReadyAdvances

LEMMA LinkProposeAdvances ==
  ASSUME TypeOK, NEW L, NEW V, NEW A, NEW M, EnvSafe(L, V, A, M), LinkPropose
  PROVE  Advances(L, V, A)
<1>1. PICK r \in Proposed(Head(requests)) : LinkReady(r, links)
  BY DEF LinkPropose
<1>2. Head(requests) \in 0..Len(Requests)
  BY FirstTyped DEF LinkPropose
<1>3. links \in [Link -> Seq(M)] /\ TypedNodes(nodes) /\ M \in SUBSET Message
      /\ Safe(L, V, A, nodes, M)
  BY TypeOKIs DEF EnvSafe, SentIn
<1>4. TypedNodes(r.node) /\ DOMAIN r.node = Live /\ r.out \subseteq Message /\ OnePerLink(r.out)
  BY <1>1, <1>2, <1>3, ProposedTyped
<1>5. Goes(L, V, A, nodes, M, r.node, r.out) /\ \A x \in r.out : x.from \in Live
  BY <1>1, <1>2, <1>3, ProposedGoes, LivePropose
<1>6. \A k \in Link : links[k] \in Seq(M)
  BY <1>3
<1> QED
  BY <1>1, <1>4, <1>5, <1>6, LinkReadyAdvances

\* Ready is not taken: the proposal is in the log and not in the storage.
LEMMA ReceiveAdvances ==
  ASSUME TypeOK, NEW L, NEW V, NEW A, NEW M, EnvSafe(L, V, A, M), ReceiveRequest
  PROVE  Advances(L, V, A)
<1>1. PICK r \in Proposed(Head(requests)) : nodes' = r.node /\ waiting' = waiting \union r.out
  BY DEF ReceiveRequest
<1>2. Head(requests) \in 0..Len(Requests) /\ UNCHANGED <<mode, stored, snapshot, messages, shown, links>>
  BY FirstTyped DEF ReceiveRequest, messageVars
<1>3. SentIn(M) /\ TypedNodes(nodes) /\ StoresSafely(M) /\ M \in SUBSET Message
      /\ Safe(L, V, A, nodes, M) /\ stored \in [Node -> Log]
  BY TypeOKIs DEF EnvSafe
<1>4. TypedNodes(r.node) /\ DOMAIN r.node = Live /\ r.out \subseteq Message
  BY <1>1, <1>2, <1>3, ProposedTyped
<1>5. /\ Goes(L, V, A, nodes, M, r.node, r.out) /\ \A m \in r.out : m.type = "App"
      /\ \A n \in Live : /\ r.node[n].commit = nodes[n].commit
                         /\ Same(r.node[n].log, nodes[n].log, Len(nodes[n].log))
  BY <1>1, <1>2, <1>3, ProposedGoes
<1>6. PICK M2 : M2 = M \union r.out
  OBVIOUS
<1>7. PICK L2, V2, A2 : Safe(L2, V2, A2, r.node, M2) /\ Move(L, V, A, nodes, L2, V2, A2, r.node)
  BY <1>5, <1>6 DEF Goes
<1>8. SentIn(M2)'
  <2>1. links \in [Link -> Seq(M)] /\ Seq(M) \subseteq Seq(M2)
    BY <1>3, <1>6, MoreMessages DEF SentIn
  <2>2. links' \in [Link' -> Seq(M2)]
    BY <1>2, <2>1 DEF Link
  <2>3. messages' \subseteq M2 /\ waiting' \subseteq M2 /\ shown' \subseteq M2
    BY <1>1, <1>2, <1>3, <1>6 DEF SentIn
  <2> QED
    BY <2>2, <2>3 DEF SentIn
<1>9. ASSUME NEW n \in Live PROVE Same(r.node[n].log, stored[n], Len(stored[n]))
  <2>1. /\ r.node[n].log \in Seq(Logged) /\ nodes[n].log \in Seq(Logged) /\ n \in Node
        /\ Len(nodes[n].log) \in Nat
    BY <1>3, <1>4, NodeFields, LenProperties DEF Live
  <2>2. stored[n] \in Seq(Logged) /\ Len(stored[n]) \in Nat
    BY <1>3, <2>1, LogsAreLogged, LenProperties
  <2>3. Same(nodes[n].log, stored[n], Len(stored[n])) /\ Len(stored[n]) <= Len(nodes[n].log)
    BY <1>3 DEF StoresSafely, Same
  <2>4. Same(r.node[n].log, nodes[n].log, Len(nodes[n].log))
    BY <1>5
  <2> QED
    BY <2>1, <2>2, <2>3, <2>4, SameIs
<1>10. \A m \in M2 : m.type = "AppResp" =>
         Len(stored[m.from]) >= m.index \/ LastTerm(stored[m.from]) > m.term
  BY <1>3, <1>5, <1>6 DEF StoresSafely
<1>11. StoresSafely(M2)'
  <2>1. Live' = Live
    BY <1>1, <1>4 DEF Live
  <2>2. \A n \in Live : snapshot[n] <= r.node[n].commit
    BY <1>3, <1>5 DEF StoresSafely
  <2> QED
    BY <1>1, <1>2, <1>3, <1>9, <1>10, <2>1, <2>2 DEF StoresSafely
<1>12. (M2 \subseteq Message)'
  BY <1>2, <1>3, <1>4, <1>6, NextMessages
<1>13. EnvSafe(L2, V2, A2, M2)'
  BY <1>1, <1>7, <1>8, <1>11, <1>12 DEF EnvSafe
<1> QED
  BY <1>1, <1>2, <1>7, <1>13 DEF Advances

\* No step but a reset and a start takes anything back.
LEMMA StepAdvances ==
  ASSUME TypeOK, NEW L, NEW V, NEW A, NEW M, EnvSafe(L, V, A, M), [Next]_vars, ~Reset, restarted' = {}
  PROVE  Advances(L, V, A)
<1>1. SentIn(M) /\ TypedNodes(nodes) /\ M \in SUBSET Message
  BY TypeOKIs DEF EnvSafe
<1>2. CASE Tick
  BY <1>2, TickAdvances
<1>3. CASE ReceiveRequest
  BY <1>3, ReceiveAdvances
<1>4. CASE LinkPropose
  BY <1>4, LinkProposeAdvances
<1>5. CASE \E n \in Node : Start(n)
  BY <1>5 DEF Start
<1>6. CASE \E n \in Node : Stop(n)
  <2>1. PICK n \in Node : Stop(n)
    BY <1>6
  <2>2. /\ nodes' = [q \in Live \ {n} |-> nodes[q]] /\ waiting' \subseteq waiting
        /\ UNCHANGED <<mode, stored, snapshot, messages, shown, links>>
    BY <2>1 DEF Stop, messageVars
  <2>3. DOMAIN nodes' \subseteq Live /\ \A q \in DOMAIN nodes' : nodes'[q] = nodes[q]
    BY <2>2
  <2> QED
    BY <1>1, <2>2, <2>3, FewerAdvance DEF SentIn
<1>7. CASE \E m \in shown : deliverMessage(m)
  BY <1>7, deliverAdvances
<1>8. CASE \E m \in shown : dropMessage(m)
  <2>1. /\ messages' \subseteq messages /\ shown' \subseteq shown
        /\ UNCHANGED <<mode, nodes, stored, snapshot, waiting, links>>
    BY <1>8 DEF dropMessage, WithoutDropped, nodeVars
  <2>2. DOMAIN nodes' \subseteq Live /\ \A q \in DOMAIN nodes' : nodes'[q] = nodes[q]
    BY <2>1 DEF Live
  <2> QED
    BY <1>1, <2>1, <2>2, FewerAdvance DEF SentIn
<1>9. CASE \E l \in Link : LinkDeliver(l)
  BY <1>9, LinkDeliverAdvances
<1>10. CASE \E l \in Link : LinkDrop(l)
  <2>1. PICK l \in Link : LinkDrop(l)
    BY <1>10
  <2>2. /\ links[l] # <<>> /\ links' = [links EXCEPT ![l] = Tail(@)]
        /\ UNCHANGED <<mode, nodes, stored, snapshot, waiting, messages, shown>>
    BY <2>1 DEF LinkDrop, nodeVars
  <2>3. Tail(links[l]) \in Seq(M)
    BY <1>1, <2>2, HeadTailProperties DEF SentIn
  <2>4. links' \in [Link -> Seq(M)]
    BY <1>1, <2>2, <2>3 DEF SentIn
  <2>5. DOMAIN nodes' \subseteq Live /\ \A q \in DOMAIN nodes' : nodes'[q] = nodes[q]
    BY <2>2 DEF Live
  <2> QED
    BY <1>1, <2>2, <2>4, <2>5, FewerAdvance
<1>11. CASE UNCHANGED vars
  <2>1. UNCHANGED <<mode, nodes, stored, snapshot, waiting, messages, shown, links>>
    BY <1>11 DEF vars, nodeVars, messageVars
  <2>2. DOMAIN nodes' \subseteq Live /\ \A q \in DOMAIN nodes' : nodes'[q] = nodes[q]
    BY <2>1 DEF Live
  <2> QED
    BY <1>1, <2>1, <2>2, FewerAdvance DEF SentIn
<1> QED
  BY <1>2, <1>3, <1>4, <1>5, <1>6, <1>7, <1>8, <1>9, <1>10, <1>11 DEF Next

-----------------------------------------------------------------------------
(* The first state, and what is committed *)

\* Term 1 has the configuration, which every node accepted, and no leader.
FirstLogs == [t \in Nat |-> IF t = 1 THEN <<Configuration>> ELSE <<>>]
NoVotes == [q \in Node |-> [t \in Nat |-> 0]]
FirstAccepted == [q \in Node |-> [t \in Nat |-> IF t = 1 THEN 1 ELSE 0]]

LEMMA BootstrappedIs ==
  /\ Bootstrapped.term = 1 /\ Bootstrapped.role = "follower" /\ Bootstrapped.commit = 1
  /\ Bootstrapped.log = <<Configuration>> /\ Bootstrapped.vote = 0
  /\ <<Configuration>> \in Seq(Logged) /\ Len(<<Configuration>>) = 1
  /\ <<Configuration>>[1].term = 1
<1> DEFINE c == <<Configuration>>
           b == FromStorage(c, TRUE)
<1>1. Configuration \in Logged /\ Configuration.term = 1
  BY DEF Configuration, Entry, Logged
<1>2. c \in Seq(Logged) /\ Len(c) = 1 /\ c[1].term = 1
  BY <1>1
<1> HIDE DEF c
<1>3. /\ b.log = c /\ b.role = "follower" /\ b.vote = 0
      /\ DOMAIN b = {"term", "vote", "role", "granted", "log", "commit", "match", "voter"}
  BY DEF FromStorage
<1> HIDE DEF b
<1>4. Bootstrapped = [b EXCEPT !.term = 1, !.commit = 1]
  BY DEF Bootstrapped, b, c
<1>5. /\ Bootstrapped.term = 1 /\ Bootstrapped.role = "follower" /\ Bootstrapped.commit = 1
      /\ Bootstrapped.log = c /\ Bootstrapped.vote = 0
  BY <1>3, <1>4
<1> QED
  BY <1>2, <1>5 DEF c

LEMMA MadeIsSafe == Safe(FirstLogs, NoVotes, FirstAccepted, Made, {})
<1> DEFINE c == <<Configuration>>
<1>0. /\ c \in Seq(Logged) /\ Len(c) = 1 /\ c[1].term = 1 /\ c # <<>>
      /\ Bootstrapped.term = 1 /\ Bootstrapped.role = "follower" /\ Bootstrapped.commit = 1
      /\ Bootstrapped.log = c /\ Bootstrapped.vote = 0
  BY BootstrappedIs
<1> HIDE DEF c
<1>1. PICK L, V, A : L = FirstLogs /\ V = NoVotes /\ A = FirstAccepted
  OBVIOUS
<1>2. /\ L[1] = c /\ \A t \in Nat : L[t] = IF t = 1 THEN c ELSE <<>>
  BY <1>1 DEF FirstLogs, c
<1>3. \A q \in Node : \A t \in Nat : V[q][t] = 0 /\ A[q][t] = IF t = 1 THEN 1 ELSE 0
  BY <1>1 DEF NoVotes, FirstAccepted
<1>4. History(L, V, A)
  <2>1. L \in [Nat -> Seq(Logged)]
    BY <1>0, <1>1, EmptySeq DEF FirstLogs, c
  <2> QED
    BY <1>1, <2>1 DEF History, NoVotes, FirstAccepted
<1>5. DOMAIN Made = Node /\ \A n \in Node : Made[n] = Bootstrapped
  BY DEF Made
<1>6. \A t \in Nat : t # 1 => Len(L[t]) = 0 /\ L[t] = <<>>
  BY <1>2, EmptySeq
<1>7. \A t \in Nat : \A i : Own(L, t, i) => t = 1
  BY <1>6 DEF Own
<1>8. Same(c, L[1], 1) /\ Sound(L, c)
  BY <1>0, <1>2 DEF Same, Sound
<1>9. LeaderLogs(L)
  <2>1. ASSUME NEW t \in Nat
        PROVE  /\ Sound(L, L[t])
               /\ \A j \in 1..Len(L[t]) : L[t][j].term \in 1..t
               /\ L[t] # <<>> => L[t][Len(L[t])].term = t
    <3>1. CASE t = 1
      BY <1>0, <1>2, <1>8, <3>1
    <3>2. CASE t # 1
      BY <1>6, <3>2 DEF Sound
    <3> QED
      BY <3>1, <3>2
  <2> QED
    BY <2>1 DEF LeaderLogs
<1>10. Elected(L, V, Made) /\ Votes(V, Made)
  BY <1>3, <1>6 DEF Elected, Votes
<1>11. Accepted(L, A, Made)
  BY <1>0, <1>2, <1>3, <1>5, <1>6 DEF Accepted, Reached
<1>12. LaterLeaders(L, A, Made)
  <2>1. \A u \in Nat : L[u] # <<>> => u = 1
    BY <1>6
  <2>2. ASSUME NEW u \in Nat, L[u] # <<>>, NEW t \in Nat, t < u, NEW i \in Nat, Own(L, t, i)
        PROVE  FALSE
    <3>1. u = 1 /\ t = 1
      BY <1>7, <2>1, <2>2
    <3> QED
      BY <2>2, <3>1
  <2> QED
    BY <2>2 DEF LaterLeaders
<1>13. Chosen(L, A, 1, 1)
  <2>1. Own(L, 1, 1)
    BY <1>0, <1>2 DEF Own
  <2>2. Holders(A, 1, 1) = Node
    BY <1>3 DEF Holders
  <2> QED
    BY <2>1, <2>2, EveryNode DEF Chosen
<1>14. Committed(L, A, c, 1, 1)
  BY <1>0, <1>2, <1>8, <1>13 DEF Committed
<1>15. ASSUME NEW n \in Node PROVE SafeNode(L, V, A, Made, n)
  <2>1. Covers(L, A, Made, c, n, 1)
    BY <1>7 DEF Covers
  <2>2. \A t \in Nat : Len(c) >= A[n][t]
    BY <1>0, <1>3
  <2>3. V[n][1] = 0 /\ A[n][1] = 1
    BY <1>3
  <2>4. PICK s : s = Made[n]
    OBVIOUS
  <2>5. s.term = 1 /\ s.role = "follower" /\ s.commit = 1 /\ s.log = c /\ s.vote = 0
    BY <1>0, <1>5, <2>4
  <2>6. ASSUME NEW j \in 1..Len(s.log) PROVE s.log[j].term \in 1..s.term
    <3>a. Len(s.log) = 1
      BY ONLY <1>0, <2>5
    <3>1. s.log = c /\ s.term = 1 /\ j = 1
      BY ONLY <3>a, <2>5, j \in 1..Len(s.log)
    <3>2. s.log[j].term = 1
      BY <1>0, <3>1
    <3> QED
      BY <3>1, <3>2
  <2>7. /\ Sound(L, s.log) /\ Same(s.log, L[s.term], A[n][s.term])
        /\ Covers(L, A, Made, s.log, n, s.term) /\ V[n][s.term] = 0
        /\ Committed(L, A, s.log, s.commit, s.term)
    BY <1>8, <1>14, <2>1, <2>3, <2>5
  <2>8. \A t \in Nat : t <= s.term => Len(s.log) >= A[n][t] \/ LastTerm(s.log) > t
    BY <2>2, <2>5
  <2>9. SafeFollower(L, V, A, Made, n)
    <3>1. s.term >= 1 /\ V[n][s.term] \in {0, s.vote}
      BY <2>5, <2>7
    <3> QED
      BY ONLY <2>4, <2>6, <2>7, <2>8, <3>1 DEF SafeFollower
  <2> QED
    BY <2>4, <2>5, <2>9 DEF SafeNode
<1> QED
  BY <1>1, <1>4, <1>5, <1>9, <1>10, <1>11, <1>12, <1>15 DEF Safe

\* Nothing was sent, stored or snapshotted in a new episode.
LEMMA EmptyStores ==
  /\ \A S : <<>> \in Seq(S)
  /\ Len(<<>>) = 0
  /\ Same(Bootstrapped.log, <<>>, Len(<<>>)) /\ 0 <= Bootstrapped.commit
<1>1. \A S : <<>> \in Seq(S)
  BY EmptySeq
<1>2. Len(<<>>) = 0 /\ Len(Bootstrapped.log) = 1 /\ Bootstrapped.commit = 1
  BY BootstrappedIs
<1> QED
  BY <1>1, <1>2 DEF Same

SInv == restarted = {} => \E L, V, A, M : EnvSafe(L, V, A, M)

LEMMA InitSInv == Init => SInv
<1> SUFFICES ASSUME Init PROVE EnvSafe(FirstLogs, NoVotes, FirstAccepted, {})
  BY DEF SInv
<1>1. /\ nodes = Made /\ stored = [n \in Node |-> <<>>] /\ snapshot = [n \in Node |-> 0]
      /\ waiting = {} /\ messages = {} /\ shown = {} /\ links = [l \in Link |-> <<>>]
  BY DEF Init
<1>2. Live = Node /\ \A n \in Node : nodes[n] = Bootstrapped /\ stored[n] = <<>> /\ snapshot[n] = 0
  BY <1>1 DEF Live, Made
<1>3. StoresSafely({})
  BY <1>2, EmptyStores DEF StoresSafely
<1>4. SentIn({})
  BY <1>1, EmptyStores DEF SentIn
<1>5. Safe(FirstLogs, NoVotes, FirstAccepted, nodes, {})
  BY <1>1, MadeIsSafe
<1> QED
  BY <1>3, <1>4, <1>5 DEF EnvSafe

LEMMA ResetSInv == Reset => SInv'
<1> SUFFICES ASSUME Reset PROVE EnvSafe(FirstLogs, NoVotes, FirstAccepted, {})'
  BY DEF SInv
<1>1. /\ nodes' = Made /\ stored' = [n \in Node |-> <<>>] /\ snapshot' = [n \in Node |-> 0]
      /\ waiting' = {} /\ messages' = {} /\ shown' = {} /\ links' = [l \in Link |-> <<>>]
  BY DEF Reset
<1>2. Live' = Node /\ \A n \in Node : nodes'[n] = Bootstrapped /\ stored'[n] = <<>> /\ snapshot'[n] = 0
  BY <1>1 DEF Live, Made
<1>3. StoresSafely({})'
  BY <1>2, EmptyStores DEF StoresSafely
<1>4. SentIn({})'
  BY <1>1, EmptyStores DEF SentIn, Link
<1>5. Safe(FirstLogs, NoVotes, FirstAccepted, nodes', {})
  BY <1>1, MadeIsSafe
<1> QED
  BY <1>3, <1>4, <1>5 DEF EnvSafe

\* What was never started again stays so, but for a reset.
LEMMA NeverRestarted == ASSUME [Next]_vars, ~Reset, restarted' = {} PROVE restarted = {}
  BY DEF Next, Tick, ReceiveRequest, LinkPropose, Start, Stop, deliverMessage, dropMessage,
         LinkDeliver, LinkDrop, LinkReady, vars

LEMMA NextSInv == TypeOK /\ SInv /\ [Next]_vars => SInv'
<1> SUFFICES ASSUME TypeOK, SInv, [Next]_vars, ~Reset, restarted' = {} PROVE SInv'
  BY ResetSInv DEF SInv
<1>1. PICK L, V, A, M : EnvSafe(L, V, A, M)
  BY NeverRestarted DEF SInv
<1>2. Advances(L, V, A)
  BY <1>1, StepAdvances
<1>3. PICK L2, V2, A2, M2 : EnvSafe(L2, V2, A2, M2)'
  BY <1>2 DEF Advances
<1> QED
  BY <1>3 DEF SInv

\* Log a has the first c entries of what the leader of term t had chosen up to i.
ChosenIn(L, A, a, c, t, i) ==
  /\ a \in Seq(Logged) /\ c \in Nat /\ t \in Nat /\ i \in Nat
  /\ c <= i /\ Chosen(L, A, t, i) /\ Same(a, L[t], c)

LEMMA OneCommitted ==
  ASSUME NEW L, NEW V, NEW A, NEW ns, History(L, V, A), LaterLeaders(L, A, ns),
         NEW a, NEW c, NEW t, NEW i, ChosenIn(L, A, a, c, t, i),
         NEW b, NEW d, NEW u, NEW k, ChosenIn(L, A, b, d, u, k), t <= u,
         NEW j \in 1..c, j <= d
  PROVE  a[j] = b[j]
<1>1. /\ a[j] = L[t][j] /\ b[j] = L[u][j] /\ t \in Nat /\ u \in Nat /\ i \in Nat
      /\ c \in Nat /\ c <= i /\ Chosen(L, A, t, i)
  BY DEF ChosenIn, Same
<1>2. CASE t = u
  BY <1>1, <1>2
<1>3. CASE t < u
  <2>1. L[u] # <<>>
    <3>1. k \in 1..Len(L[u]) /\ L[u] \in Seq(Logged)
      BY <1>1, HistoryIs DEF ChosenIn, Chosen, Own
    <3> QED
      BY <3>1, EntryOf
  <2>2. Kept(L, A, ns, L[u], t, i)
    BY <1>1, <1>3, <2>1 DEF LaterLeaders, Chosen
  <2>3. Same(L[u], L[t], i)
    BY <1>1, <2>2, ChosenIsNotLost DEF Kept
  <2>4. L[u][j] = L[t][j]
    BY <1>1, <2>3 DEF Same
  <2> QED
    BY <1>1, <2>4
<1> QED
  BY <1>1, <1>2, <1>3

\* Two committed logs agree as far as both go.
LEMMA CommittedAgree ==
  ASSUME NEW L, NEW V, NEW A, NEW ns, History(L, V, A), LaterLeaders(L, A, ns),
         NEW a \in Seq(Logged), NEW b \in Seq(Logged), NEW c \in Nat, NEW d \in Nat,
         NEW T, NEW U, Committed(L, A, a, c, T), Committed(L, A, b, d, U),
         NEW j \in 1..c, j <= d
  PROVE  a[j] = b[j]
<1>1. PICK t \in 1..T : \E i \in 1..Len(L[t]) : c <= i /\ Chosen(L, A, t, i) /\ Same(a, L[t], c)
  BY DEF Committed
<1>2. PICK i \in 1..Len(L[t]) : c <= i /\ Chosen(L, A, t, i) /\ Same(a, L[t], c)
  BY <1>1
<1>3. PICK u \in 1..U : \E k \in 1..Len(L[u]) : d <= k /\ Chosen(L, A, u, k) /\ Same(b, L[u], d)
  BY DEF Committed
<1>4. PICK k \in 1..Len(L[u]) : d <= k /\ Chosen(L, A, u, k) /\ Same(b, L[u], d)
  BY <1>3
<1>5. t \in Nat /\ u \in Nat /\ i \in Nat /\ k \in Nat
  BY <1>1, <1>2, <1>3, <1>4
<1>6. ChosenIn(L, A, a, c, t, i) /\ ChosenIn(L, A, b, d, u, k)
  BY <1>2, <1>4, <1>5 DEF ChosenIn
<1>7. CASE t <= u
  BY <1>6, <1>7, OneCommitted
<1>8. CASE u <= t
  <2>1. j \in 1..d /\ j <= c
    OBVIOUS
  <2>2. b[j] = a[j]
    BY <1>6, <1>8, <2>1, OneCommitted
  <2> QED
    BY <2>2
<1> QED
  BY <1>5, <1>7, <1>8

-----------------------------------------------------------------------------
(* What the bug definitions compare *)

\* The committed part of a stored log, of which the log k of the node has all.
Part(c, log) == IF c < Len(log) THEN SubSeq(log, 1, c) ELSE log

LEMMA CommittedPart ==
  ASSUME NEW c \in Nat, NEW log \in Seq(Logged), NEW k \in Seq(Logged), Same(k, log, Len(log))
  PROVE  /\ Len(Part(c, log)) = IF c < Len(log) THEN c ELSE Len(log)
         /\ \A j \in DOMAIN Part(c, log) : j \in 1..c /\ Part(c, log)[j] = k[j]
<1>0. PICK p : p = Part(c, log)
  OBVIOUS
<1>1. Len(log) \in Nat /\ DOMAIN log = 1..Len(log)
  BY LenProperties
<1>2. \A j \in 1..Len(log) : log[j] = k[j]
  BY <1>1 DEF Same
<1>3. CASE c < Len(log)
  <2>1. p = SubSeq(log, 1, c) /\ 1 \in 1..(Len(log) + 1) /\ c \in 1-1..Len(log)
    BY <1>0, <1>1, <1>3 DEF Part
  <2>2. Len(p) = c /\ \A j \in 1..c : p[j] = log[j]
    BY <1>1, <1>3, <2>1, SubSeqProperties
  <2>3. DOMAIN p = 1..c
    BY <1>1, <1>3, <2>1, SubSeqProperties
  <2>4. \A j \in 1..c : j \in 1..Len(log)
    BY <1>1, <1>3
  <2> QED
    BY <1>0, <1>2, <1>3, <2>2, <2>3, <2>4
<1>4. CASE ~(c < Len(log))
  <2>1. p = log /\ \A j \in 1..Len(log) : j \in 1..c
    BY <1>0, <1>1, <1>4 DEF Part
  <2> QED
    BY <1>0, <1>1, <1>2, <1>4, <2>1
<1> QED
  BY <1>3, <1>4

LEMMA NoneAgree == DOMAIN <<>> = {} /\ Len(<<>>) = 0
  BY EmptySeq

\* What a step reports, where the history goes on from L, V, A to L2, V2, A2.
LEMMA NothingReported ==
  ASSUME TypeOK, TypeOK', NEW L, NEW V, NEW A, NEW M, EnvSafe(L, V, A, M),
         mode' = mode, Advances(L, V, A)
  PROVE  /\ ~InconsistentLogs' /\ ~ModifiedLog
         /\ ReducedLog => Live' # Live
<1>1. PICK L2, V2, A2, M2 :
        /\ EnvSafe(L2, V2, A2, M2)' /\ Move(L, V, A, nodes, L2, V2, A2, nodes')
        /\ \A n \in Live' : stored'[n] = stored[n] \/ stored'[n] = nodes'[n].log
  BY DEF Advances
<1>2. Safe(L, V, A, nodes, M) /\ StoresSafely(M) /\ TypedNodes(nodes) /\ stored \in [Node -> Log]
  BY TypeOKIs DEF EnvSafe
<1>3. Safe(L2, V2, A2, nodes', M2) /\ StoresSafely(M2)' /\ TypedNodes(nodes')
  BY <1>1 DEF EnvSafe, Move
<1>4. stored' \in [Node -> Log]
  <2>1. stored' \in [Node -> Log']
    BY DEF TypeOK
  <2> QED
    BY <2>1, SameTypes
<1>5. Live = DOMAIN nodes /\ Live' = DOMAIN nodes' /\ Live' \subseteq Live
  BY <1>1 DEF Live, Move, Later
<1>6. ASSUME NEW n \in Live
      PROVE  /\ n \in Node /\ nodes[n].log \in Seq(Logged) /\ nodes[n].commit \in Nat
             /\ stored[n] \in Seq(Logged) /\ Len(stored[n]) \in Nat /\ nodes[n].term \in Nat
             /\ Committed(L, A, nodes[n].log, nodes[n].commit, nodes[n].term)
             /\ Len(committedLog(n)) = IF nodes[n].commit < Len(stored[n])
                                       THEN nodes[n].commit ELSE Len(stored[n])
             /\ \A j \in DOMAIN committedLog(n) :
                  j \in 1..nodes[n].commit /\ committedLog(n)[j] = nodes[n].log[j]
  <2>1. n \in Node /\ nodes[n].log \in Seq(Logged) /\ nodes[n].commit \in Nat /\ nodes[n].term \in Nat
    BY <1>2, <1>5, NodeFields
  <2>2. stored[n] \in Seq(Logged) /\ Len(stored[n]) \in Nat
    BY <1>2, <2>1, LogsAreLogged, LenProperties
  <2>3. Committed(L, A, nodes[n].log, nodes[n].commit, nodes[n].term)
    BY <1>2, <1>5, CommittedIsLogged
  <2>4. Same(nodes[n].log, stored[n], Len(stored[n]))
    BY <1>2 DEF StoresSafely
  <2>5. committedLog(n) = Part(nodes[n].commit, stored[n])
    BY DEF committedLog, Part
  <2> QED
    BY <2>1, <2>2, <2>3, <2>4, <2>5, CommittedPart
<1>7. ASSUME NEW n \in Live'
      PROVE  /\ n \in Node /\ nodes'[n].log \in Seq(Logged) /\ nodes'[n].commit \in Nat
             /\ Len(stored'[n]) \in Nat /\ nodes'[n].commit <= Len(nodes'[n].log)
             /\ Committed(L2, A2, nodes'[n].log, nodes'[n].commit, nodes'[n].term)
             /\ Len(committedLog(n)') = IF nodes'[n].commit < Len(stored'[n])
                                       THEN nodes'[n].commit ELSE Len(stored'[n])
             /\ \A j \in DOMAIN committedLog(n)' :
                  j \in 1..nodes'[n].commit /\ committedLog(n)'[j] = nodes'[n].log[j]
  <2>1. n \in Node /\ nodes'[n].log \in Seq(Logged) /\ nodes'[n].commit \in Nat
    BY <1>3, <1>5, NodeFields
  <2>2. stored'[n] \in Seq(Logged) /\ Len(stored'[n]) \in Nat
    BY <1>4, <2>1, LogsAreLogged, LenProperties
  <2>3. /\ Committed(L2, A2, nodes'[n].log, nodes'[n].commit, nodes'[n].term)
        /\ nodes'[n].commit <= Len(nodes'[n].log)
    BY <1>3, <1>5, CommittedIsLogged
  <2>4. Same(nodes'[n].log, stored'[n], Len(stored'[n]))
    BY <1>3 DEF StoresSafely
  <2>5. committedLog(n)' = Part(nodes'[n].commit, stored'[n])
    BY DEF committedLog, Part
  <2> QED
    BY <2>1, <2>2, <2>3, <2>4, <2>5, CommittedPart
<1>8. History(L2, V2, A2) /\ LaterLeaders(L2, A2, nodes')
  BY <1>3 DEF Safe
<1>9. \A n : /\ n \notin Live => committedLog(n) = <<>>
             /\ n \notin Live' => committedLog(n)' = <<>>
  BY DEF committedLog
<1>10. ~InconsistentLogs'
  <2>1. SUFFICES ASSUME InconsistentLogs' PROVE FALSE
    OBVIOUS
  <2>2. PICK n, q \in Node : \E j \in DOMAIN committedLog(n)' \intersect DOMAIN committedLog(q)' :
                               committedLog(n)'[j] # committedLog(q)'[j]
    BY <2>1 DEF InconsistentLogs, Differ
  <2>3. PICK j \in DOMAIN committedLog(n)' \intersect DOMAIN committedLog(q)' :
               committedLog(n)'[j] # committedLog(q)'[j]
    BY <2>2
  <2>4. n \in Live' /\ q \in Live'
    BY <1>9, <2>3, NoneAgree
  <2>5. /\ j \in 1..nodes'[n].commit /\ committedLog(n)'[j] = nodes'[n].log[j]
        /\ j \in 1..nodes'[q].commit /\ committedLog(q)'[j] = nodes'[q].log[j]
    BY <1>7, <2>3, <2>4
  <2>6. nodes'[n].log[j] = nodes'[q].log[j]
    <3>1. j <= nodes'[q].commit
      BY <2>5
    <3> QED
      BY <1>7, <1>8, <2>4, <2>5, <3>1, CommittedAgree
  <2> QED
    BY <2>3, <2>5, <2>6
<1>11. ~ModifiedLog
  <2>1. SUFFICES ASSUME ModifiedLog PROVE FALSE
    OBVIOUS
  <2>2. PICK n \in Node : \E j \in DOMAIN committedLog(n)' \intersect DOMAIN committedLog(n) :
                            committedLog(n)'[j] # committedLog(n)[j]
    BY <2>1 DEF ModifiedLog, Differ
  <2>3. PICK j \in DOMAIN committedLog(n)' \intersect DOMAIN committedLog(n) :
               committedLog(n)'[j] # committedLog(n)[j]
    BY <2>2
  <2>4. n \in Live' /\ n \in Live
    BY <1>9, <2>3, NoneAgree
  <2>5. /\ j \in 1..nodes'[n].commit /\ committedLog(n)'[j] = nodes'[n].log[j]
        /\ j \in 1..nodes[n].commit /\ committedLog(n)[j] = nodes[n].log[j]
    BY <1>6, <1>7, <2>3, <2>4
  <2>6. Committed(L2, A2, nodes[n].log, nodes[n].commit, nodes[n].term)
    <3>1. nodes[n].term <= nodes[n].term
      BY <1>6, <2>4
    <3> QED
      BY <1>1, <1>6, <2>4, <3>1, CommittedStays
  <2>7. nodes'[n].log[j] = nodes[n].log[j]
    <3>1. j <= nodes[n].commit
      BY <2>5
    <3> QED
      BY <1>6, <1>7, <1>8, <2>4, <2>5, <2>6, <3>1, CommittedAgree
  <2> QED
    BY <2>3, <2>5, <2>7
<1>12. ASSUME Live' = Live PROVE ~ReducedLog
  <2>1. ASSUME NEW n \in Node PROVE ~(Len(committedLog(n)') < Len(committedLog(n)))
    <3>1. CASE n \notin Live
      BY <1>9, <1>12, <3>1, NoneAgree
    <3>2. CASE n \in Live
      <4>1. nodes'[n].commit >= nodes[n].commit
        BY <1>1, <1>5, <1>12, <3>2 DEF Move, Later
      <4>2. stored'[n] = stored[n] \/ stored'[n] = nodes'[n].log
        BY <1>1, <1>12, <3>2
      <4>3. /\ nodes[n].commit \in Nat /\ nodes'[n].commit \in Nat
            /\ Len(stored[n]) \in Nat /\ Len(stored'[n]) \in Nat
            /\ nodes'[n].commit <= Len(nodes'[n].log)
            /\ Len(committedLog(n)) = IF nodes[n].commit < Len(stored[n])
                                      THEN nodes[n].commit ELSE Len(stored[n])
            /\ Len(committedLog(n)') = IF nodes'[n].commit < Len(stored'[n])
                                       THEN nodes'[n].commit ELSE Len(stored'[n])
        BY <1>6, <1>7, <1>12, <3>2
      <4>4. CASE stored'[n] = stored[n]
        BY <4>1, <4>3, <4>4
      <4>5. CASE stored'[n] = nodes'[n].log
        BY <4>1, <4>3, <4>5
      <4> QED
        BY <4>2, <4>4, <4>5
    <3> QED
      BY <3>1, <3>2
  <2> QED
    BY <2>1 DEF ReducedLog
<1> QED
  BY <1>10, <1>11, <1>12

LEMMA StaysInMode == ASSUME [Next]_vars PROVE mode' = mode
  BY DEF Next, Reset, Tick, ReceiveRequest, LinkPropose, Start, Stop, deliverMessage, dropMessage,
         LinkDeliver, LinkDrop, LinkReady, vars

-----------------------------------------------------------------------------
(* What is acknowledged, when nodes were started again *)

\* The log has i entries, or one of term t or later at its end.
Has(log, i, t) == Len(log) >= i \/ LastTerm(log) >= t

Grew(s, s2) ==
  /\ s2.term >= s.term
  /\ \A i, t \in Nat : t <= s.term /\ Has(s.log, i, t) => Has(s2.log, i, t)

\* A leader sends a log that ends with an entry of its term.
Led(s) == s.role = "leader" => s.log # <<>> /\ LastTerm(s.log) = s.term
Full(m) == m.type = "App" => m.log # <<>> /\ LastTerm(m.log) = m.term

Answers(s, m) == m.type = "AppResp" => m.term <= s.term /\ Has(s.log, m.index, m.term)

Gains(s, r) ==
  /\ Led(r.node) /\ Grew(s, r.node)
  /\ \A x \in r.out : Full(x) /\ Answers(r.node, x)

LEMMA Fields ==
  ASSUME NEW s \in NodeState
  PROVE  /\ s.term \in Nat /\ s.log \in Seq(Logged) /\ Len(s.log) \in Nat /\ LastTerm(s.log) \in Nat
<1>1. s.term \in Nat /\ s.log \in Seq(Logged)
  BY NodeStateIs, LogsAreLogged
<1> QED
  BY <1>1, EntryOf

LEMMA GrewMore ==
  ASSUME NEW s \in NodeState, NEW s1 \in NodeState, NEW s2 \in NodeState, Grew(s, s1), Grew(s1, s2)
  PROVE  Grew(s, s2)
  BY Fields DEF Grew

LEMMA SameGrew ==
  ASSUME NEW s \in NodeState, NEW s2 \in NodeState, s2.log = s.log, s2.term >= s.term
  PROVE  Grew(s, s2)
  BY DEF Grew

LEMMA IgnoredGains ==
  ASSUME NEW s \in NodeState, Led(s) PROVE Gains(s, Ignored(s))
<1>1. s.term >= s.term
  BY Fields
<1>2. Ignored(s).node = s /\ Ignored(s).out = {}
  BY DEF Ignored, Outcome
<1> QED
  BY <1>1, <1>2, SameGrew DEF Gains

LEMMA AppendsFull ==
  ASSUME NEW n, NEW s \in NodeState, s.role = "leader", Led(s), NEW x \in Appends(n, s), NEW s2
  PROVE  Full(x) /\ Answers(s2, x)
<1>1. x.type = "App" /\ x.log = s.log /\ x.term = s.term
  BY DEF Appends
<1> QED
  BY <1>1 DEF Full, Answers, Led

LEMMA AppendEntryGains ==
  ASSUME NEW n \in Node, NEW s \in NodeState, s.role = "leader", s.term # 0, s.vote # 0,
         NEW d \in 0..Len(Requests)
  PROVE  Gains(s, AppendEntry(n, s, d))
<1> DEFINE log == Append(s.log, Entry(s.term, d))
           led == [s EXCEPT !.log = log, !.match[n] = Len(log)]
<1>1. AppendEntry(n, s, d) = [node |-> led, out |-> Appends(n, led)]
  BY DEF AppendEntry, Outcome
<1>2. Typed(AppendEntry(n, s, d).node)
  BY AppendEntryTyped
<1>3. Extended(log, s.log, s.term)
  <2>1. s.log \in Seq(Logged) /\ s.term \in Nat
    BY Fields
  <2>2. d \in Nat
    BY LogIs
  <2>3. Entry(s.term, d) \in Logged /\ Entry(s.term, d).term = s.term
    BY <2>1, <2>2 DEF Entry, Logged
  <2> QED
    BY <2>1, <2>3, AppendedIs
<1> HIDE DEF log
<1>4. led.log = log /\ led.term = s.term /\ led.role = "leader"
  BY NodeStateIs
<1>5. led \in NodeState
  BY <1>1, <1>2 DEF Typed
<1> HIDE DEF led
<1>6. Led(led)
  BY <1>3, <1>4 DEF Led, Extended
<1>7. Grew(s, led)
  <2>1. s.term \in Nat /\ LastTerm(log) = s.term
    BY <1>3, Fields DEF Extended
  <2> QED
    BY <1>4, <2>1 DEF Grew, Has
<1>8. \A x \in Appends(n, led) : Full(x) /\ Answers(led, x)
  BY <1>4, <1>5, <1>6, AppendsFull
<1>9. PICK r : r = AppendEntry(n, s, d)
  OBVIOUS
<1>10. r.node = led /\ r.out = Appends(n, led)
  BY <1>1, <1>9
<1> QED
  BY <1>6, <1>7, <1>8, <1>9, <1>10 DEF Gains

\* The same of logs, without the terms.
LEMMA MergedEither ==
  ASSUME NEW mine \in Seq(Logged), NEW theirs \in Seq(Logged), NEW new, new = Merged(mine, theirs)
  PROVE  \/ new = mine /\ \A j \in 1..Len(theirs) : j <= Len(mine)
         \/ \E k \in 1..Len(theirs) :
              /\ Len(new) = Len(theirs)
              /\ \A j \in 1..Len(theirs) : new[j] = IF j < k THEN mine[j] ELSE theirs[j]
<1>1. \/ /\ Merged(mine, theirs) = mine
         /\ \A i \in 1..Len(theirs) : i <= Len(mine) /\ mine[i].term = theirs[i].term
      \/ \E k \in 1..Len(theirs) :
           /\ k - 1 <= Len(mine) /\ (k > Len(mine) \/ mine[k].term # theirs[k].term)
           /\ \A i \in 1..(k - 1) : mine[i].term = theirs[i].term
           /\ Len(Merged(mine, theirs)) = Len(theirs)
           /\ \A i \in 1..Len(theirs) :
                Merged(mine, theirs)[i] = IF i < k THEN mine[i] ELSE theirs[i]
  BY MergedIs
<1>2. CASE /\ Merged(mine, theirs) = mine
           /\ \A i \in 1..Len(theirs) : i <= Len(mine) /\ mine[i].term = theirs[i].term
  BY <1>2
<1>3. CASE \E k \in 1..Len(theirs) :
             /\ k - 1 <= Len(mine) /\ (k > Len(mine) \/ mine[k].term # theirs[k].term)
             /\ \A i \in 1..(k - 1) : mine[i].term = theirs[i].term
             /\ Len(Merged(mine, theirs)) = Len(theirs)
             /\ \A i \in 1..Len(theirs) :
                  Merged(mine, theirs)[i] = IF i < k THEN mine[i] ELSE theirs[i]
  <2>1. PICK k \in 1..Len(theirs) :
          /\ Len(Merged(mine, theirs)) = Len(theirs)
          /\ \A i \in 1..Len(theirs) :
               Merged(mine, theirs)[i] = IF i < k THEN mine[i] ELSE theirs[i]
    BY <1>3
  <2> QED
    BY <2>1
<1> QED
  BY <1>1, <1>2, <1>3

\* A follower that takes entries has all of them, or ends as the leader does.
LEMMA MergedHas ==
  ASSUME NEW mine \in Seq(Logged), NEW theirs \in Seq(Logged), theirs # <<>>,
         NEW i \in Nat, NEW t \in Nat, t <= LastTerm(theirs), Has(mine, i, t)
  PROVE  /\ Has(Merged(mine, theirs), i, t)
         /\ Has(Merged(mine, theirs), Len(theirs), LastTerm(theirs))
<1>1. PICK new : new = Merged(mine, theirs)
  OBVIOUS
<1>2. Len(mine) \in Nat /\ Len(theirs) \in Nat /\ Len(theirs) \in 1..Len(theirs)
      /\ LastTerm(theirs) = theirs[Len(theirs)].term /\ LastTerm(theirs) \in Nat
  BY EntryOf
<1>3. \/ new = mine /\ \A j \in 1..Len(theirs) : j <= Len(mine)
      \/ \E k \in 1..Len(theirs) :
           /\ Len(new) = Len(theirs)
           /\ \A j \in 1..Len(theirs) : new[j] = IF j < k THEN mine[j] ELSE theirs[j]
  BY <1>1, MergedEither
<1>4. CASE new = mine /\ \A j \in 1..Len(theirs) : j <= Len(mine)
  <2>1. Len(theirs) <= Len(mine)
    BY <1>2, <1>4
  <2>2. Has(mine, Len(theirs), LastTerm(theirs))
    BY <1>2, <2>1 DEF Has
  <2> QED
    BY <1>1, <1>4, <2>2
<1>5. CASE \E k \in 1..Len(theirs) :
             /\ Len(new) = Len(theirs)
             /\ \A j \in 1..Len(theirs) : new[j] = IF j < k THEN mine[j] ELSE theirs[j]
  <2>1. PICK k \in 1..Len(theirs) :
             /\ Len(new) = Len(theirs)
             /\ \A j \in 1..Len(theirs) : new[j] = IF j < k THEN mine[j] ELSE theirs[j]
    BY <1>5
  <2>2. ~(Len(theirs) < k)
    BY <1>2
  <2>3. new[Len(new)] = theirs[Len(theirs)] /\ Len(new) = Len(theirs)
    BY <1>2, <2>1, <2>2
  <2>4. new \in Seq(Logged) /\ new # <<>>
    <3>1. new \in Seq(Logged)
      BY <1>1, MergedIs
    <3> QED
      BY <1>2, <2>3, <3>1, EntryOf
  <2>5. LastTerm(new) = LastTerm(theirs)
    BY <1>2, <2>3, <2>4 DEF LastTerm
  <2> QED
    BY <1>1, <1>2, <2>3, <2>5 DEF Has
<1> QED
  BY <1>3, <1>4, <1>5

LEMMA AppGains ==
  ASSUME NEW n \in Node, NEW s, Typed(s), Led(s), NEW m \in Message, s.term = m.term,
         m.type = "App", Full(m)
  PROVE  Gains(s, HandleApp(n, s, m))
<1> DEFINE c == Max({s.commit, Min({m.commit, Len(m.log)})})
           log == Merged(s.log, m.log)
           s2 == [s EXCEPT !.role = "follower", !.vote = IF @ = 0 THEN m.from ELSE @,
                           !.granted = {}, !.log = log, !.commit = c]
           x == [type |-> "AppResp", from |-> n, to |-> m.from, term |-> s.term,
                 index |-> Len(m.log)]
<1>1. s \in NodeState
  BY DEF Typed
<1>2. CASE s.role = "leader"
  BY <1>1, <1>2, IgnoredGains DEF HandleApp
<1>3. CASE s.role # "leader"
  <2>1. HandleApp(n, s, m) = [node |-> s2, out |-> {x}]
    BY <1>3 DEF HandleApp, Outcome
  <2>2. Handled(n, s, m) = HandleApp(n, s, m)
    BY DEF Handled
  <2>3. Typed(HandleApp(n, s, m).node)
    BY <2>2, HandledTyped
  <2>4. s2.term = s.term /\ s2.role = "follower" /\ s2.log = log
    <3> HIDE DEF log, c
    <3> QED
      BY <1>1, NodeStateIs
  <2>5. x.type = "AppResp" /\ x.term = s.term /\ x.index = Len(m.log)
    OBVIOUS
  <2>6. m.log \in Seq(Logged) /\ m.log # <<>> /\ LastTerm(m.log) = s.term
    BY MessageFields, LogsAreLogged DEF Full
  <2>7. s.log \in Seq(Logged) /\ s.term \in Nat /\ Len(s.log) \in Nat
    BY <1>1, Fields
  <2>8. ASSUME NEW i \in Nat, NEW t \in Nat, t <= s.term, Has(s.log, i, t) PROVE Has(log, i, t)
    BY <2>6, <2>7, <2>8, MergedHas
  <2>9. Has(log, Len(m.log), s.term)
    <3>1. Has(s.log, 0, 0)
      BY <2>7 DEF Has
    <3>2. 0 <= LastTerm(m.log)
      BY <2>6, <2>7
    <3> QED
      BY <2>6, <2>7, <3>1, <3>2, MergedHas
  <2> HIDE DEF s2, x, log
  <2>10. s.term <= s2.term /\ Grew(s, s2)
    BY <2>4, <2>7, <2>8 DEF Grew
  <2>11. Led(s2) /\ Full(x) /\ Answers(s2, x)
    BY <2>4, <2>5, <2>9, <2>10 DEF Led, Full, Answers
  <2>12. PICK r : r = HandleApp(n, s, m)
    OBVIOUS
  <2>13. r.node = s2 /\ r.out = {x}
    BY <2>1, <2>12
  <2> QED
    BY <2>10, <2>11, <2>12, <2>13 DEF Gains
<1> QED
  BY <1>2, <1>3

LEMMA HandledGains ==
  ASSUME NEW n \in Node, NEW s, Typed(s), Led(s), NEW m \in Message, s.term = m.term, Full(m)
  PROVE  Gains(s, Handled(n, s, m))
<1>0. /\ s \in NodeState /\ s.term \in Nat /\ s.term >= s.term /\ s.term # 0
      /\ s.role # "follower" => s.vote # 0
  <2>1. m.term \in 1..MaxTerm /\ s \in NodeState /\ MaxTerm \in Nat
    BY MessageFields, NodeAssumption DEF Typed
  <2>2. s.role # "follower" => s.vote # 0
    BY NodeStateIs DEF Typed, FitsRole
  <2> QED
    BY <2>1, <2>2
<1>1. CASE m.type = "Vote"
  <2> DEFINE v == [s EXCEPT !.vote = m.from]
             x == [type |-> "VoteResp", from |-> n, to |-> m.from, term |-> s.term]
  <2>1. Handled(n, s, m) \in {Ignored(s), [node |-> v, out |-> {x}]}
    BY <1>1 DEF Handled, HandleVote, Outcome
  <2>2. v \in NodeState
    <3>1. m.from \in 0..NumNodes
      BY MessageFields, NodeAssumption DEF Node
    <3> QED
      BY <1>0, <3>1 DEF NodeState
  <2>3. v.log = s.log /\ v.role = s.role /\ v.term = s.term
    BY <1>0, NodeStateIs
  <2>4. x.type = "VoteResp"
    OBVIOUS
  <2> HIDE DEF v, x
  <2>5. Grew(s, v) /\ Led(v) /\ Full(x) /\ Answers(v, x)
    BY <1>0, <2>2, <2>3, <2>4, SameGrew DEF Led, Full, Answers
  <2>6. PICK r : r = [node |-> v, out |-> {x}]
    OBVIOUS
  <2>7. r.node = v /\ r.out = {x}
    BY <2>6
  <2>8. Gains(s, [node |-> v, out |-> {x}])
    BY <2>5, <2>6, <2>7 DEF Gains
  <2> QED
    BY <1>0, <2>1, <2>8, IgnoredGains
<1>2. CASE m.type = "VoteResp"
  <2> DEFINE c == [s EXCEPT !.granted = @ \union {m.from}]
             l == [c EXCEPT !.role = "leader"]
  <2>1. \/ Handled(n, s, m) = Ignored(s)
        \/ s.role = "candidate" /\ Handled(n, s, m) = AppendEntry(n, l, 0)
        \/ s.role = "candidate" /\ Handled(n, s, m) = Ignored(c)
    <3>1. \/ HandleVoteResp(n, s, m) = Ignored(s)
          \/ s.role = "candidate" /\ HandleVoteResp(n, s, m) = AppendEntry(n, l, 0)
          \/ s.role = "candidate" /\ HandleVoteResp(n, s, m) = Ignored(c)
      <4>1. s.role \in {"follower", "candidate", "leader"}
        BY <1>0, NodeStateIs
      <4> HIDE DEF c
      <4>2. HandleVoteResp(n, s, m) = IF s.role # "candidate" THEN Ignored(s)
                                      ELSE IF IsMajority(c.granted) THEN AppendEntry(n, l, 0)
                                      ELSE Ignored(c)
        BY DEF HandleVoteResp, c
      <4> QED
        BY <4>1, <4>2
    <3> QED
      BY <1>2, <3>1 DEF Handled
  <2>2. c \in NodeState
    <3>1. s.granted \union {m.from} \in SUBSET Node
      BY <1>0, NodeStateIs, MessageFields
    <3> QED
      BY <1>0, <3>1 DEF NodeState
  <2>3. c.role = s.role /\ c.log = s.log /\ c.term = s.term /\ c.vote = s.vote
    BY <1>0, NodeStateIs
  <2> HIDE DEF c
  <2>4. l \in NodeState
    BY <2>2 DEF NodeState
  <2>5. l.role = "leader" /\ l.log = s.log /\ l.term = s.term /\ l.vote = s.vote
    BY <2>2, <2>3, NodeStateIs
  <2> HIDE DEF l
  <2>6. CASE Handled(n, s, m) = Ignored(s)
    BY <1>0, <2>6, IgnoredGains
  <2>7. CASE s.role = "candidate" /\ Handled(n, s, m) = AppendEntry(n, l, 0)
    <3>1. 0 \in 0..Len(Requests)
      BY LogIs
    <3>2. l.term # 0 /\ l.vote # 0
      BY <1>0, <2>5, <2>7
    <3>3. Gains(l, AppendEntry(n, l, 0)) /\ Typed(AppendEntry(n, l, 0).node)
      BY <2>4, <2>5, <3>1, <3>2, AppendEntryGains, AppendEntryTyped
    <3>4. PICK r : r = AppendEntry(n, l, 0)
      OBVIOUS
    <3>5. Gains(l, r) /\ r.node \in NodeState
      BY <3>3, <3>4 DEF Typed
    <3>6. Grew(s, l)
      BY <1>0, <2>4, <2>5, SameGrew
    <3>7. Gains(s, r)
      BY <1>0, <2>4, <3>5, <3>6, GrewMore DEF Gains
    <3> QED
      BY <2>7, <3>4, <3>7
  <2>8. CASE s.role = "candidate" /\ Handled(n, s, m) = Ignored(c)
    <3>1. Grew(s, c) /\ Led(c)
      BY <1>0, <2>2, <2>3, <2>8, SameGrew DEF Led
    <3>2. PICK r : r = Ignored(c)
      OBVIOUS
    <3>3. r.node = c /\ r.out = {}
      BY <3>2 DEF Ignored, Outcome
    <3> QED
      BY <2>8, <3>1, <3>2, <3>3 DEF Gains
  <2> QED
    BY <2>1, <2>6, <2>7, <2>8
<1>3. CASE m.type = "App"
  BY <1>3, AppGains DEF Handled
<1>4. CASE m.type = "AppResp"
  <2> DEFINE l == [s EXCEPT !.match[m.from] = Max({@, m.index})]
             k == Max({s.commit} \union Committable(l))
             c == [l EXCEPT !.commit = k]
  <2>1. Handled(n, s, m) = HandleAppResp(n, s, m)
    BY <1>4 DEF Handled
  <2>2. l \in NodeState /\ l.log = s.log /\ l.role = s.role /\ l.term = s.term /\ l.commit = s.commit
    <3>1. Max({s.match[m.from], m.index}) \in Nat
      BY <1>0, <1>4, NodeStateIs, MessageFields, MaxOfTwo
    <3> DEFINE d == Max({s.match[m.from], m.index})
               e == [s.match EXCEPT ![m.from] = d]
    <3>2. e \in [Node -> Nat]
      <4>1. s.match \in [Node -> Nat]
        BY <1>0, NodeStateIs
      <4> HIDE DEF d
      <4> QED
        BY <3>1, <4>1 DEF d
    <3>3. l = [s EXCEPT !.match = e]
      OBVIOUS
    <3> HIDE DEF e, l
    <3>4. l \in NodeState
      BY <1>0, <3>2, <3>3 DEF NodeState
    <3> QED
      BY <1>0, <3>3, <3>4, NodeStateIs
  <2>3. CASE s.role # "leader"
    <3>1. HandleAppResp(n, s, m) = Ignored(s)
      BY <2>3 DEF HandleAppResp
    <3> QED
      BY <1>0, <2>1, <3>1, IgnoredGains
  <2>4. CASE s.role = "leader"
    <3>0. HandleAppResp(n, s, m) = [node |-> c, out |-> IF c.commit > s.commit THEN Appends(n, c) ELSE {}]
      <4>1. l.commit = s.commit
        BY <2>2
      <4> QED
        BY <2>4, <4>1 DEF HandleAppResp, Outcome
    <3> HIDE DEF l
    <3>1. k \in Nat
      BY <2>2, CommitIs
    <3> HIDE DEF k
    <3>2. c \in NodeState
      BY <2>2, <3>1 DEF NodeState
    <3>3. c.log = s.log /\ c.role = s.role /\ c.term = s.term
      BY <2>2, <3>2, NodeStateIs
    <3> HIDE DEF c
    <3>4. Grew(s, c) /\ Led(c)
      BY <1>0, <3>2, <3>3, SameGrew DEF Led
    <3>5. \A x \in Appends(n, c) : Full(x) /\ Answers(c, x)
      BY <2>4, <3>2, <3>3, <3>4, AppendsFull
    <3>6. PICK r : r = HandleAppResp(n, s, m)
      OBVIOUS
    <3>7. r.node = c /\ r.out \subseteq Appends(n, c)
      BY <3>0, <3>6
    <3> QED
      BY <2>1, <3>4, <3>5, <3>6, <3>7 DEF Gains
  <2> QED
    BY <2>3, <2>4
<1> QED
  BY <1>1, <1>2, <1>3, <1>4, MessageFields

LEMMA StepNodeGains ==
  ASSUME NEW n \in Node, NEW s, Typed(s), Led(s), NEW m \in Message, Full(m)
  PROVE  Gains(s, StepNode(n, s, m))
<1>0. s \in NodeState /\ s.term \in Nat /\ m.term \in 0..MaxTerm /\ m.term \in Nat
  BY NodeStateIs, MessageFields, NodeAssumption DEF Typed
<1>1. CASE m.term < s.term
  BY <1>0, <1>1, IgnoredGains DEF StepNode
<1>2. CASE ~(m.term < s.term)
  <2> DEFINE t == IF m.term > s.term THEN Follower(s, m.term) ELSE s
  <2>1. StepNode(n, s, m) = Handled(n, t, m)
    BY <1>2 DEF StepNode
  <2>2. Typed(t) /\ t.term = m.term /\ t.log = s.log /\ Led(t)
    <3>1. CASE m.term > s.term
      BY <1>0, <3>1, FollowerTyped DEF Led
    <3>2. CASE ~(m.term > s.term)
      BY <1>0, <1>2, <3>2
    <3> QED
      BY <3>1, <3>2
  <2> HIDE DEF t
  <2>3. PICK r : r = Handled(n, t, m)
    OBVIOUS
  <2>4. Gains(t, r) /\ r.node \in NodeState /\ t \in NodeState
    BY <2>2, <2>3, HandledGains, HandledTyped DEF Typed
  <2>5. Grew(s, t)
    BY <1>0, <1>2, <2>2, <2>4, SameGrew
  <2>6. Gains(s, r)
    BY <1>0, <2>4, <2>5, GrewMore DEF Gains
  <2> QED
    BY <2>1, <2>3, <2>6
<1> QED
  BY <1>1, <1>2

LEMMA ActGains ==
  ASSUME NEW n \in Node, NEW s, Typed(s), Led(s), MayAct(n, s)
  PROVE  Gains(s, Act(n, s))
<1>0. s \in NodeState /\ s.term \in Nat /\ s.term >= s.term
  BY NodeStateIs DEF Typed
<1>1. CASE s.role = "leader"
  <2>1. PICK r : r = Act(n, s)
    OBVIOUS
  <2>2. r.node = s /\ r.out = Appends(n, s)
    BY <1>1, <2>1 DEF Act, Outcome
  <2>3. \A x \in Appends(n, s) : Full(x) /\ Answers(s, x)
    BY <1>0, <1>1, AppendsFull
  <2>4. Grew(s, s)
    BY <1>0, SameGrew
  <2> QED
    BY <2>1, <2>2, <2>3, <2>4 DEF Gains
<1>2. CASE s.role # "leader"
  <2>1. PICK r : r = Act(n, s)
    OBVIOUS
  <2> DEFINE t == s.term + 1
             f == Follower(s, t)
             c == [f EXCEPT !.vote = n, !.role = "candidate", !.granted = {n}]
             out == {[type |-> "Vote", from |-> n, to |-> q, term |-> c.term,
                      last |-> LastTerm(c.log), index |-> Len(c.log)] : q \in Node \ {n}}
  <2>2. r.node = c /\ r.out = out
    BY <1>2, <2>1 DEF Act, Campaign, Outcome
  <2>3. t \in 0..MaxTerm /\ t >= s.term
    BY <1>0, <1>2, NodeStateIs DEF MayAct
  <2> HIDE DEF t
  <2>4. Typed(f) /\ f.term = t /\ f.log = s.log
    BY <2>3, FollowerTyped
  <2> HIDE DEF f
  <2>5. f \in NodeState
    BY <2>4 DEF Typed
  <2>6. c.term = t /\ c.role = "candidate" /\ c.log = s.log
    BY <2>4, <2>5, NodeStateIs
  <2>7. \A x \in out : x.type = "Vote"
    BY DEF out
  <2>8. r.node \in NodeState
    BY <2>1, ActTyped DEF Typed
  <2> HIDE DEF c, out
  <2>9. Grew(s, c) /\ Led(c)
    BY <1>0, <2>2, <2>3, <2>6, <2>8, SameGrew DEF Led
  <2>10. \A x \in out : Full(x) /\ Answers(c, x)
    BY <2>7 DEF Full, Answers
  <2> QED
    BY <2>1, <2>2, <2>9, <2>10 DEF Gains
<1> QED
  BY <1>1, <1>2

AllLed(ns) == \A n \in DOMAIN ns : Led(ns[n])

\* The same of all nodes, and of what they send.
GainsAll(ns, ns2, out) ==
  /\ DOMAIN ns2 = DOMAIN ns
  /\ \A n \in DOMAIN ns : Led(ns2[n]) /\ Grew(ns[n], ns2[n])
  /\ \A x \in out : x.from \in DOMAIN ns /\ Full(x) /\ Answers(ns2[x.from], x)

LEMMA AnswersStay ==
  ASSUME NEW s, NEW s2, Typed(s), Typed(s2), Grew(s, s2), NEW m \in Message, Answers(s, m)
  PROVE  Answers(s2, m)
<1>1. CASE m.type = "AppResp"
  <2>1. m.index \in Nat /\ m.term \in Nat
    BY <1>1, MessageFields
  <2>2. s.term \in Nat /\ s2.term \in Nat /\ s.term <= s2.term
    BY Fields DEF Typed, Grew
  <2>3. m.term <= s.term /\ Has(s.log, m.index, m.term)
    BY <1>1 DEF Answers
  <2> QED
    BY <2>1, <2>2, <2>3 DEF Answers, Grew
<1>2. CASE m.type # "AppResp"
  BY <1>2 DEF Answers
<1> QED
  BY <1>1, <1>2

LEMMA GainMore ==
  ASSUME NEW ns, NEW ns1, NEW ns2, TypedNodes(ns), TypedNodes(ns1), TypedNodes(ns2),
         NEW o1 \in SUBSET Message, NEW o2, GainsAll(ns, ns1, o1), GainsAll(ns1, ns2, o2)
  PROVE  GainsAll(ns, ns2, o1 \union o2)
<1>1. DOMAIN ns1 = DOMAIN ns /\ DOMAIN ns2 = DOMAIN ns
  BY DEF GainsAll
<1>2. ASSUME NEW n \in DOMAIN ns PROVE Led(ns2[n]) /\ Grew(ns[n], ns2[n])
  <2>1. ns[n] \in NodeState /\ ns1[n] \in NodeState /\ ns2[n] \in NodeState
    BY <1>1 DEF TypedNodes, Typed
  <2>2. Led(ns2[n]) /\ Grew(ns[n], ns1[n]) /\ Grew(ns1[n], ns2[n])
    BY <1>1 DEF GainsAll
  <2> QED
    BY <2>1, <2>2, GrewMore
<1>3. ASSUME NEW x \in o1 PROVE x.from \in DOMAIN ns /\ Full(x) /\ Answers(ns2[x.from], x)
  <2>1. x.from \in DOMAIN ns /\ Full(x) /\ Answers(ns1[x.from], x) /\ x \in Message
    BY DEF GainsAll
  <2>2. Grew(ns1[x.from], ns2[x.from]) /\ Typed(ns1[x.from]) /\ Typed(ns2[x.from])
    BY <1>1, <2>1 DEF GainsAll, TypedNodes
  <2> QED
    BY <2>1, <2>2, AnswersStay
<1>4. ASSUME NEW x \in o2 PROVE x.from \in DOMAIN ns /\ Full(x) /\ Answers(ns2[x.from], x)
  BY <1>1 DEF GainsAll
<1> QED
  BY <1>1, <1>2, <1>3, <1>4 DEF GainsAll

LEMMA TickedGain ==
  ASSUME NEW ns, TypedNodes(ns), AllLed(ns), NEW o \in Ticked(ns)
  PROVE  GainsAll(ns, NodesOf(o), SentBy(o))
<1>1. DOMAIN o = DOMAIN ns
  BY TickedOne
<1>2. ASSUME NEW n \in DOMAIN ns
      PROVE  Gains(ns[n], o[n]) /\ \A x \in o[n].out : x.from = n
  <2>1. n \in Node /\ Typed(ns[n]) /\ Led(ns[n]) /\ ns[n] \in NodeState
    BY DEF TypedNodes, AllLed, Typed
  <2>2. CASE MayAct(n, ns[n]) /\ o[n] = Act(n, ns[n])
    <3>1. TypedOut(n, o[n].out)
      BY <2>1, <2>2, ActTyped
    <3>2. Gains(ns[n], o[n])
      BY <2>1, <2>2, ActGains
    <3> QED
      BY <3>1, <3>2 DEF TypedOut
  <2>3. CASE o[n] = [node |-> ns[n], out |-> {}]
    <3>1. Gains(ns[n], o[n])
      BY <2>1, <2>3, IgnoredGains DEF Ignored, Outcome
    <3>2. o[n].out = {}
      BY <2>3
    <3> QED
      BY <3>1, <3>2
  <2> QED
    BY <2>2, <2>3, TickedOne
<1>3. PICK ns2, out : ns2 = NodesOf(o) /\ out = SentBy(o)
  OBVIOUS
<1>4. DOMAIN ns2 = DOMAIN ns /\ \A n \in DOMAIN ns : ns2[n] = o[n].node
  BY <1>1, <1>3 DEF NodesOf
<1>5. ASSUME NEW x \in out PROVE x.from \in DOMAIN ns /\ Full(x) /\ Answers(ns2[x.from], x)
  <2>1. PICK n \in DOMAIN ns : x \in o[n].out
    BY <1>1, <1>3 DEF SentBy
  <2>2. x.from = n /\ Full(x) /\ Answers(o[n].node, x)
    BY <1>2, <2>1 DEF Gains
  <2> QED
    BY <1>4, <2>2
<1>6. \A n \in DOMAIN ns : Led(ns2[n]) /\ Grew(ns[n], ns2[n])
  BY <1>2, <1>4 DEF Gains
<1> QED
  BY <1>3, <1>4, <1>5, <1>6 DEF GainsAll

LEMMA NothingGained ==
  ASSUME NEW ns, TypedNodes(ns), AllLed(ns) PROVE GainsAll(ns, ns, {})
<1>1. ASSUME NEW n \in DOMAIN ns PROVE Led(ns[n]) /\ Grew(ns[n], ns[n])
  <2>1. ns[n] \in NodeState /\ Led(ns[n])
    BY DEF TypedNodes, Typed, AllLed
  <2> QED
    BY <2>1, Fields, SameGrew
<1> QED
  BY <1>1 DEF GainsAll

\* One node changes.
LEMMA OneGains ==
  ASSUME NEW ns, TypedNodes(ns), AllLed(ns), NEW n \in DOMAIN ns, NEW r, Gains(ns[n], r),
         TypedOut(n, r.out), NEW ns2, ns2 = [ns EXCEPT ![n] = r.node]
  PROVE  GainsAll(ns, ns2, r.out)
<1>1. DOMAIN ns2 = DOMAIN ns /\ ns2[n] = r.node /\ \A q \in DOMAIN ns : q # n => ns2[q] = ns[q]
  OBVIOUS
<1>2. ASSUME NEW q \in DOMAIN ns PROVE Led(ns2[q]) /\ Grew(ns[q], ns2[q])
  <2>1. CASE q = n
    BY <1>1, <2>1 DEF Gains
  <2>2. CASE q # n
    BY <1>1, <2>2, NothingGained DEF GainsAll
  <2> QED
    BY <2>1, <2>2
<1>3. ASSUME NEW x \in r.out PROVE x.from \in DOMAIN ns /\ Full(x) /\ Answers(ns2[x.from], x)
  BY <1>1 DEF Gains, TypedOut
<1> QED
  BY <1>1, <1>2, <1>3 DEF GainsAll

LEMMA DeliveredGain ==
  ASSUME TypedNodes(nodes), AllLed(nodes), NEW m \in Message, Full(m), NEW r, r = Delivered(m)
  PROVE  GainsAll(nodes, r.node, r.out)
<1>1. CASE m.to \notin Live
  <2>1. r.node = nodes /\ r.out = {}
    BY <1>1 DEF Delivered, Outcome
  <2> QED
    BY <2>1, NothingGained
<1>2. CASE m.to \in Live
  <2>1. PICK n, a : n = m.to /\ a = StepNode(m.to, nodes[m.to], m)
    OBVIOUS
  <2>2. n \in DOMAIN nodes /\ n \in Node /\ Typed(nodes[n]) /\ Led(nodes[n])
    BY <1>2, <2>1 DEF Live, TypedNodes, AllLed
  <2>3. Gains(nodes[n], a) /\ TypedOut(n, a.out)
    BY <2>1, <2>2, StepNodeGains, StepNodeTyped
  <2>4. r.node = [nodes EXCEPT ![n] = a.node] /\ r.out = a.out
    BY <1>2, <2>1 DEF Delivered, Outcome
  <2> QED
    BY <2>2, <2>3, <2>4, OneGains
<1> QED
  BY <1>1, <1>2

LEMMA ProposedGain ==
  ASSUME TypedNodes(nodes), AllLed(nodes), NEW d \in 0..Len(Requests), NEW r \in Proposed(d)
  PROVE  GainsAll(nodes, r.node, r.out)
<1>1. CASE Leaders = {}
  <2>1. r.node = nodes /\ r.out = {}
    BY <1>1 DEF Proposed, Outcome
  <2> QED
    BY <2>1, NothingGained
<1>2. CASE Leaders # {}
  <2>1. PICK n \in Leaders : r = [node |-> [nodes EXCEPT ![n] = AppendEntry(n, nodes[n], d).node],
                                  out |-> AppendEntry(n, nodes[n], d).out]
    BY <1>2 DEF Proposed, Outcome
  <2>2. PICK a : a = AppendEntry(n, nodes[n], d)
    OBVIOUS
  <2>3. /\ n \in DOMAIN nodes /\ n \in Node /\ nodes[n] \in NodeState /\ nodes[n].role = "leader"
        /\ nodes[n].term # 0 /\ nodes[n].vote # 0
    BY NodeStateIs DEF TypedNodes, Leaders, Live, Typed, FitsRole
  <2>4. Gains(nodes[n], a) /\ TypedOut(n, a.out)
    BY <2>2, <2>3, AppendEntryGains, AppendEntryTyped
  <2>5. r.node = [nodes EXCEPT ![n] = a.node] /\ r.out = a.out
    BY <2>1, <2>2
  <2> QED
    BY <2>3, <2>4, <2>5, OneGains
<1> QED
  BY <1>1, <1>2

-----------------------------------------------------------------------------

\* What a node acknowledged it has, and its storage, unless it was started again.
Acknowledges(m) ==
  m.type = "AppResp" /\ m.from \notin restarted =>
    /\ Has(stored[m.from], m.index, m.term)
    /\ m.from \in Live => Answers(nodes[m.from], m)

AckSafe(M) ==
  /\ M \subseteq Message /\ SentIn(M) /\ AllLed(nodes)
  /\ \A m \in M : Full(m) /\ Acknowledges(m)

AInv == \E M : AckSafe(M)

LEMMA ReadyAcks ==
  ASSUME NEW M, AckSafe(M), TypedNodes(nodes), UNCHANGED <<mode, restarted>>,
         NEW ns, NEW out \in SUBSET Message, GainsAll(nodes, ns, out), TypedNodes(ns), Ready(ns),
         messages' \subseteq M \union out, shown' \subseteq M \union out,
         links' \in [Link -> Seq(M \union out)]
  PROVE  AInv'
<1>1. PICK M2 : M2 = M \union out
  OBVIOUS
<1>2. M2 \in SUBSET Message
  BY <1>1 DEF AckSafe
<1>3. /\ nodes' = ns /\ waiting' = {} /\ Live' = Live /\ DOMAIN nodes = Live /\ DOMAIN ns = Live
      /\ \A n \in Node : stored'[n] = IF n \in Live THEN ns[n].log ELSE stored[n]
  BY DEF Ready, Appended, Live, GainsAll
<1>4. SentIn(M2)'
  BY <1>1, <1>3 DEF SentIn, Link
<1>5. AllLed(nodes)'
  BY <1>3 DEF AllLed, GainsAll
<1>6. ASSUME NEW m \in M2 PROVE Full(m) /\ Acknowledges(m)'
  <2>1. Full(m)
    BY <1>1 DEF AckSafe, GainsAll
  <2>2. ASSUME m.type = "AppResp", m.from \notin restarted, m.from \in Live PROVE Answers(ns[m.from], m)
    <3>1. CASE m \in out
      BY <3>1 DEF GainsAll
    <3>2. CASE m \in M
      <4>1. Answers(nodes[m.from], m)
        BY <2>2, <3>2 DEF AckSafe, Acknowledges
      <4>2. Typed(nodes[m.from]) /\ Typed(ns[m.from]) /\ Grew(nodes[m.from], ns[m.from])
        BY <1>3, <2>2 DEF TypedNodes, GainsAll
      <4> QED
        BY <1>2, <4>1, <4>2, AnswersStay
    <3> QED
      BY <1>1, <3>1, <3>2
  <2>3. ASSUME m.type = "AppResp", m.from \notin restarted PROVE Has(stored'[m.from], m.index, m.term)
    <3>0. m.from \in Node
      BY <1>2, MessageFields
    <3>1. CASE m.from \in Live
      BY <1>3, <2>2, <2>3, <3>0, <3>1 DEF Answers
    <3>2. CASE m.from \notin Live
      <4>1. m \in M
        BY <1>1, <1>3, <3>2 DEF GainsAll
      <4>2. Has(stored[m.from], m.index, m.term)
        BY <2>3, <4>1 DEF AckSafe, Acknowledges
      <4> QED
        BY <1>3, <3>0, <3>2, <4>2
    <3> QED
      BY <3>1, <3>2
  <2> QED
    BY <1>3, <2>1, <2>2, <2>3 DEF Acknowledges
<1>7. (M2 \subseteq Message)'
  BY <1>2, NextMessages
<1> QED
  BY <1>4, <1>5, <1>6, <1>7 DEF AInv, AckSafe

\* A step that only takes nodes and messages away, or starts a node.
LEMMA FewerAcks ==
  ASSUME NEW M, AckSafe(M), mode' = mode, stored' = stored, restarted \subseteq restarted',
         AllLed(nodes'),
         \A n \in DOMAIN nodes' : n \in restarted' \/ (n \in DOMAIN nodes /\ nodes'[n] = nodes[n]),
         messages' \subseteq messages, waiting' \subseteq waiting, shown' \subseteq shown,
         links' \in [Link -> Seq(M)]
  PROVE  AInv'
<1>1. M \subseteq Message /\ SentIn(M) /\ \A m \in M : Full(m) /\ Acknowledges(m)
  BY DEF AckSafe
<1>2. SentIn(M)'
  BY <1>1 DEF SentIn, Link
<1>3. ASSUME NEW m \in M PROVE Acknowledges(m)'
  BY <1>1 DEF Acknowledges, Live
<1>4. (M \subseteq Message)' /\ AllLed(nodes)'
  BY <1>1, NextMessages DEF AllLed
<1> QED
  BY <1>1, <1>2, <1>3, <1>4 DEF AInv, AckSafe

LEMMA LinkReadyAcks ==
  ASSUME TypeOK, NEW M, AckSafe(M), NEW r, GainsAll(nodes, r.node, r.out), TypedNodes(r.node),
         r.out \subseteq Message, OnePerLink(r.out),
         NEW q, \A l \in Link : q[l] \in Seq(M), LinkReady(r, q)
  PROVE  AInv'
<1>1. PICK o \in Ticked(r.node) : Ready(NodesOf(o)) /\ links' = Added(q, r.out, SentBy(o))
  BY DEF LinkReady
<1>2. UNCHANGED <<mode, messages, shown, restarted>>
  BY DEF LinkReady
<1>3. PICK ns, out : ns = NodesOf(o) /\ out = r.out \union SentBy(o)
  OBVIOUS
<1>4. TypedNodes(ns) /\ SentBy(o) \subseteq Message /\ OnePerLink(SentBy(o)) /\ TypedNodes(nodes)
  BY <1>1, <1>3, TickedTyped, TypeOKIs
<1>5. AllLed(r.node)
  BY DEF AllLed, GainsAll
<1>6. GainsAll(r.node, ns, SentBy(o))
  BY <1>1, <1>3, <1>5, TickedGain
<1>7. GainsAll(nodes, ns, out)
  BY <1>3, <1>4, <1>6, GainMore
<1>8. links' \in [Link -> Seq(M \union out)]
  <2>1. \A l \in Link : q[l] \in Seq(M \union out)
    BY MoreMessages
  <2>2. r.out \subseteq M \union out /\ SentBy(o) \subseteq M \union out
    BY <1>3
  <2> QED
    BY <1>1, <1>4, <2>1, <2>2, AddedFits
<1>9. messages' \subseteq M \union out /\ shown' \subseteq M \union out /\ out \in SUBSET Message
  BY <1>2, <1>3, <1>4 DEF AckSafe, SentIn
<1>10. Ready(ns) /\ UNCHANGED <<mode, restarted>>
  BY <1>1, <1>2, <1>3
<1> QED
  BY <1>4, <1>7, <1>8, <1>9, <1>10, ReadyAcks

LEMMA TickAcks == ASSUME TypeOK, NEW M, AckSafe(M), Tick PROVE AInv'
<1>1. PICK o \in Ticked(nodes) : /\ Ready(NodesOf(o))
                                 /\ messages' = messages \union waiting \union SentBy(o)
  BY DEF Tick
<1>2. shown' = messages' /\ UNCHANGED <<mode, links, restarted>>
  BY DEF Tick
<1>3. PICK ns, out : ns = NodesOf(o) /\ out = SentBy(o)
  OBVIOUS
<1>4. TypedNodes(nodes) /\ TypedNodes(ns) /\ out \in SUBSET Message
  BY <1>1, <1>3, TickedTyped, TypeOKIs
<1>5. SentIn(M) /\ AllLed(nodes)
  BY DEF AckSafe
<1>6. GainsAll(nodes, ns, out)
  BY <1>1, <1>3, <1>4, <1>5, TickedGain
<1>7. messages' \subseteq M \union out /\ shown' \subseteq M \union out
  BY <1>1, <1>2, <1>3, <1>5 DEF SentIn
<1>8. links' \in [Link -> Seq(M \union out)]
  <2>1. links \in [Link -> Seq(M)] /\ Seq(M) \subseteq Seq(M \union out)
    BY <1>5, MoreMessages DEF SentIn
  <2> QED
    BY <1>2, <2>1
<1>9. Ready(ns) /\ UNCHANGED <<mode, restarted>>
  BY <1>1, <1>2, <1>3
<1> QED
  BY <1>4, <1>6, <1>7, <1>8, <1>9, ReadyAcks

LEMMA deliverAcks ==
  ASSUME TypeOK, NEW M, AckSafe(M), NEW m \in shown, deliverMessage(m) PROVE AInv'
<1>1. PICK r : r = Delivered(m)
  OBVIOUS
<1>2. /\ Ready(r.node) /\ messages' = (messages \ {m}) \union waiting \union r.out
      /\ shown' = messages' /\ UNCHANGED <<mode, links, restarted>>
  BY <1>1 DEF deliverMessage
<1>3. SentIn(M) /\ AllLed(nodes) /\ TypedNodes(nodes)
  BY TypeOKIs DEF AckSafe
<1>4. m \in Message /\ Full(m)
  BY <1>3 DEF AckSafe, SentIn
<1>5. PICK ns, out : ns = r.node /\ out = r.out
  OBVIOUS
<1>6. TypedNodes(ns) /\ out \in SUBSET Message
  BY <1>1, <1>3, <1>4, <1>5, DeliveredTyped
<1>7. GainsAll(nodes, ns, out)
  BY <1>1, <1>3, <1>4, <1>5, DeliveredGain
<1>8. messages' \subseteq M \union out /\ shown' \subseteq M \union out
  BY <1>2, <1>3, <1>5 DEF SentIn
<1>9. links' \in [Link -> Seq(M \union out)]
  <2>1. links \in [Link -> Seq(M)] /\ Seq(M) \subseteq Seq(M \union out)
    BY <1>3, MoreMessages DEF SentIn
  <2> QED
    BY <1>2, <2>1
<1>10. Ready(ns) /\ UNCHANGED <<mode, restarted>>
  BY <1>2, <1>5
<1> QED
  BY <1>3, <1>6, <1>7, <1>8, <1>9, <1>10, ReadyAcks

LEMMA LinkDeliverAcks ==
  ASSUME TypeOK, NEW M, AckSafe(M), NEW l \in Link, LinkDeliver(l) PROVE AInv'
<1>1. PICK m, q, r : m = Head(links[l]) /\ q = [links EXCEPT ![l] = Tail(@)] /\ r = Delivered(m)
  OBVIOUS
<1>2. links[l] # <<>> /\ LinkReady(r, q)
  BY <1>1 DEF LinkDeliver
<1>3. links \in [Link -> Seq(M)] /\ TypedNodes(nodes) /\ AllLed(nodes)
  BY TypeOKIs DEF AckSafe, SentIn
<1>4. m \in M /\ Tail(links[l]) \in Seq(M)
  BY <1>1, <1>2, <1>3, HeadTailProperties
<1>5. m \in Message /\ Full(m) /\ \A k \in Link : q[k] \in Seq(M)
  BY <1>1, <1>3, <1>4 DEF AckSafe
<1>6. TypedNodes(r.node) /\ r.out \subseteq Message /\ OnePerLink(r.out)
  BY <1>1, <1>3, <1>5, DeliveredTyped
<1>7. GainsAll(nodes, r.node, r.out)
  BY <1>1, <1>3, <1>5, DeliveredGain
<1> QED
  BY <1>2, <1>5, <1>6, <1>7, LinkReadyAcks

LEMMA LinkProposeAcks == ASSUME TypeOK, NEW M, AckSafe(M), LinkPropose PROVE AInv'
<1>1. PICK r \in Proposed(Head(requests)) : LinkReady(r, links)
  BY DEF LinkPropose
<1>2. Head(requests) \in 0..Len(Requests)
  BY FirstTyped DEF LinkPropose
<1>3. links \in [Link -> Seq(M)] /\ TypedNodes(nodes) /\ AllLed(nodes)
  BY TypeOKIs DEF AckSafe, SentIn
<1>4. TypedNodes(r.node) /\ r.out \subseteq Message /\ OnePerLink(r.out)
  BY <1>1, <1>2, <1>3, ProposedTyped
<1>5. GainsAll(nodes, r.node, r.out)
  BY <1>1, <1>2, <1>3, ProposedGain
<1>6. \A k \in Link : links[k] \in Seq(M)
  BY <1>3
<1> QED
  BY <1>1, <1>4, <1>5, <1>6, LinkReadyAcks

LEMMA ReceiveAcks == ASSUME TypeOK, NEW M, AckSafe(M), ReceiveRequest PROVE AInv'
<1>1. PICK r \in Proposed(Head(requests)) : nodes' = r.node /\ waiting' = waiting \union r.out
  BY DEF ReceiveRequest
<1>2. Head(requests) \in 0..Len(Requests) /\ UNCHANGED <<mode, stored, messages, shown, links, restarted>>
  BY FirstTyped DEF ReceiveRequest, messageVars
<1>3. /\ SentIn(M) /\ TypedNodes(nodes) /\ AllLed(nodes) /\ M \in SUBSET Message
      /\ \A m \in M : Full(m) /\ Acknowledges(m)
  BY TypeOKIs DEF AckSafe
<1>4. TypedNodes(r.node) /\ DOMAIN r.node = Live /\ r.out \subseteq Message
  BY <1>1, <1>2, <1>3, ProposedTyped
<1>5. GainsAll(nodes, r.node, r.out)
  BY <1>1, <1>2, <1>3, ProposedGain
<1>6. PICK M2 : M2 = M \union r.out
  OBVIOUS
<1>7. SentIn(M2)'
  <2>1. links \in [Link -> Seq(M)] /\ Seq(M) \subseteq Seq(M2)
    BY <1>3, <1>6, MoreMessages DEF SentIn
  <2>2. links' \in [Link' -> Seq(M2)]
    BY <1>2, <2>1 DEF Link
  <2>3. messages' \subseteq M2 /\ waiting' \subseteq M2 /\ shown' \subseteq M2
    BY <1>1, <1>2, <1>3, <1>6 DEF SentIn
  <2> QED
    BY <2>2, <2>3 DEF SentIn
<1>8. \A x \in r.out : Full(x) /\ x.type = "App"
  <2>1. \A x \in r.out : Full(x)
    BY <1>5 DEF GainsAll
  <2>2. ASSUME NEW x \in r.out PROVE x.type = "App"
    <3>1. CASE Leaders = {}
      BY <1>1, <3>1 DEF Proposed, Outcome
    <3>2. CASE Leaders # {}
      <4>1. PICK n \in Leaders : r = [node |-> [nodes EXCEPT ![n] = AppendEntry(n, nodes[n], Head(requests)).node],
                                      out |-> AppendEntry(n, nodes[n], Head(requests)).out]
        BY <1>1, <3>2 DEF Proposed, Outcome
      <4>2. \E led : r.out = Appends(n, led)
        BY <4>1 DEF AppendEntry, Outcome
      <4> QED
        BY <4>2 DEF Appends
    <3> QED
      BY <3>1, <3>2
  <2> QED
    BY <2>1, <2>2
<1>9. ASSUME NEW m \in M2 PROVE Full(m) /\ Acknowledges(m)'
  <2>1. CASE m \in r.out
    BY <1>8, <2>1 DEF Acknowledges
  <2>2. CASE m \in M
    <3>1. Live' = Live /\ Live = DOMAIN nodes /\ m \in Message
      BY <1>1, <1>3, <1>4, <2>2 DEF Live
    <3>2. ASSUME m.from \in Live, Answers(nodes[m.from], m) PROVE Answers(r.node[m.from], m)
      <4>1. Typed(nodes[m.from]) /\ Typed(r.node[m.from]) /\ Grew(nodes[m.from], r.node[m.from])
        BY <1>3, <1>4, <1>5, <3>1, <3>2 DEF TypedNodes, GainsAll
      <4> QED
        BY <3>1, <3>2, <4>1, AnswersStay
    <3> QED
      BY <1>1, <1>2, <1>3, <2>2, <3>1, <3>2 DEF Acknowledges
  <2> QED
    BY <1>6, <2>1, <2>2
<1>10. (M2 \subseteq Message)'
  BY <1>2, <1>3, <1>4, <1>6, NextMessages
<1>11. AllLed(nodes)'
  BY <1>1, <1>4, <1>5 DEF AllLed, GainsAll, Live
<1> QED
  BY <1>7, <1>9, <1>10, <1>11 DEF AInv, AckSafe

LEMMA MadeLed == AllLed(Made)
  BY BootstrappedIs DEF AllLed, Made, Led

LEMMA InitAInv == Init => AInv
<1> SUFFICES ASSUME Init PROVE AckSafe({})
  BY DEF AInv
<1>1. SentIn({})
  BY EmptyStores DEF SentIn, Init
<1>2. AllLed(nodes)
  BY MadeLed DEF Init
<1> QED
  BY <1>1, <1>2 DEF AckSafe

LEMMA ResetAInv == Reset => AInv'
<1> SUFFICES ASSUME Reset PROVE AckSafe({})'
  BY DEF AInv
<1>1. SentIn({})'
  BY EmptyStores DEF SentIn, Reset, Link
<1>2. AllLed(nodes')
  BY MadeLed DEF Reset
<1> QED
  BY <1>1, <1>2 DEF AckSafe

LEMMA NewNodeLed == ASSUME NEW n PROVE NewNode(n).role = "follower"
<1>1. \A log, v : FromStorage(log, v).role = "follower"
  BY DEF FromStorage
<1> QED
  BY <1>1, BootstrappedIs DEF NewNode

LEMMA NextAInv == TypeOK /\ AInv /\ [Next]_vars => AInv'
<1> SUFFICES ASSUME TypeOK, AInv, [Next]_vars PROVE AInv'
  OBVIOUS
<1>0. PICK M : AckSafe(M)
  BY DEF AInv
<1>a. SentIn(M) /\ AllLed(nodes) /\ TypedNodes(nodes)
  BY <1>0, TypeOKIs DEF AckSafe
<1>1. CASE Reset
  BY <1>1, ResetAInv
<1>2. CASE Tick
  BY <1>0, <1>2, TickAcks
<1>3. CASE ReceiveRequest
  BY <1>0, <1>3, ReceiveAcks
<1>4. CASE LinkPropose
  BY <1>0, <1>4, LinkProposeAcks
<1>5. CASE \E n \in Node : Start(n)
  <2>1. PICK n \in Node : Start(n)
    BY <1>5
  <2>2. /\ nodes' = [q \in Live \union {n} |-> IF q = n THEN NewNode(n) ELSE nodes[q]]
        /\ restarted' = restarted \union {n}
        /\ UNCHANGED <<mode, stored, waiting, messages, shown, links>>
    BY <2>1 DEF Start, messageVars
  <2>3. PICK new : new = NewNode(n)
    OBVIOUS
  <2>4. new.role = "follower" /\ nodes' = [q \in Live \union {n} |-> IF q = n THEN new ELSE nodes[q]]
    BY <2>2, <2>3, NewNodeLed
  <2>5. AllLed(nodes')
    BY <1>a, <2>4 DEF AllLed, Led, Live
  <2>6. \A q \in DOMAIN nodes' : q \in restarted' \/ (q \in DOMAIN nodes /\ nodes'[q] = nodes[q])
    BY <2>2, <2>4 DEF Live
  <2> QED
    BY <1>0, <1>a, <2>2, <2>5, <2>6, FewerAcks DEF SentIn
<1>6. CASE \E n \in Node : Stop(n)
  <2>1. PICK n \in Node : Stop(n)
    BY <1>6
  <2>2. /\ nodes' = [q \in Live \ {n} |-> nodes[q]] /\ waiting' \subseteq waiting
        /\ UNCHANGED <<mode, stored, messages, shown, links, restarted>>
    BY <2>1 DEF Stop, messageVars
  <2>3. AllLed(nodes') /\ \A q \in DOMAIN nodes' : q \in DOMAIN nodes /\ nodes'[q] = nodes[q]
    BY <1>a, <2>2 DEF AllLed, Live
  <2> QED
    BY <1>0, <1>a, <2>2, <2>3, FewerAcks DEF SentIn
<1>7. CASE \E m \in shown : deliverMessage(m)
  BY <1>0, <1>7, deliverAcks
<1>8. CASE \E m \in shown : dropMessage(m)
  <2>1. /\ messages' \subseteq messages /\ shown' \subseteq shown
        /\ UNCHANGED <<mode, nodes, stored, waiting, links, restarted>>
    BY <1>8 DEF dropMessage, WithoutDropped, nodeVars
  <2> QED
    BY <1>0, <1>a, <2>1, FewerAcks DEF SentIn
<1>9. CASE \E l \in Link : LinkDeliver(l)
  BY <1>0, <1>9, LinkDeliverAcks
<1>10. CASE \E l \in Link : LinkDrop(l)
  <2>1. PICK l \in Link : LinkDrop(l)
    BY <1>10
  <2>2. /\ links[l] # <<>> /\ links' = [links EXCEPT ![l] = Tail(@)]
        /\ UNCHANGED <<mode, nodes, stored, waiting, messages, shown, restarted>>
    BY <2>1 DEF LinkDrop, nodeVars
  <2>3. Tail(links[l]) \in Seq(M)
    BY <1>a, <2>2, HeadTailProperties DEF SentIn
  <2>4. links' \in [Link -> Seq(M)]
    BY <1>a, <2>2, <2>3 DEF SentIn
  <2> QED
    BY <1>0, <1>a, <2>2, <2>4, FewerAcks
<1>11. CASE UNCHANGED vars
  <2>1. UNCHANGED <<mode, nodes, stored, waiting, messages, shown, links, restarted>>
    BY <1>11 DEF vars, nodeVars, messageVars
  <2> QED
    BY <1>0, <1>a, <2>1, FewerAcks DEF SentIn
<1> QED
  BY <1>1, <1>2, <1>3, <1>4, <1>5, <1>6, <1>7, <1>8, <1>9, <1>10, <1>11 DEF Next

-----------------------------------------------------------------------------
(* The theorems *)

\* The nodes are what the library makes them, the storages hold logs, and the
\* network messages, whatever is delivered, dropped, stopped, started and reset
\* (rl_partition_env.go, link_env.go): a follower counts no votes, and only a
\* leader what the others match.
THEOREM TypeCorrect == Spec => []TypeOK
  BY InitTypeOK, NextTypeOK, PTL DEF Spec

\* Whatever the environment is asked to do, the invariant holds.
THEOREM InvariantIInv == Spec => []IInv
<1>1. Init => IInv
  BY InitIInv
<1>2. IInv /\ [Next]_vars => IInv'
  BY NextIInv
<1> QED
  BY <1>1, <1>2, PTL DEF Spec

\* The agent is shown exactly what is in transit: curState.Messages and the map
\* of the environment (rl_partition_env.go) never part, however ticks,
\* deliveries, drops, stops, starts and resets follow each other.
THEOREM AgentSeesTheNetwork == Spec => []ShownIsInTransit
<1>1. IInv => ShownIsInTransit
  BY DEF IInv, ShownIsInTransit
<1> QED
  BY <1>1, InvariantIInv, PTL

\* A request is in no log while it is pending and in no log twice, for any
\* number of nodes, requests, restarts and leaders, those of one term included.
THEOREM RequestsAreProposedOnce == Spec => []ProposedOnce
<1>1. ASSUME IInv PROVE ProposedOnce
  <2>1. PICK p, M : Placed(p, M)
    BY <1>1 DEF IInv
  <2> SUFFICES ASSUME NEW n \in Node,
                      NEW log \in {stored[n]} \union (IF n \in Live THEN {nodes[n].log} ELSE {})
               PROVE  LET data == [i \in DOMAIN log |-> log[i].data] IN
                        /\ \A i, j \in DOMAIN data : i # j /\ data[i] = data[j] => data[i] = 0
                        /\ ToSet(data) \intersect ToSet(requests) = {}
    BY DEF ProposedOnce
  <2>2. Fits(log, p, Pending)
    BY <2>1 DEF Placed, FittingNode
  <2> DEFINE data == [i \in DOMAIN log |-> log[i].data]
  <2>3. \A i \in DOMAIN data : data[i] # 0 => p[data[i]] = i /\ data[i] \notin Pending
    BY <2>2 DEF Fits
  <2> HIDE DEF data
  <2>4. \A i, j \in DOMAIN data : i # j /\ data[i] = data[j] => data[i] = 0
    BY <2>3
  <2>5. 0 \notin Pending
    <3>1. requests \in Seq(Nat \ {0})
      BY <2>1 DEF Placed
    <3>2. \A i \in DOMAIN requests : requests[i] \in Nat \ {0}
      BY <3>1, ElementOfSeq, LenProperties
    <3> QED
      BY <3>2 DEF Pending, ToSet
  <2>6. ToSet(data) \intersect Pending = {}
    BY <2>3, <2>5 DEF ToSet
  <2> QED
    BY <2>4, <2>6 DEF data, Pending
<1> QED
  BY <1>1, InvariantIInv, PTL

\* While no node was started again there is a history the nodes, the storages
\* and the messages fit.
THEOREM InvariantSInv == Spec => []SInv
<1>1. Init => SInv
  BY InitSInv
<1> QED
  BY <1>1, NextSInv, TypeCorrect, PTL DEF Spec

\* The bug definitions (bugs_definitions.go) report nothing of a system whose
\* nodes were only ever stopped: two committed logs never differ, none is
\* modified, and none is shorter than before unless a node was stopped.
THEOREM BugsAreNotMisreported == Spec => NoFalseReport
<1>1. ASSUME TypeOK, SInv, [Next]_vars, TypeOK', restarted' = {}, nodes' # Made
      PROVE  /\ ~InconsistentLogs' /\ ~ModifiedLog
             /\ ReducedLog => Live' # Live
  <2>1. ~Reset
    BY <1>1 DEF Reset
  <2>2. PICK L, V, A, M : EnvSafe(L, V, A, M)
    BY <1>1, <2>1, NeverRestarted DEF SInv
  <2>3. Advances(L, V, A)
    BY <1>1, <2>1, <2>2, StepAdvances
  <2>4. mode' = mode
    BY <1>1, StaysInMode
  <2> QED
    BY <1>1, <2>2, <2>3, <2>4, NothingReported
<1>2. TypeOK /\ SInv /\ [Next]_vars /\ TypeOK' =>
        [restarted' = {} /\ nodes' # Made =>
           /\ ~InconsistentLogs' /\ ~ModifiedLog
           /\ ReducedLog => Live' # Live]_<<nodes, stored>>
  BY <1>1
<1> QED
  BY <1>2, InvariantSInv, TypeCorrect, PTL DEF Spec, NoFalseReport

\* A snapshot of the storage (rl_partition_env.go) is of entries it has, and
\* goes on being, whatever leaders replace in the logs.
THEOREM SnapshotsAreStored == Spec => []SnapshotIsStored
<1>1. ASSUME SInv PROVE SnapshotIsStored
  BY <1>1 DEF SInv, EnvSafe, StoresSafely, SnapshotIsStored
<1> QED
  BY <1>1, InvariantSInv, PTL

\* What a node acknowledged is in its storage, whatever was stopped and started
\* meanwhile, unless a leader of a later term, or another of the same, replaced it.
THEOREM AcknowledgedStays == Spec => []AcknowledgedIsStored
<1>1. ASSUME TypeOK, SInv, AInv PROVE AcknowledgedIsStored
  <2> SUFFICES ASSUME NEW m \in messages \union UNION {ToSet(links[l]) : l \in Link},
                      m.type = "AppResp", m.from \notin restarted
               PROVE  \/ Len(stored[m.from]) >= m.index
                      \/ LastTerm(stored[m.from]) > m.term
                      \/ restarted # {} /\ LastTerm(stored[m.from]) = m.term
    BY DEF AcknowledgedIsStored
  <2>1. ASSUME NEW M, SentIn(M) PROVE m \in M
    <3>1. CASE m \in messages
      BY <2>1, <3>1 DEF SentIn
    <3>2. CASE \E l \in Link : m \in ToSet(links[l])
      <4>1. PICK l \in Link : m \in ToSet(links[l])
        BY <3>2
      <4>2. links[l] \in Seq(M)
        BY <2>1 DEF SentIn
      <4>3. \A i \in DOMAIN links[l] : links[l][i] \in M
        BY <4>2, ElementOfSeq, LenProperties
      <4> QED
        BY <4>1, <4>3 DEF ToSet
    <3> QED
      BY <3>1, <3>2
  <2>2. CASE restarted = {}
    <3>1. PICK L, V, A, M : EnvSafe(L, V, A, M)
      BY <1>1, <2>2 DEF SInv
    <3> QED
      BY <2>1, <3>1 DEF EnvSafe, StoresSafely
  <2>3. CASE restarted # {}
    <3>1. PICK M : AckSafe(M)
      BY <1>1 DEF AInv
    <3>2. m \in Message /\ Has(stored[m.from], m.index, m.term)
      BY <2>1, <3>1 DEF AckSafe, Acknowledges
    <3>3. m.from \in Node /\ m.term \in Nat
      BY <3>2, MessageFields
    <3>4. LastTerm(stored[m.from]) \in Nat
      <4>1. stored[m.from] \in Seq(Logged)
        BY <1>1, <3>3, LogsAreLogged DEF TypeOK
      <4> QED
        BY <4>1, EntryOf
    <3> QED
      BY <2>3, <3>2, <3>3, <3>4 DEF Has
  <2> QED
    BY <2>2, <2>3
<1>2. Init => AInv
  BY InitAInv
<1> QED
  BY <1>1, <1>2, NextAInv, InvariantSInv, TypeCorrect, PTL DEF Spec

\* The storages (MemoryStorage, rl_environment.go) keep both.
THEOREM StoragesKeep == Spec => []StorageKeeps
  BY SnapshotsAreStored, AcknowledgedStays, PTL DEF StorageKeeps
=============================================================================
