--------------------------- MODULE InterceptNetwork ---------------------------
(***************************************************************************)
(* The intercepting network of redisraft, cbft and ratis (network.go of    *)
(* each): an HTTP server to which the processes of a cluster register and  *)
(* send every message, and which forwards a message only when the          *)
(* environment says so.  The three copies differ where an action names the *)
(* system.                                                                 *)
(*                                                                         *)
(* Requests reach the server in any order and however late: a process may  *)
(* be killed while its request is in flight.  An id names one message, so  *)
(* a process sends each message once.                                      *)
(***************************************************************************)
EXTENDS Naturals, FiniteSets

CONSTANTS
  Systems,        \* which of the three environments are considered
  NumNodes,       \* replicas are 1..NumNodes
  MaxClusters,    \* clusters that are made (a bound)
  Links           \* pairs of replicas between which messages are sent (a bound)

Node == 1..NumNodes
ClusterId == 1..MaxClusters
\* A message of a cluster; its place in Message stands for its ID.
Message == [of : ClusterId, link : Links]
From(m) == m.link[1]
To(m) == m.link[2]

ASSUME NetworkAssumption ==
  /\ Systems \subseteq {"redisraft", "cbft", "ratis"}
  /\ NumNodes \in Nat \ {0}
  /\ MaxClusters \in Nat \ {0}
  /\ Links \subseteq Node \X Node

VARIABLES
  system,
  \* the fields of InterceptNetwork
  nodes,          \* per replica: the cluster of its process that registered, or 0
  messages,
  unaddressed,    \* cbft: the messages whose receiver's alias was unknown (ToID 0)
  \* requests of processes the server has not handled
  registering, arriving,
  sent,           \* the messages the processes have sent
  \* calls of SendMessage: in the post, and in reading the body of the answer,
  \* after which the message is deleted
  posting, deleting,
  \* history: what became of messages since the last Reset
  received, answered, again, dropped,
  flight          \* requests that were in flight at the last Reset

historyVars == <<received, answered, again, dropped>>
requestVars == <<registering, arriving, sent>>
networkVars == <<system, nodes, messages, unaddressed, requestVars, posting,
                 deleting, historyVars, flight>>

\* A call is made by the episode or by the loop of ratis.
Caller == {"episode", "loop"}
Calls(by) == {p \in posting : p.by = by} \union {p \in deleting : p.by = by}

NetworkInit ==
  /\ system \in Systems
  /\ nodes = [n \in Node |-> 0]
  /\ messages = {} /\ unaddressed = {}
  /\ registering = {} /\ arriving = {} /\ sent = {}
  /\ posting = {} /\ deleting = {}
  /\ received = {} /\ answered = {} /\ again = {} /\ dropped = {}
  /\ flight = {}

-----------------------------------------------------------------------------
(* The processes of the cluster; live[n] is the cluster of replica n's     *)
(* process, or 0.                                                          *)

\* A process registers when it starts.
PostReplica(n, c) ==
  /\ registering' = registering \union {[node |-> n, of |-> c]}
  /\ UNCHANGED <<system, nodes, messages, unaddressed, arriving, sent, posting,
                 deleting, historyVars, flight>>

PostMessage(m, live) ==
  /\ m \notin sent /\ m.of = live[From(m)]
  /\ sent' = sent \union {m}
  /\ arriving' = arriving \union {m}
  /\ UNCHANGED <<system, nodes, messages, unaddressed, registering, posting,
                 deleting, historyVars, flight>>

-----------------------------------------------------------------------------
(* The handlers of the server *)

handleReplica(r) ==
  /\ r \in registering
  /\ registering' = registering \ {r}
  /\ nodes' = [nodes EXCEPT ![r.node] = r.of]
  /\ UNCHANGED <<system, messages, unaddressed, arriving, sent, posting,
                 deleting, historyVars, flight>>

\* cbft resolves the aliases when the message arrives, and not again.
ResolveAlias(m) ==
  unaddressed' = IF system = "cbft" /\ nodes[To(m)] = 0
                 THEN unaddressed \union {m} ELSE unaddressed

handleMessage(m) ==
  /\ m \in arriving
  /\ arriving' = arriving \ {m}
  /\ messages' = messages \union {m}
  /\ ResolveAlias(m)
  /\ UNCHANGED <<system, nodes, registering, sent, posting, deleting,
                 historyVars, flight>>

-----------------------------------------------------------------------------
(* SendMessage, called by the episode or by the loop *)

\* Under the lock: the message and the address of its receiver.
Lookup(by, m) ==
  /\ m \in messages
  /\ posting' = posting \union {[by |-> by, msg |-> m, addr |-> nodes[To(m)] # 0]}
  /\ UNCHANGED <<system, nodes, messages, unaddressed, requestVars, deleting,
                 historyVars, flight>>

\* cbft reads the address of a replica that is not there: a nil pointer.
NilReceiver(m) ==
  /\ system = "cbft" /\ m \in messages
  /\ m \in unaddressed \/ nodes[To(m)] = 0

\* The post without the lock: the receiver gets the message, and the header of
\* its answer comes in time or not.
Reaches(p, live) ==
  /\ p.addr /\ live[To(p.msg)] # 0
  /\ received' = received \union {p.msg}
  /\ again' = IF p.msg \in answered THEN again \union {p.msg} ELSE again

\* (Mutant: the message is not deleted.)
Forgets(p) ==
  /\ UNCHANGED deleting
  /\ answered' = answered \union {p.msg}

Answered(p) ==
  /\ deleting' = deleting \union {[by |-> p.by, msg |-> p.msg]}
  /\ answered' = answered \union {p.msg}

\* Without an answer redisraft returns an error and keeps the message; cbft
\* and ratis go on to delete it.  (Mutant: redisraft does so too.)
KeepsNothing == FALSE

KeepsUnanswered == system = "redisraft"

Unanswered(p) ==
  /\ deleting' = IF KeepsUnanswered THEN deleting
                 ELSE deleting \union {[by |-> p.by, msg |-> p.msg]}
  /\ UNCHANGED answered

Post(p, live) ==
  /\ p \in posting
  /\ posting' = posting \ {p}
  /\ \/ Reaches(p, live) /\ (Answered(p) \/ Unanswered(p))
     \/ UNCHANGED <<received, again>> /\ Unanswered(p)
  /\ UNCHANGED <<system, nodes, messages, unaddressed, requestVars, dropped, flight>>

\* The client limits the dial and the wait for the header, not the writing of the
\* request nor the reading of the answer's body: a call may wait for ever for a
\* process that runs and does not go on.
MayHang(p, live) ==
  /\ live[To(p.msg)] # 0
  /\ (p \in posting /\ p.addr) \/ (p \in deleting /\ p.msg \in answered)

\* The body is read; under the lock again.
Delete(p) ==
  /\ p \in deleting
  /\ deleting' = deleting \ {p}
  /\ messages' = messages \ {p.msg}
  /\ UNCHANGED <<system, nodes, unaddressed, requestVars, posting, historyVars, flight>>

\* DeleteMessage for each of D.
DeleteMessages(D) ==
  /\ messages' = messages \ D
  /\ dropped' = dropped \union ((D \intersect messages) \ received)
  /\ UNCHANGED <<system, nodes, unaddressed, requestVars, posting, deleting,
                 received, answered, again, flight>>

\* deliverLoop: ratis sends whatever it has, all the time.
deliverLoop ==
  /\ system = "ratis" /\ Calls("loop") = {}
  /\ \E m \in messages : Lookup("loop", m)

\* (Mutant: the registrations are kept.)
ResetOfMessages ==
  /\ messages' = {} /\ unaddressed' = {}
  /\ received' = {} /\ answered' = {} /\ again' = {} /\ dropped' = {}
  /\ flight' = registering \union arriving
  /\ UNCHANGED <<system, nodes, requestVars, posting, deleting>>

NetworkReset ==
  /\ messages' = {} /\ unaddressed' = {}
  /\ nodes' = [n \in Node |-> 0]
  /\ received' = {} /\ answered' = {} /\ again' = {} /\ dropped' = {}
  /\ flight' = registering \union arriving
  /\ UNCHANGED <<system, requestVars, posting, deleting>>
=============================================================================
