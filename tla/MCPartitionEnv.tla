--------------------------- MODULE MCPartitionEnv ---------------------------
(* Instances of PartitionEnv for TLC, with the enumeration of the partitions  *)
(* that an agent is offered.                                                  *)
EXTENDS PartitionEnv, MultisetPartitions

\* Hashes are hexadecimal digests and "Inactive_..." sorts between those that
\* start with a digit (1 here) and those that start with a letter (20).
MCInactiveHash == [c \in Colors |-> 10 + c \div 10]

\* A message between two replicas and one from a client, or only the latter.
Pings == {[from |-> 1, to |-> 2], [from |-> 0, to |-> 2]}
ClientPing == {[from |-> 0, to |-> 2]}
NoMessages == {}

\* The network of Ratis delivers the ping of the replica by itself.
ReplicaPing == {[from |-> 1, to |-> 2]}

\* Every multiset of at most MaxElements elements: with one key as with many.
MaxElements == 5

SmallMultisets ==
  {s \in UNION {[1..m -> 1..MaxElements] : m \in 1..MaxElements} :
     Cardinality(Elements(s)) <= MaxElements}

NoMultisets == {}

\* The multiset of the active replicas' colours.
Keys == SetToSortSeq({replicaColors[n] : n \in activeNodes}, <)

ActiveMultiset ==
  [c \in DOMAIN Keys |-> Cardinality({n \in activeNodes : replicaColors[n] = Keys[c]})]

\* How many replicas of each colour the parts of a grouping have.
ShapesOfGrouping(k, g) ==
  [p \in 1..k |->
     [c \in DOMAIN Keys |->
        Cardinality({n \in activeNodes : g[n] = p - 1 /\ replicaColors[n] = Keys[c]})]]

ShapesOfPartition(s, p) == [i \in DOMAIN p |-> Shape(s, p[i])]

\* Partition.Actions offers every way to group the active replicas by their
\* colours, each once: the groupings CreatePartition chooses from are those that
\* EnumeratePartitions lists for the colours of the state, and the enumeration is
\* right for all of Multisets, so for the larger clusters too.
EveryPartitionOnce ==
  status = "idle" /\ activeNodes # {} =>
    /\ WronglyEnumerated = {}
    /\ UNION {{ShapesOfGrouping(k, g) : g \in Groupings(k)} : k \in 1..NumReplicas}
         = {ShapesOfPartition(ActiveMultiset, p) : p \in ToSet(EnumeratePartitions(ActiveMultiset))}
=============================================================================
