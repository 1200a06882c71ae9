--------------------------- MODULE PartitionOrder ---------------------------
(***************************************************************************)
(* The order in which a Partition state keeps its parts.  A part is the    *)
(* ascending sequence of the hashes of the colours in it; a hash is a      *)
(* natural number, compared as the code compares the strings.              *)
(* types/partition_env.go: ColorSlice, PartitionSlice, sort.Sort,          *)
(* isSamePartition.                                                        *)
(***************************************************************************)
EXTENDS Naturals, Sequences, FiniteSets

\* The hashes of the colours of the nodes in G, ascending (sort.Sort on a
\* ColorSlice, whose order is total on hashes): the i-th order statistic.
SortedColors(G, color) ==
  [i \in 1..Cardinality(G) |->
     CHOOSE h \in {color[n] : n \in G} :
       /\ Cardinality({n \in G : color[n] < h}) < i
       /\ i <= Cardinality({n \in G : color[n] <= h})]

\* PartitionSlice.Less.  The loop leaves at the first position where p is
\* smaller and never at one where it is larger.
Less(p, q) ==
  \/ Len(p) < Len(q)
  \/ \E k \in 1..Len(q) : p[k] < q[k]

\* sort.Sort is an insertion sort on slices this short: element n moves left
\* while it is Less than its left neighbour.  Order(s)[n] lists the indices
\* of the first n elements of s in the order they end up in.
Order(s) ==
  LET place[n \in 0..Len(s)] ==
        IF n = 0 THEN <<>>
        ELSE LET before == place[n - 1]
                 stops  == {j \in 1..n : j = 1 \/ ~Less(s[n], s[before[j - 1]])}
                 pos    == CHOOSE j \in stops : \A k \in stops : k <= j
             IN  [j \in 1..n |-> IF j < pos THEN before[j]
                                 ELSE IF j = pos THEN n ELSE before[j - 1]]
  IN place[Len(s)]

SortParts(s) == LET o == Order(s) IN [i \in 1..Len(s) |-> s[o[i]]]

\* How often a part occurs in a partition.
Occurrences(part, s) == Cardinality({i \in 1..Len(s) : s[i] = part})
=============================================================================
