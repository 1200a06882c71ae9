------------------------- MODULE MultisetPartitions -------------------------
(***************************************************************************)
(* util/multiset.go: EnumeratePartitions, Knuth's Algorithm M, with which  *)
(* Partition.Actions lists the partitions an agent may choose.  A multiset *)
(* is given by its multiplicities; element <<c, i>> is the i-th of those   *)
(* with key c.  The algorithm keeps a stack of frames, one for each part   *)
(* of the partition it builds; a component of a frame has the key c, u of  *)
(* which are left for this part and the later ones and v go to this part.  *)
(* The code lays the frames out in one array, stacks, and their beginnings *)
(* in another, f.                                                          *)
(***************************************************************************)
EXTENDS Naturals, FiniteSets, SequencesExt

CONSTANT Multisets        \* the multiplicities the function is called with

ASSUME MultisetsAssumption ==
  \A s \in Multisets : s \in Seq(Nat \ {0}) /\ s # <<>>

\* toMap and keysNMultiplicities: the elements of a multiset by their keys.
Elements(s) == UNION {{<<c, i>> : i \in 1..s[c]} : c \in DOMAIN s}

Stacks == Seq(Seq([c : Nat, u : Nat, v : Nat]))

\* M1: the first part takes everything.
FirstFrame(s) == [c \in DOMAIN s |-> [c |-> c, u |-> s[c], v |-> s[c]]]

\* M2: what a frame leaves goes to the next one, of which no part may be
\* greater than this one: it takes as many as this one until it has taken
\* fewer of a key, and then all.
LeftOver(e) == e.u - e.v

Leftovers(frame) ==
  LET fewer(j) == \E i \in 1..j : LeftOver(frame[i]) < frame[i].v
  IN  SelectSeq([j \in DOMAIN frame |->
                   [c |-> frame[j].c, u |-> LeftOver(frame[j]),
                    v |-> IF fewer(j) THEN LeftOver(frame[j]) ELSE frame[j].v]],
                LAMBDA e : e.u > 0)

\* M3: frames are pushed until one leaves nothing.
Filled[stack \in Stacks] ==
  LET next == Leftovers(Last(stack))
  IN  IF next = <<>> THEN stack ELSE Filled[Append(stack, next)]

\* M5: the last component of a frame that has taken any gives one up, and those
\* after it take all they can.  The first keeps at least one.
\* (Mutant: that goes for every component.)
LastTaken(frame) ==
  CHOOSE j \in DOMAIN frame : frame[j].v # 0 /\ \A i \in DOMAIN frame : i > j => frame[i].v = 0

ExhaustedByOne(frame) == frame[LastTaken(frame)].v = 1

Exhausted(frame) == LastTaken(frame) = 1 /\ frame[1].v = 1

Decreased(frame) ==
  [j \in DOMAIN frame |->
     CASE j = LastTaken(frame) -> [frame[j] EXCEPT !.v = @ - 1]
       [] j > LastTaken(frame) -> [frame[j] EXCEPT !.v = frame[j].u]
       [] OTHER                -> frame[j]]

\* M6: frames that cannot become smaller are popped; the end if none is left.
Backtracked[stack \in Stacks] ==
  IF stack = <<>> THEN <<>>
  ELSE IF Exhausted(Last(stack)) THEN Backtracked[Front(stack)]
  ELSE Append(Front(stack), Decreased(Last(stack)))

\* The full stacks, in the order in which they are visited.
VisitedFrom[stack \in Stacks] ==
  LET full == Filled[stack]
  IN  IF stack = <<>> THEN <<>> ELSE <<full>> \o VisitedFrom[Backtracked[full]]

Visited(s) == VisitedFrom[<<FirstFrame(s)>>]

\* M4 and the visitor, which takes the next unused elements of each key.
UsedBefore(stack, p, c) ==
  Cardinality(UNION {UNION {{q} \X (1..e.v) : e \in {d \in ToSet(stack[q]) : d.c = c}} :
                       q \in 1..(p - 1)})

Parts(stack) ==
  [p \in DOMAIN stack |->
     UNION {LET used == UsedBefore(stack, p, e.c)
            IN  {<<e.c, i>> : i \in (used + 1)..(used + e.v)} : e \in ToSet(stack[p])}]

EnumeratePartitions(s) ==
  LET visited == Visited(s) IN [i \in DOMAIN visited |-> Parts(visited[i])]

-----------------------------------------------------------------------------
(* Reference: the partitions of the elements as sets of parts, where         *)
(* elements with one key are interchangeable.                                *)

SetPartitions(set) ==
  {{{e \in set : g[e] = i} : i \in {g[e] : e \in set}} : g \in [set -> 1..Cardinality(set)]}

\* How many of each key a part has, and how many parts of a kind there are.
Shape(s, part) == [c \in DOMAIN s |-> Cardinality({e \in part : e[1] = c})]

Kinds(s, P) ==
  [w \in {Shape(s, part) : part \in P} |->
     Cardinality({part \in P : Shape(s, part) = w})]

\* Parts come in an order in which none is greater than the one before.
Greater(v, w) ==
  \E c \in DOMAIN v : v[c] > w[c] /\ \A d \in 1..(c - 1) : v[d] = w[d]

NonIncreasing(s, p) ==
  \A i \in 1..(Len(p) - 1) : ~Greater(Shape(s, p[i + 1]), Shape(s, p[i]))

\* The arrays of the code have room for every stack.
FitsTheArrays(s, stack) ==
  LET n == Cardinality(Elements(s))
  IN  Len(stack) <= n /\ Len(FlattenSeq(stack)) <= Len(s) * n

\* EnumeratePartitions lists every partition of a multiset exactly once, each as
\* disjoint non-empty parts in non-increasing order, within its arrays.
EachOnce(s) ==
  LET visited    == Visited(s)
      partitions == EnumeratePartitions(s)
      kinds      == [i \in DOMAIN partitions |-> Kinds(s, ToSet(partitions[i]))]
      reference  == SetPartitions(Elements(s))
  IN  /\ \A i \in DOMAIN partitions :
           /\ ToSet(partitions[i]) \in reference
           /\ IsInjective(partitions[i])
           /\ NonIncreasing(s, partitions[i])
      /\ IsInjective(kinds)
      /\ ToSet(kinds) = {Kinds(s, P) : P \in reference}
      /\ \A i \in DOMAIN visited : FitsTheArrays(s, visited[i])

WronglyEnumerated == {s \in Multisets : ~EachOnce(s)}
=============================================================================
