---------------------------- MODULE GraphCycles ----------------------------
(***************************************************************************)
(* GraphCycles (absl/synchronization/internal/graphcycles.cc): a graph     *)
(* that refuses cycles. Every node has a rank that is below the ranks of   *)
(* its successors (the algorithm of Pearce and Kelly), so that most edges  *)
(* are inserted without a search. A node that is removed is used again     *)
(* with another version, which makes the ids of the old one expire.        *)
(* The hash sets and the hash table of pointers are sets and a function.   *)
(***************************************************************************)
EXTENDS Integers, Sequences, FiniteSets, Functions

CONSTANTS Ptrs,
          NullPtr,
          MaxNodes,    \* bound: nodes ever allocated
          MaxVersion   \* bound: versions of a node; at the real limit a node is given up

GraphCyclesAssumption == NullPtr \notin Ptrs /\ MaxNodes \in Nat /\ MaxVersion \in Nat \ {0}

VARIABLES
  nodes_,       \* of records; the code counts from 0, as the indices here do
  free_nodes_,  \* stack of indices of unused nodes
  res           \* what the last InsertEdge returned

graph == <<nodes_, free_nodes_, res>>

Init == nodes_ = <<>> /\ free_nodes_ = <<>> /\ res = TRUE

\* Contains, Last, Front and SetToSeq are those of SequencesExt; the whole of that module
\* would come with each instance of this one, and slow its proofs down.
Contains(s, e) == \E i \in 1..Len(s) : s[i] = e
Last(s) == s[Len(s)]
Front(s) == SubSeq(s, 1, Len(s) - 1)
SetToSeq(S) == CHOOSE f \in [1..Cardinality(S) -> S] : IsInjective(f)

Indices == 0..Len(nodes_) - 1
Node(i) == nodes_[i + 1]

\* PointerMap::Find.
HasPtr(p) == \E i \in Indices : Node(i).ptr = p
Find(p) == CHOOSE i \in Indices : Node(i).ptr = p

\* MakeId; FindNode knows an id by the version of its node.
Id(i) == [index |-> i, version |-> Node(i).version]
Valid(id) == Node(id.index).version = id.version
Ptr(id) == IF Valid(id) THEN Node(id.index).ptr ELSE NullPtr

\* Every id handed out so far: a node that is free has not yet used its version.
Ids == {id \in [index : Indices, version : 1..MaxVersion] :
          /\ id.version <= Node(id.index).version
          /\ Valid(id) => ~Contains(free_nodes_, id.index)}

\* GetId for a pointer without a node: a new node gets the next rank, one that is
\* used again keeps its rank, "since the set of ranks in use must be a permutation".
NewNodes(p) ==
  IF free_nodes_ = <<>>
    THEN Append(nodes_, [rank |-> Len(nodes_), version |-> 1, ptr |-> p, in |-> {}, out |-> {}])
    ELSE [nodes_ EXCEPT ![Last(free_nodes_) + 1].ptr = p]

GetId(p) ==
  /\ ~HasPtr(p)
  /\ free_nodes_ = <<>> => Len(nodes_) < MaxNodes
  /\ nodes_' = NewNodes(p)
  /\ free_nodes_' = IF free_nodes_ = <<>> THEN free_nodes_ ELSE Front(free_nodes_)
  /\ UNCHANGED res

\* RemoveNode: take the node and its edges out; it may be used again unless there
\* is no further version.
RemoveNode(p) ==
  /\ HasPtr(p)
  /\ LET i == Find(p)
         last == Node(i).version = MaxVersion
     IN  /\ nodes_' = [j \in 1..Len(nodes_) |->
              IF j = i + 1
                THEN [nodes_[j] EXCEPT !.in = {}, !.out = {}, !.ptr = NullPtr,
                                       !.version = IF last THEN @ ELSE @ + 1]
                ELSE [nodes_[j] EXCEPT !.in = @ \ {i}, !.out = @ \ {i}]]
         /\ free_nodes_' = IF last THEN free_nodes_ ELSE Append(free_nodes_, i)
  /\ UNCHANGED res

\* RemoveEdge.
RemoveEdge(idx, idy) ==
  /\ Valid(idx) /\ Valid(idy)
  /\ nodes_' = [nodes_ EXCEPT ![idx.index + 1].out = @ \ {idy.index},
                              ![idy.index + 1].in = @ \ {idx.index}]
  /\ UNCHANGED <<free_nodes_, res>>

-----------------------------------------------------------------------------
(* InsertEdge.                                                             *)

\* The nodes that a depth first search from n visits when it follows the edges e.
Visited(n, e) ==
  LET visit[k \in 0..Len(nodes_)] ==
        IF k = 0 THEN {n}
        ELSE visit[k - 1] \cup {w \in Indices : \E v \in visit[k - 1] : <<v, w>> \in e}
  IN  visit[Len(nodes_)]

Out(v) == Node(v).out
In(v) == Node(v).in
Rank(v) == Node(v).rank
Edges == {e \in Indices \X Indices : e[2] \in Out(e[1])}

\* ForwardDFS and BackwardDFS stay below and above a rank.
DeltaF(y, upper) == Visited(y, {e \in Edges : Rank(e[2]) < upper})
DeltaB(x, lower) ==
  Visited(x, {e \in Indices \X Indices : e[2] \in In(e[1]) /\ lower < Rank(e[2])})

\* ForwardDFS returns false if it meets the node whose rank is the upper bound.
Cycle(deltaf, upper) == \E v \in deltaf : \E w \in Out(v) : Rank(w) = upper

\* How many nodes of s have a rank below r.
Below(s, r) == Cardinality({v \in s : Rank(v) < r})

\* Mutant: the nodes before x move behind those after y.
Reorder_Swapped(deltab, deltaf) ==
  LET delta == deltab \cup deltaf
      place(v) == IF v \in deltaf THEN Below(deltaf, Rank(v))
                  ELSE Cardinality(deltaf) + Below(deltab, Rank(v))
  IN  [j \in 1..Len(nodes_) |-> IF j - 1 \in delta
         THEN CHOOSE r \in {Rank(v) : v \in delta} : Below(delta, r) = place(j - 1) ELSE Rank(j - 1)]

\* Reorder: the ranks of all these nodes are shared out among them anew, in order,
\* first to those from which x is reached and then to those that y reaches. What the
\* code sorts has its place by the number of those before it.
Reorder(deltab, deltaf) ==
  LET delta == deltab \cup deltaf
      place(v) == IF v \in deltab THEN Below(deltab, Rank(v))
                  ELSE Cardinality(deltab) + Below(deltaf, Rank(v))
  IN  [j \in 1..Len(nodes_) |-> IF j - 1 \in delta
         THEN CHOOSE r \in {Rank(v) : v \in delta} : Below(delta, r) = place(j - 1) ELSE Rank(j - 1)]

\* "New edge is consistent with existing rank assignment."
Consistent(x, y) == Rank(x) <= Rank(y)

\* The nodes with the edge, or, after a cycle was found, without it again.
WithEdge(x, y, ok) ==
  IF ok THEN [nodes_ EXCEPT ![x + 1].out = @ \cup {y}, ![y + 1].in = @ \cup {x}] ELSE nodes_

\* InsertEdge.
InsertEdge(idx, idy) ==
  LET x == idx.index
      y == idy.index
      deltaf == DeltaF(y, Rank(x))
      known == ~Valid(idx) \/ ~Valid(idy) \/ y \in Out(x)
      easy == Consistent(x, y)
      ok == known \/ (x # y /\ (easy \/ ~Cycle(deltaf, Rank(x))))
  IN  /\ res' = ok
      /\ nodes_' =
           IF known \/ x = y THEN nodes_
           ELSE LET new == WithEdge(x, y, ok)
                IN  IF easy \/ ~ok THEN new
                    ELSE LET rank == Reorder(DeltaB(x, Rank(y)), deltaf)
                         IN  [j \in 1..Len(new) |-> [new[j] EXCEPT !.rank = rank[j]]]
      /\ UNCHANGED free_nodes_

-----------------------------------------------------------------------------
(* FindPath: a depth first search that keeps the path to the node it is at. A   *)
(* marker on the stack tells when to leave a node.                              *)

Leave == -1

Push(s, n) == [s EXCEPT !.stack = Front(@) \o <<Leave>> \o SetToSeq(Out(n) \ s.seen),
                        !.seen = @ \cup Out(n), !.path = Append(@, n)]

Descend(s) ==
  IF Last(s.stack) = Leave THEN [s EXCEPT !.stack = Front(@), !.path = Front(@)]
  ELSE Push(s, Last(s.stack))

FindPath(x, y) ==
  LET search[k \in 0..2 * Len(nodes_)] ==
        IF k = 0 THEN [stack |-> <<x>>, seen |-> {}, path |-> <<>>]
        ELSE LET s == search[k - 1]
             IN  IF s.stack = <<>> \/ (s.path # <<>> /\ Last(s.path) = y) THEN s ELSE Descend(s)
  IN  search[2 * Len(nodes_)].path

-----------------------------------------------------------------------------
\* The graph on the pointers, as AcyclicGraph has it.
Live == {Node(i).ptr : i \in Indices} \ {NullPtr}
PtrEdges == {<<Node(e[1]).ptr, Node(e[2]).ptr>> : e \in Edges}

Next ==
  \/ \E p \in Ptrs : GetId(p)
  \/ \E p \in Ptrs : (HasPtr(p) => Node(Find(p)).version < MaxVersion) /\ RemoveNode(p)
  \/ \E idx, idy \in Ids : InsertEdge(idx, idy) \/ RemoveEdge(idx, idy)

Spec == Init /\ [][Next]_graph

-----------------------------------------------------------------------------
\* CheckInvariants: the ranks are a permutation, and every edge goes up. So the
\* graph has no cycle.
RanksOrderEdges ==
  /\ {Rank(i) : i \in Indices} = Indices
  /\ \A x \in Indices : \A y \in Out(x) : Rank(x) < Rank(y)

\* in and out tell of the same edges, between nodes that are in use; a node is in
\* use, free or out of versions, and no two have the same pointer.
EdgesMirrored ==
  /\ \A x, y \in Indices : (y \in Out(x) <=> x \in In(y))
  /\ \A x \in Indices : Node(x).ptr = NullPtr =>
       Out(x) = {} /\ (Contains(free_nodes_, x) \/ Node(x).version = MaxVersion)
  /\ \A i \in 1..Len(free_nodes_) : Node(free_nodes_[i]).ptr = NullPtr
  /\ IsInjective(free_nodes_)
  /\ \A x, y \in Indices : Node(x).ptr = Node(y).ptr /\ Node(x).ptr # NullPtr => x = y

\* FindPath finds a path exactly if there is one, along edges and without a node
\* twice, although a node it has seen once is never looked at again.
PathsFound ==
  \A x, y \in Indices :
    LET path == FindPath(x, y)
    IN  /\ path # <<>> <=> y \in Visited(x, Edges)
        /\ path # <<>> => path[1] = x /\ Last(path) = y /\ IsInjective(path)
        /\ \A i \in 1..Len(path) - 1 : path[i + 1] \in Out(path[i])
=============================================================================
