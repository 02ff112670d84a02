----------------------- MODULE DeadlockDetector_proofs -----------------------
(***************************************************************************)
(* Proofs about GraphCycles and DeadlockDetector, for any number of        *)
(* threads, mutexes and nodes.                                             *)
(*                                                                         *)
(* The inductive invariant of the graph, GraphInv: every edge goes up in   *)
(* rank and no two nodes have the same rank (RanksRise), in and out agree  *)
(* (Mirrored), and a node is in use or free (InUse). InsertEdge keeps it   *)
(* because its two searches have no node in common and nothing enters or   *)
(* leaves them between the two ranks (Apart). That of the detector,        *)
(* DetectorInv, says of every thread (ThreadOk) that its list names what   *)
(* it holds, unless it has lost track, and that from every mutex it holds  *)
(* there is an edge to the one it waits for, unless that was reported.     *)
(* Along such edges ranks rise, so that no ring of threads can go without  *)
(* a report.                                                               *)
(***************************************************************************)
EXTENDS DeadlockDetector, FiniteSetTheorems, SequenceTheorems, TLAPS

-----------------------------------------------------------------------------
(* Numbers and closures.                                                   *)

\* A set of numbers has a least one.
LEMMA LeastOne ==
  ASSUME NEW S \in SUBSET Nat, S # {}
  PROVE  \E n \in S : \A m \in S : n =< m
<1> DEFINE less == OpToRel(<, Nat)
<1>1. \A n, m \in Nat : n < m => <<n, m>> \in less
  BY DEF OpToRel
<1>2. IsWellFoundedOn(less, Nat)
  BY NatLessThanWellFounded
<1> HIDE DEF less
<1>3. PICK n \in S : \A m \in S : ~(<<m, n>> \in less)
  BY ONLY S \in SUBSET Nat, S # {}, <1>2, WFMin
<1>4. \A m \in S : n =< m
  <2>1. TAKE m \in S
  <2>2. n \in Nat /\ m \in Nat /\ ~(m < n)
    BY <1>1, <1>3
  <2> QED
    BY <2>2
<1> QED
  BY <1>3, <1>4

\* What holds of zero and passes on to the next number holds of every number.
LEMMA Induction ==
  ASSUME NEW S \in SUBSET Nat, 0 \in S, \A n \in Nat : n \in S => n + 1 \in S
  PROVE  S = Nat
<1> SUFFICES ASSUME Nat \ S # {} PROVE FALSE
  OBVIOUS
<1>1. PICK n \in Nat \ S : \A m \in Nat \ S : n =< m
  BY LeastOne
<1>2. n # 0 /\ n - 1 \in Nat /\ n - 1 \notin S
  BY <1>1
<1> QED
  BY <1>1, <1>2

\* h is what comes of a when F is applied up to n times.
Iterates(h, T, F, a, n) ==
  h \in [0..n -> T] /\ h[0] = a /\ \A k \in 1..n : h[k] = F[h[k - 1]]

\* A function can be applied n times in a row.
LEMMA CanIterate ==
  ASSUME NEW T, NEW F \in [T -> T], NEW a \in T, NEW n \in Nat
  PROVE  \E h : Iterates(h, T, F, a, n)
<1> DEFINE Good(m) == \E h \in [0..m -> T] : h[0] = a /\ \A k \in 1..m : h[k] = F[h[k - 1]]
           S == {m \in Nat : Good(m)}
<1>1. 0 \in S
  <2> DEFINE c == [k \in 0..0 |-> a]
  <2>1. c \in [0..0 -> T] /\ c[0] = a /\ \A k \in 1..0 : c[k] = F[c[k - 1]]
    OBVIOUS
  <2> HIDE DEF c
  <2>2. Good(0)
    BY <2>1
  <2> QED
    BY <2>2
<1>2. ASSUME NEW m \in Nat, m \in S PROVE m + 1 \in S
  <2>1. PICK h \in [0..m -> T] : h[0] = a /\ \A k \in 1..m : h[k] = F[h[k - 1]]
    BY <1>2
  <2> DEFINE g == [k \in 0..m + 1 |-> IF k = m + 1 THEN F[h[m]] ELSE h[k]]
  <2>2. g \in [0..m + 1 -> T]
    OBVIOUS
  <2>3. g[0] = a /\ \A k \in 1..m + 1 : g[k] = F[g[k - 1]]
    BY <2>1
  <2> HIDE DEF g
  <2>4. Good(m + 1)
    BY <2>2, <2>3
  <2> QED
    BY <2>4
<1> HIDE DEF Good
<1>3. S = Nat
  BY <1>1, <1>2, Induction
<1> QED
  BY <1>3 DEF Good, Iterates

\* h are the sets that come of {a} by a function F on the subsets of S, which adds to them;
\* F does not lead out of T.
Closing(h, S, F, a, n) ==
  /\ F \in [SUBSET S -> SUBSET S] /\ (\A A \in SUBSET S : A \subseteq F[A])
  /\ a \in S /\ Iterates(h, SUBSET S, F, {a}, n)
Stays(F, S, T) == \A A \in SUBSET S : A \subseteq T => F[A] \subseteq T

\* A function that adds to a set has come to an end when it has been applied as often as
\* there are elements; all it adds is in every set that it does not leave.
LEMMA Closure ==
  ASSUME NEW S, IsFiniteSet(S), NEW n \in Nat, Cardinality(S) =< n,
         NEW a, NEW F, NEW h, Closing(h, S, F, a, n)
  PROVE  h[n] \subseteq S /\ a \in h[n] /\ h[n] = F[h[n]]
<1> USE DEF Iterates, Closing, Stays
<1> DEFINE Grown(k) == k \in 0..n => a \in h[k] /\ (F[h[k]] = h[k] \/ Cardinality(h[k]) >= k + 1)
           K == {k \in Nat : Grown(k)}
<1>1. \A A \in SUBSET S : IsFiniteSet(A) /\ Cardinality(A) \in Nat /\ Cardinality(A) =< Cardinality(S)
  BY FS_Subset, FS_CardinalityType
<1>2. 0 \in K
  <2>1. Cardinality({a}) = 1
    BY FS_Singleton
  <2>2. Grown(0)
    BY ONLY <2>1, h[0] = {a}
  <2> QED
    BY <2>2
<1>3. ASSUME NEW k \in Nat, k \in K PROVE k + 1 \in K
  <2> SUFFICES ASSUME k + 1 \in 0..n PROVE Grown(k + 1)
    OBVIOUS
  <2>1. h[k + 1] = F[h[k]] /\ h[k] \in SUBSET S /\ h[k + 1] \in SUBSET S /\ h[k] \subseteq h[k + 1] /\ a \in h[k]
    BY <1>3
  <2>2. CASE F[h[k]] = h[k]
    BY <2>1, <2>2
  <2>3. CASE F[h[k]] # h[k]
    <3>1. Cardinality(h[k]) >= k + 1 /\ Cardinality(h[k]) \in Nat
      BY <1>1, <1>3, <2>1, <2>3
    <3>2. Cardinality(h[k]) < Cardinality(h[k + 1])
      BY <1>1, <2>1, <2>3, FS_Subset
    <3> QED
      BY <1>1, <2>1, <3>1, <3>2
  <2> QED
    BY <2>2, <2>3
<1> HIDE DEF Grown
<1>4. K = Nat
  BY <1>2, <1>3, Induction
<1>5. Grown(n)
  BY <1>4
<1>6. h[n] \in SUBSET S /\ a \in h[n] /\ F[h[n]] = h[n]
  <2>1. Cardinality(S) \in Nat /\ h[n] \in SUBSET S
    BY <1>1
  <2> QED
    BY <1>1, <1>5, <2>1 DEF Grown
<1> QED
  BY <1>6

\* What is reached by repeated application is in every set that is not left.
LEMMA ClosureIsLeast ==
  ASSUME NEW S, NEW n \in Nat, NEW a, NEW F, NEW h, Closing(h, S, F, a, n),
         NEW T, a \in T, Stays(F, S, T)
  PROVE  h[n] \subseteq T
<1> USE DEF Iterates, Closing, Stays
<1> DEFINE J == {k \in Nat : k \in 0..n => h[k] \subseteq T}
<1>1. 0 \in J
  OBVIOUS
<1>2. ASSUME NEW k \in Nat, k \in J PROVE k + 1 \in J
  BY <1>2
<1>3. J = Nat
  BY <1>1, <1>2, Induction
<1> QED
  BY <1>3

-----------------------------------------------------------------------------
(* The graph: what is reached along its edges.                             *)

\* The nodes are finitely many.
LEMMA IndicesAreFinite ==
  ASSUME Len(nodes_) \in Nat
  PROVE  IsFiniteSet(Indices) /\ Cardinality(Indices) = Len(nodes_)
<1>1. 0 \in Int /\ Len(nodes_) - 1 \in Int
  OBVIOUS
<1>2. IsFiniteSet(0..Len(nodes_) - 1)
      /\ Cardinality(0..Len(nodes_) - 1) = IF 0 > Len(nodes_) - 1 THEN 0 ELSE Len(nodes_) - 1 - 0 + 1
  BY <1>1, FS_Interval
<1> QED
  BY <1>2 DEF Indices

\* Visited(n, e) is the least set with n that the edges e do not leave.
LEMMA VisitedIs ==
  ASSUME Len(nodes_) \in Nat, NEW n \in Indices, NEW e
  PROVE  /\ Visited(n, e) \subseteq Indices /\ n \in Visited(n, e)
         /\ \A v \in Visited(n, e) : \A w \in Indices : <<v, w>> \in e => w \in Visited(n, e)
         /\ \A T : n \in T /\ (\A v \in T : \A w \in Indices : <<v, w>> \in e => w \in T)
                  => Visited(n, e) \subseteq T
<1> DEFINE N == Len(nodes_)
           Go(A) == A \cup {w \in Indices : \E v \in A : <<v, w>> \in e}
           F == [A \in SUBSET Indices |-> Go(A)]
           Is(g) == g = [k \in 0..N |-> IF k = 0 THEN {n}
                           ELSE g[k - 1] \cup {w \in Indices : \E v \in g[k - 1] : <<v, w>> \in e}]
           visit == CHOOSE g : Is(g)
<1>1. Visited(n, e) = visit[N] /\ N \in Nat
  BY DEF Visited
<1>2. F \in [SUBSET Indices -> SUBSET Indices] /\ \A A \in SUBSET Indices : A \subseteq F[A] /\ F[A] = Go(A)
  OBVIOUS
<1> HIDE DEF F, N
<1>3. PICK h : Closing(h, Indices, F, n, N)
  <2>1. PICK h : Iterates(h, SUBSET Indices, F, {n}, N)
    BY ONLY <1>1, <1>2, n \in Indices, CanIterate
  <2> HIDE DEF Go
  <2> QED
    BY <1>2, <2>1 DEF Closing
<1>4. Is(h)
  <2>1. ASSUME NEW k \in 0..N
        PROVE  h[k] = IF k = 0 THEN {n} ELSE h[k - 1] \cup {w \in Indices : \E v \in h[k - 1] : <<v, w>> \in e}
    <3>1. CASE k = 0
      BY <1>3, <3>1 DEF Closing, Iterates
    <3>2. CASE k # 0
      <4>1. k \in 1..N /\ k - 1 \in 0..N
        BY <1>1, <3>2
      <4>2. h[k] = F[h[k - 1]] /\ h[k - 1] \in SUBSET Indices
        BY <1>3, <4>1 DEF Closing, Iterates
      <4>3. h[k] = Go(h[k - 1])
        BY <1>2, <4>2
      <4> QED
        BY ONLY <3>2, <4>3
    <3> QED
      BY <3>1, <3>2
  <2> QED
    BY <1>3, <2>1 DEF Closing, Iterates
<1>5. Is(visit)
  BY <1>4
<1> HIDE DEF visit
<1>6. \A k \in Nat : k \in 0..N => visit[k] = h[k]
  <2> DEFINE K == {k \in Nat : k \in 0..N => visit[k] = h[k]}
  <2>1. 0 \in K
    BY <1>1, <1>3, <1>5 DEF Closing, Iterates
  <2>2. ASSUME NEW k \in Nat, k \in K PROVE k + 1 \in K
    <3> SUFFICES ASSUME k + 1 \in 0..N PROVE visit[k + 1] = h[k + 1]
      OBVIOUS
    <3>1. visit[k] = h[k] /\ k + 1 # 0 /\ (k + 1) - 1 = k
      BY <1>1, <2>2
    <3>2. visit[k + 1] = Go(visit[k])
      BY <1>5, <3>1
    <3>3. h[k + 1] = Go(h[k])
      BY <1>4, <3>1
    <3> QED
      BY <3>1, <3>2, <3>3
  <2> HIDE DEF K
  <2>3. K = Nat
    BY <2>1, <2>2, Induction DEF K
  <2> QED
    BY <2>3 DEF K
<1>7. visit[N] = h[N]
  BY <1>1, <1>6
<1> HIDE DEF Is
<1>8. h[N] \subseteq Indices /\ n \in h[N] /\ h[N] = F[h[N]]
  <2> HIDE DEF Go
  <2>1. IsFiniteSet(Indices) /\ Cardinality(Indices) =< N
    BY IndicesAreFinite DEF N
  <2> QED
    BY ONLY <1>1, <1>3, <2>1, Closure
<1>9. \A v \in h[N] : \A w \in Indices : <<v, w>> \in e => w \in h[N]
  <2>1. h[N] = Go(h[N])
    BY <1>2, <1>8
  <2> QED
    BY <1>8, <2>1
<1>10. ASSUME NEW T, n \in T, \A v \in T : \A w \in Indices : <<v, w>> \in e => w \in T
       PROVE  h[N] \subseteq T
  <2>1. Stays(F, Indices, T)
    <3> SUFFICES ASSUME NEW A \in SUBSET Indices, A \subseteq T PROVE F[A] \subseteq T
      BY DEF Stays
    <3>1. F[A] = Go(A)
      BY <1>2
    <3> QED
      BY ONLY <1>10, <3>1, A \in SUBSET Indices, A \subseteq T
  <2>2. n \in T
    BY <1>10
  <2> QED
    BY ONLY <1>1, <1>3, <2>1, <2>2, ClosureIsLeast
<1> QED
  BY <1>1, <1>7, <1>8, <1>9, <1>10

-----------------------------------------------------------------------------
(* The invariant of the graph.                                             *)

NodeSet == [rank : Nat, version : Nat, ptr : Ptrs \cup {NullPtr}, in : SUBSET Nat, out : SUBSET Nat]

GraphTypes ==
  /\ nodes_ \in Seq(NodeSet) /\ free_nodes_ \in Seq(Nat) /\ res \in BOOLEAN
  /\ \A x \in Indices : /\ Rank(x) \in Indices /\ In(x) \subseteq Indices /\ Out(x) \subseteq Indices
                       /\ Node(x).version \in 1..MaxVersion

\* No two nodes have the same rank, and every edge goes up.
RanksRise ==
  /\ \A x, y \in Indices : Rank(x) = Rank(y) => x = y
  /\ \A x \in Indices : \A y \in Out(x) : Rank(x) < Rank(y)

\* in and out tell of the same edges; a node is in use or free, and no two have the same pointer.
Mirrored == \A x, y \in Indices : (y \in Out(x) <=> x \in In(y))
InUse ==
  /\ \A x \in Indices : Node(x).ptr = NullPtr => Out(x) = {} /\ In(x) = {} /\ Contains(free_nodes_, x)
  /\ \A i \in 1..Len(free_nodes_) : free_nodes_[i] \in Indices /\ Node(free_nodes_[i]).ptr = NullPtr
  /\ IsInjective(free_nodes_)
  /\ \A x, y \in Indices : Node(x).ptr = Node(y).ptr /\ Node(x).ptr # NullPtr => x = y

GraphInv == GraphTypes /\ RanksRise /\ Mirrored /\ InUse

\* What the types say of nodes and indices.
LEMMA NodesAre ==
  ASSUME GraphTypes
  PROVE  /\ Len(nodes_) \in Nat /\ DOMAIN nodes_ = 1..Len(nodes_)
         /\ Len(free_nodes_) \in Nat /\ DOMAIN free_nodes_ = 1..Len(free_nodes_)
         /\ \A x \in Indices : x \in Nat /\ x + 1 \in 1..Len(nodes_) /\ Node(x) \in NodeSet /\ Node(x) = nodes_[x + 1]
         /\ \A j \in 1..Len(nodes_) : j - 1 \in Indices /\ nodes_[j] = Node(j - 1)
BY DEF GraphTypes, Indices, Node

\* A node as it is: the fields of a node.
Fields == {"rank", "version", "ptr", "in", "out"}

\* A node is the record of its fields.
LEMMA NodeIs ==
  ASSUME NEW n
  PROVE  n \in NodeSet <=> /\ n = [rank |-> n.rank, version |-> n.version, ptr |-> n.ptr, in |-> n.in, out |-> n.out]
                           /\ n.rank \in Nat /\ n.version \in Nat /\ n.ptr \in Ptrs \cup {NullPtr}
                           /\ n.in \subseteq Nat /\ n.out \subseteq Nat
BY DEF NodeSet

\* A function on the first numbers is a sequence.
LEMMA FunctionIsSequence ==
  ASSUME NEW T, NEW n \in Nat, NEW f \in [1..n -> T]
  PROVE  f \in Seq(T) /\ Len(f) = n
OBVIOUS

\* The empty graph has the invariant.
LEMMA InitGraph ==
  ASSUME GraphCyclesAssumption, Init PROVE GraphInv
BY DEF Init, GraphInv, GraphTypes, RanksRise, Mirrored, InUse, Indices, IsInjective

\* Ranks that are different and below the number of nodes are all the numbers below it.
LEMMA RanksAreAll ==
  ASSUME GraphInv PROVE RanksOrderEdges
<1> DEFINE f == [x \in Indices |-> Rank(x)]
           I == {Rank(i) : i \in Indices}
<1>1. IsFiniteSet(Indices) /\ I \subseteq Indices
  BY IndicesAreFinite, NodesAre DEF GraphInv, GraphTypes
<1>2. f \in Injection(Indices, I)
  BY DEF GraphInv, GraphTypes, RanksRise, Injection, IsInjective
<1>3. IsFiniteSet(I) /\ Cardinality(I) \in Nat /\ Cardinality(Indices) \in Nat /\ Cardinality(I) =< Cardinality(Indices)
  BY <1>1, FS_Subset, FS_CardinalityType
<1> HIDE DEF f, I
<1>4. Cardinality(Indices) =< Cardinality(I)
  BY <1>1, <1>2, <1>3, FS_Injection DEF ExistsInjection
<1>5. I = Indices
  BY <1>1, <1>3, <1>4, FS_Subset
<1> QED
  BY <1>5 DEF I, RanksOrderEdges, GraphInv, RanksRise

-----------------------------------------------------------------------------
(* Nodes that come and go.                                                 *)

\* Ids that are known stay known: a node is not used for another pointer, and its version
\* stays, as long as it is in use.
KeepsIds ==
  \A x \in Indices : /\ x \in Indices' /\ Node(x)'.version = Node(x).version
                     /\ Node(x).ptr # NullPtr => Node(x)'.ptr = Node(x).ptr

\* Node i is given to p, the last free one or a new one; nothing else changes.
Given(p, i) ==
  /\ nodes_' \in Seq(NodeSet) /\ Indices' = Indices \cup {i}
  /\ \A x \in Indices \ {i} : Node(x)' = Node(x)
  /\ Node(i)'.ptr = p /\ Out(i)' = {} /\ In(i)' = {} /\ Node(i)'.version \in 1..MaxVersion
  /\ i \in Indices => Rank(i)' = Rank(i) /\ Node(i)'.version = Node(i).version /\ Node(i).ptr = NullPtr
  /\ i \notin Indices => i = Len(nodes_) /\ Rank(i)' = i /\ Node(i)'.version = 1
  /\ IF free_nodes_ = <<>> THEN i \notin Indices /\ free_nodes_' = <<>> /\ i = Len(nodes_)
     ELSE i \in Indices /\ i = Last(free_nodes_) /\ free_nodes_' = Front(free_nodes_)

\* What GetId does: some index is given to the pointer.
LEMMA GetIdIs ==
  ASSUME GraphCyclesAssumption, GraphInv, NEW p \in Ptrs, GetId(p)
  PROVE  \E i \in Nat : Given(p, i)
<1> USE GraphCyclesAssumption DEF GraphCyclesAssumption
<1>0. PICK N, i : N = Len(nodes_) /\ i = Last(free_nodes_)
  OBVIOUS
<1> DEFINE new == [rank |-> N, version |-> 1, ptr |-> p, in |-> {}, out |-> {}]
<1>1. CASE free_nodes_ = <<>>
  <2>1. nodes_' = Append(nodes_, new) /\ free_nodes_' = <<>> /\ N \in Nat
    BY <1>0, <1>1, NodesAre DEF GetId, NewNodes, GraphInv
  <2>2. new \in NodeSet
    BY <2>1 DEF NodeSet
  <2>3. /\ nodes_' \in Seq(NodeSet) /\ Len(nodes_') = N + 1 /\ nodes_'[N + 1] = new
        /\ \A j \in 1..N : nodes_'[j] = nodes_[j]
    BY <1>0, <2>1, <2>2 DEF GraphInv, GraphTypes
  <2>4. Indices' = Indices \cup {N} /\ Node(N)' = new /\ \A x \in Indices \ {N} : Node(x)' = Node(x)
    <3> HIDE DEF new
    <3>1. Indices' = Indices \cup {N}
      BY <2>1, <2>3 DEF Indices
    <3>2. Node(N)' = new
      BY <2>3 DEF Node
    <3>3. \A x \in Indices \ {N} : Node(x)' = Node(x)
      <4>1. TAKE x \in Indices \ {N}
      <4>2. x + 1 \in 1..N
        BY <1>0, NodesAre DEF GraphInv
      <4> QED
        BY <2>3, <4>2 DEF Node
    <3> QED
      BY <3>1, <3>2, <3>3
  <2>5. N \notin Indices
    BY <1>0, <2>1 DEF Indices
  <2>6. Node(N)'.ptr = p /\ Out(N)' = {} /\ In(N)' = {} /\ Node(N)'.version = 1 /\ Rank(N)' = N
    BY <2>4 DEF Out, In, Rank
  <2> HIDE DEF new
  <2>7. N \in Nat /\ 1 \in 1..MaxVersion
    BY <2>1
  <2>8. Given(p, N)
    BY <1>0, <1>1, <2>1, <2>3, <2>4, <2>5, <2>6, <2>7 DEF Given
  <2> QED
    BY <2>7, <2>8
<1>2. CASE free_nodes_ # <<>>
  <2>1. nodes_' = [nodes_ EXCEPT ![i + 1].ptr = p] /\ free_nodes_' = Front(free_nodes_)
    BY <1>0, <1>2 DEF GetId, NewNodes
  <2>2. Len(free_nodes_) \in Nat \ {0} /\ i = free_nodes_[Len(free_nodes_)]
    BY <1>0, <1>2 DEF GraphInv, GraphTypes, Last
  <2>3. i \in Indices /\ Node(i).ptr = NullPtr /\ Out(i) = {} /\ In(i) = {}
    BY <2>2 DEF GraphInv, InUse
  <2>4. i \in Nat /\ i + 1 \in 1..N /\ Node(i) = nodes_[i + 1] /\ Node(i) \in NodeSet /\ N \in Nat /\ DOMAIN nodes_ = 1..N
    BY <1>0, <2>3, NodesAre DEF GraphInv
  <2>5. [Node(i) EXCEPT !.ptr = p] \in NodeSet
    BY <2>4 DEF NodeSet
  <2>6. nodes_' \in Seq(NodeSet) /\ Len(nodes_') = N
    BY <1>0, <2>1, <2>4, <2>5 DEF GraphInv, GraphTypes
  <2>7. \A j \in 1..N : nodes_'[j] = IF j = i + 1 THEN [Node(i) EXCEPT !.ptr = p] ELSE nodes_[j]
    BY <2>1, <2>4
  <2>8. Indices' = Indices
    BY <1>0, <2>6 DEF Indices
  <2>9. \A x \in Indices \ {i} : Node(x)' = Node(x)
    <3>1. TAKE x \in Indices \ {i}
    <3>2. x + 1 \in 1..N /\ x + 1 # i + 1
      BY <1>0, <2>4, NodesAre DEF GraphInv
    <3> QED
      BY ONLY <2>7, <3>2 DEF Node
  <2>10. Node(i)' = [Node(i) EXCEPT !.ptr = p]
    <3>1. nodes_'[i + 1] = [Node(i) EXCEPT !.ptr = p]
      BY <2>4, <2>7
    <3> QED
      BY <3>1 DEF Node
  <2>11. Node(i)'.ptr = p /\ Out(i)' = Out(i) /\ In(i)' = In(i) /\ Node(i)'.version = Node(i).version /\ Rank(i)' = Rank(i)
    BY <2>4, <2>10 DEF Out, In, Rank, NodeSet
  <2>12. Node(i)'.version \in 1..MaxVersion
    BY <2>3, <2>11 DEF GraphInv, GraphTypes
  <2>13. Given(p, i)
    BY ONLY <1>0, <1>2, <2>1, <2>3, <2>6, <2>8, <2>9, <2>11, <2>12 DEF Given
  <2> QED
    BY <2>4, <2>13
<1> QED
  BY <1>1, <1>2

\* What is left when the last free node is taken.
LEMMA FreeNodes ==
  ASSUME GraphInv, free_nodes_ # <<>>
  PROVE  /\ Front(free_nodes_) \in Seq(Nat) /\ IsInjective(Front(free_nodes_))
         /\ Len(Front(free_nodes_)) = Len(free_nodes_) - 1 /\ Len(free_nodes_) \in Nat \ {0}
         /\ Last(free_nodes_) = free_nodes_[Len(free_nodes_)]
         /\ \A j \in 1..Len(free_nodes_) - 1 : Front(free_nodes_)[j] = free_nodes_[j] /\ free_nodes_[j] # Last(free_nodes_)
         /\ \A x : Contains(Front(free_nodes_), x) <=> Contains(free_nodes_, x) /\ x # Last(free_nodes_)
<1>0. PICK s, n : s = free_nodes_ /\ n = Len(s)
  OBVIOUS
<1>1. /\ s \in Seq(Nat) /\ n = Len(s) /\ n \in Nat \ {0} /\ DOMAIN s = 1..n /\ n - 1 \in Nat
      /\ \A a, b \in 1..n : s[a] = s[b] => a = b
  BY <1>0 DEF GraphInv, GraphTypes, InUse, IsInjective
<1>2. /\ Front(s) \in Seq(Nat) /\ Len(Front(s)) = n - 1 /\ DOMAIN Front(s) = 1..n - 1
      /\ \A j \in 1..n - 1 : Front(s)[j] = s[j] /\ j \in 1..n
  <2>1. Front(s) = SubSeq(s, 1, n - 1)
    BY <1>1 DEF Front
  <2>2. /\ SubSeq(s, 1, n - 1) \in Seq(Nat) /\ Len(SubSeq(s, 1, n - 1)) = n - 1
        /\ \A j \in 1..n - 1 : SubSeq(s, 1, n - 1)[j] = s[j] /\ j \in 1..n
    BY ONLY <1>1
  <2>3. DOMAIN SubSeq(s, 1, n - 1) = 1..n - 1
    BY ONLY <1>1, <2>2
  <2> QED
    BY ONLY <2>1, <2>2, <2>3
<1>3. Last(s) = s[n] /\ \A j \in 1..n - 1 : s[j] # Last(s)
  BY ONLY <1>1 DEF Last
<1>4. IsInjective(Front(s))
  BY ONLY <1>1, <1>2 DEF IsInjective
<1>5. ASSUME NEW x PROVE Contains(Front(s), x) <=> Contains(s, x) /\ x # Last(s)
  <2>1. \A j \in 1..n : j \in 1..n - 1 \/ j = n
    BY ONLY <1>1
  <2> QED
    BY ONLY <1>1, <1>2, <1>3, <2>1 DEF Contains
<1> QED
  BY <1>0, <1>1, <1>2, <1>3, <1>4, <1>5

\* GetId keeps the invariant, the ids that are known and all edges.
LEMMA GetIdKeeps ==
  ASSUME GraphCyclesAssumption, GraphInv, NEW p \in Ptrs, GetId(p)
  PROVE  GraphInv' /\ KeepsIds /\ \A x \in Indices : Out(x)' = Out(x)
<1>1. PICK i \in Nat : Given(p, i)
  BY GetIdIs
<1>2. /\ p # NullPtr /\ \A x \in Indices : Node(x).ptr # p
      /\ res' = res
  BY DEF GetId, HasPtr, GraphCyclesAssumption
<1>3. /\ Indices' = Indices \cup {i} /\ \A x \in Indices : x \in Nat /\ x < Len(nodes_)
      /\ Len(nodes_) \in Nat
  <2>1. Indices' = Indices \cup {i}
    BY <1>1 DEF Given
  <2>2. Len(nodes_) \in Nat
    BY NodesAre DEF GraphInv
  <2> QED
    BY <2>1, <2>2 DEF Indices
<1>4. \A x \in Indices \ {i} : Rank(x)' = Rank(x) /\ Out(x)' = Out(x) /\ In(x)' = In(x)
  BY <1>1 DEF Given, Rank, Out, In
<1>5. i \in Indices => Out(i) = {} /\ In(i) = {}
  BY <1>1 DEF Given, GraphInv, InUse
<1>6. GraphTypes'
  <2>1. free_nodes_' \in Seq(Nat)
    <3>1. CASE free_nodes_ = <<>>
      BY <1>1, <3>1 DEF Given
    <3>2. CASE free_nodes_ # <<>>
      BY <1>1, <3>2, FreeNodes DEF Given
    <3> QED
      BY <3>1, <3>2
  <2>2. \A x \in Indices' : Rank(x)' \in Indices'
    BY <1>1, <1>3, <1>4 DEF Given, GraphInv, GraphTypes
  <2>3. \A x \in Indices' : In(x)' \subseteq Indices' /\ Out(x)' \subseteq Indices'
    BY <1>1, <1>3, <1>4 DEF Given, GraphInv, GraphTypes
  <2>4. \A x \in Indices' : Node(x)'.version \in 1..MaxVersion
    BY <1>1, <1>3 DEF Given, GraphInv, GraphTypes
  <2>5. nodes_' \in Seq(NodeSet) /\ res' \in BOOLEAN
    BY <1>1, <1>2 DEF Given, GraphInv, GraphTypes
  <2> QED
    BY <2>1, <2>2, <2>3, <2>4, <2>5 DEF GraphTypes
<1>7. RanksRise'
  <2>1. \A x \in Indices : Rank(x)' = Rank(x) /\ Rank(x) \in Indices
    BY <1>1, <1>4 DEF Given, GraphInv, GraphTypes
  <2>2. i \notin Indices => Rank(i)' = Len(nodes_)
    BY <1>1 DEF Given
  <2>3. \A x, y \in Indices' : Rank(x)' = Rank(y)' => x = y
    BY <1>3, <2>1, <2>2 DEF GraphInv, RanksRise
  <2>4. \A x \in Indices' : \A y \in Out(x)' : x \in Indices /\ y \in Out(x) /\ y \in Indices
    BY <1>1, <1>3, <1>4 DEF Given, GraphInv, GraphTypes
  <2>5. \A x \in Indices' : \A y \in Out(x)' : Rank(x)' < Rank(y)'
    BY <2>1, <2>4 DEF GraphInv, RanksRise
  <2> QED
    BY <2>3, <2>5 DEF RanksRise
<1>8. Mirrored'
  <2>1. \A x, y \in Indices \ {i} : y \in Out(x)' <=> x \in In(y)'
    BY <1>4 DEF GraphInv, Mirrored
  <2>2. \A x \in Indices \ {i} : i \notin Out(x) /\ i \notin In(x)
    BY <1>1, <1>5 DEF GraphInv, Mirrored, GraphTypes
  <2>3. Out(i)' = {} /\ In(i)' = {}
    BY <1>1 DEF Given
  <2> QED
    BY <1>3, <1>4, <2>1, <2>2, <2>3 DEF Mirrored
<1>9. InUse'
  <2>1. \A x \in Indices \ {i} : Node(x)' = Node(x)
    BY <1>1 DEF Given
  <2>2. Node(i)'.ptr = p
    BY <1>1 DEF Given
  <2>3. ASSUME NEW x \in Indices', Node(x)'.ptr = NullPtr
        PROVE  Out(x)' = {} /\ In(x)' = {} /\ Contains(free_nodes_, x)'
    <3>1. x \in Indices \ {i} /\ Node(x).ptr = NullPtr
      BY <1>2, <1>3, <2>1, <2>2, <2>3
    <3>2. Out(x) = {} /\ In(x) = {} /\ Contains(free_nodes_, x)
      BY <3>1 DEF GraphInv, InUse
    <3>3. CASE free_nodes_ = <<>>
      BY <3>2, <3>3 DEF Contains
    <3>4. CASE free_nodes_ # <<>>
      <4>1. Contains(Front(free_nodes_), x)
        BY <1>1, <3>1, <3>2, <3>4, FreeNodes DEF Given
      <4>2. Contains(free_nodes_, x)'
        BY <1>1, <3>4, <4>1 DEF Given, Contains
      <4> QED
        BY <1>4, <3>1, <3>2, <4>2
    <3> QED
      BY <3>3, <3>4
  <2>4. ASSUME NEW j \in 1..Len(free_nodes_') PROVE (free_nodes_[j] \in Indices /\ Node(free_nodes_[j]).ptr = NullPtr)'
    <3>1. free_nodes_ # <<>> /\ free_nodes_' = Front(free_nodes_) /\ i = Last(free_nodes_)
      BY <1>1 DEF Given
    <3>2. PICK x : x = free_nodes_'[j]
      OBVIOUS
    <3>3. j \in 1..Len(free_nodes_) /\ x = free_nodes_[j] /\ x # i
      BY <3>1, <3>2, FreeNodes
    <3>4. x \in Indices /\ Node(x).ptr = NullPtr
      BY <3>3 DEF GraphInv, InUse
    <3>5. x \in Indices' /\ Node(x)'.ptr = NullPtr
      BY <1>3, <2>1, <3>3, <3>4
    <3> QED
      BY <3>2, <3>5 DEF Node
  <2>5. IsInjective(free_nodes_')
    <3>1. CASE free_nodes_ = <<>>
      BY <1>1, <3>1 DEF Given, IsInjective
    <3>2. CASE free_nodes_ # <<>>
      BY <1>1, <3>2, FreeNodes DEF Given
    <3> QED
      BY <3>1, <3>2
  <2>6. \A x, y \in Indices' : Node(x)'.ptr = Node(y)'.ptr /\ Node(x)'.ptr # NullPtr => x = y
    BY <1>2, <1>3, <2>1, <2>2 DEF GraphInv, InUse
  <2> QED
    BY <2>3, <2>4, <2>5, <2>6 DEF InUse
<1>10. KeepsIds
  BY <1>1, <1>3 DEF KeepsIds, Given
<1>11. \A x \in Indices : Out(x)' = Out(x)
  BY <1>1, <1>4, <1>5 DEF Given
<1> QED
  BY <1>6, <1>7, <1>8, <1>9, <1>10, <1>11 DEF GraphInv

-----------------------------------------------------------------------------
(* Reorder.                                                                *)

Within(A, B) == A \subseteq B
Less(A, B) == A \subseteq B /\ A # B

\* How many nodes of a set have a rank below r: the number grows with r, and grows where
\* a node of the set is passed.
LEMMA BelowIs ==
  ASSUME GraphInv, NEW s \in SUBSET Indices
  PROVE  /\ IsFiniteSet(s) /\ Cardinality(s) \in Nat
         /\ \A r : Below(s, r) \in Nat /\ Below(s, r) =< Cardinality(s)
         /\ \A a, b \in Nat : a =< b => Below(s, a) =< Below(s, b)
         /\ \A v \in s : \A b \in Nat : Rank(v) < b => Below(s, Rank(v)) < Below(s, b)
         /\ \A v \in s : Below(s, Rank(v)) < Cardinality(s)
<1> DEFINE U(r) == {v \in s : Rank(v) < r}
<1>1. IsFiniteSet(s) /\ \A v \in s : Rank(v) \in Nat
  BY IndicesAreFinite, FS_Subset, NodesAre DEF GraphInv, GraphTypes
<1>2. Within(s, s) /\ \A r : Below(s, r) = Cardinality(U(r)) /\ Within(U(r), s)
  BY DEF Below, Within
<1>3. \A A, B : Within(A, B) /\ Within(B, s) => Cardinality(A) \in Nat /\ Cardinality(A) =< Cardinality(B)
  <2>1. TAKE A, B
  <2>2. HAVE Within(A, B) /\ Within(B, s)
  <2>3. IsFiniteSet(B) /\ IsFiniteSet(A)
    BY <1>1, <2>2, FS_Subset DEF Within
  <2>4. Cardinality(A) \in Nat /\ Cardinality(B) \in Nat
    BY <2>3, FS_CardinalityType
  <2>5. A \in SUBSET B
    BY <2>2 DEF Within
  <2>6. Cardinality(A) =< Cardinality(B)
    BY <2>3, <2>4, <2>5, FS_Subset
  <2> QED
    BY ONLY <2>4, <2>6
<1>11. \A A, B : Less(A, B) /\ Within(B, s) => Cardinality(A) < Cardinality(B)
  <2>1. TAKE A, B
  <2>2. HAVE Less(A, B) /\ Within(B, s)
  <2>3. IsFiniteSet(B) /\ A \subseteq B /\ A # B
    BY <1>1, <2>2, FS_Subset DEF Within, Less
  <2>4. Cardinality(A) =< Cardinality(B) /\ Cardinality(A) # Cardinality(B)
    BY <2>3, FS_Subset
  <2>5. Cardinality(A) \in Nat /\ Cardinality(B) \in Nat
    BY <2>3, FS_Subset, FS_CardinalityType
  <2> QED
    BY ONLY <2>4, <2>5
<1>4. \A a, b \in Nat : a =< b => Within(U(a), U(b))
  BY <1>1 DEF Within
<1>5. \A v \in s : \A b \in Nat : Rank(v) < b => Less(U(Rank(v)), U(b))
  BY <1>1 DEF Less
<1>6. \A v \in s : Less(U(Rank(v)), s)
  BY <1>1 DEF Less
<1> HIDE DEF U
<1>7. Cardinality(s) \in Nat /\ \A r : Below(s, r) \in Nat /\ Below(s, r) =< Cardinality(s)
  BY ONLY <1>2, <1>3
<1>8. \A a, b \in Nat : a =< b => Below(s, a) =< Below(s, b)
  BY ONLY <1>2, <1>3, <1>4
<1>9. \A v \in s : \A b \in Nat : Rank(v) < b => Below(s, Rank(v)) < Below(s, b)
  <2>1. TAKE v \in s
  <2>2. TAKE b \in Nat
  <2>3. HAVE Rank(v) < b
  <2>4. Less(U(Rank(v)), U(b))
    BY <1>5, <2>3
  <2> QED
    BY ONLY <1>2, <1>11, <2>4
<1>10. \A v \in s : Below(s, Rank(v)) < Cardinality(s)
  <2>1. TAKE v \in s
  <2>2. Less(U(Rank(v)), s)
    BY <1>6
  <2> QED
    BY ONLY <1>2, <1>11, <2>2
<1> QED
  BY ONLY <1>1, <1>7, <1>8, <1>9, <1>10

\* In two sets that have no node in common the numbers add up.
LEMMA BelowUnion ==
  ASSUME GraphInv, NEW s \in SUBSET Indices, NEW u \in SUBSET Indices, s \cap u = {}
  PROVE  /\ Cardinality(s \cup u) = Cardinality(s) + Cardinality(u)
         /\ \A r : Below(s \cup u, r) = Below(s, r) + Below(u, r)
<1>1. \A A, B : A \subseteq s /\ B \subseteq u => Cardinality(A \cup B) = Cardinality(A) + Cardinality(B)
  <2>1. TAKE A, B
  <2>2. HAVE A \subseteq s /\ B \subseteq u
  <2>3. IsFiniteSet(A) /\ IsFiniteSet(B)
    BY <2>2, BelowIs, FS_Subset
  <2>4. A \cap B = {}
    BY <2>2
  <2>5. Cardinality(A) \in Nat /\ Cardinality(B) \in Nat /\ Cardinality(A \cup B) = Cardinality(A) + Cardinality(B) - Cardinality(A \cap B)
    BY <2>3, FS_Union, FS_CardinalityType
  <2>6. Cardinality(A \cap B) = 0
    BY <2>4, FS_EmptySet
  <2> QED
    BY ONLY <2>5, <2>6
<1>2. ASSUME NEW r PROVE Below(s \cup u, r) = Below(s, r) + Below(u, r)
  <2> DEFINE A == {v \in s : Rank(v) < r}
             B == {v \in u : Rank(v) < r}
             C == {v \in s \cup u : Rank(v) < r}
  <2>1. C = A \cup B /\ A \subseteq s /\ B \subseteq u
    OBVIOUS
  <2> HIDE DEF A, B, C
  <2>2. Cardinality(C) = Cardinality(A) + Cardinality(B)
    BY ONLY <1>1, <2>1
  <2> QED
    BY ONLY <2>2 DEF Below, A, B, C
<1> QED
  BY <1>1, <1>2

\* The nodes of b and of f get each other's ranks: those of b come first, in each set they
\* keep their order, those of b do not go up and those of f do not go down.
Reordered(b, f, rank) ==
  /\ \A v \in b \cup f : \E u \in b \cup f : rank[v + 1] = Rank(u)
  /\ \A v \in b : \A w \in f : rank[v + 1] < rank[w + 1]
  /\ \A v, w \in b : Rank(v) < Rank(w) => rank[v + 1] < rank[w + 1]
  /\ \A v, w \in f : Rank(v) < Rank(w) => rank[v + 1] < rank[w + 1]
  /\ \A v \in b : rank[v + 1] =< Rank(v)
  /\ \A v \in f : Rank(v) =< rank[v + 1]
  /\ \A v \in Indices \ (b \cup f) : rank[v + 1] = Rank(v)

\* Reorder gives the places out as it should: each CHOOSE has something to choose, since the
\* numbers below are all those up to the size of the set.
LEMMA ReorderIs ==
  ASSUME GraphInv, NEW b \in SUBSET Indices, NEW f \in SUBSET Indices, b \cap f = {}
  PROVE  Reordered(b, f, Reorder(b, f))
<1> DEFINE d == b \cup f
           N == Cardinality(d)
           place(v) == IF v \in b THEN Below(b, Rank(v)) ELSE Cardinality(b) + Below(f, Rank(v))
           new(v) == CHOOSE r \in {Rank(u) : u \in d} : Below(d, r) = place(v)
<1>1. \A v \in Indices : Reorder(b, f)[v + 1] = IF v \in d THEN new(v) ELSE Rank(v)
  <2>1. TAKE v \in Indices
  <2>2. v + 1 \in 1..Len(nodes_) /\ (v + 1) - 1 = v
    BY NodesAre DEF GraphInv
  <2>3. Reorder(b, f)[v + 1] = IF (v + 1) - 1 \in d THEN new((v + 1) - 1) ELSE Rank((v + 1) - 1)
    BY ONLY <2>2 DEF Reorder
  <2> QED
    BY ONLY <2>2, <2>3
<1>2. /\ d \in SUBSET Indices /\ N = Cardinality(b) + Cardinality(f)
      /\ Cardinality(b) \in Nat /\ Cardinality(f) \in Nat /\ N \in Nat /\ IsFiniteSet(d)
  BY BelowIs, BelowUnion
<1>3. \A v \in d : Rank(v) \in Nat
  BY NodesAre DEF GraphInv, GraphTypes
<1>4. \A v \in d : place(v) \in 0..N - 1
  <2>1. \A v \in b : Below(b, Rank(v)) \in Nat /\ Below(b, Rank(v)) < Cardinality(b)
    BY BelowIs
  <2>2. \A v \in f : Below(f, Rank(v)) \in Nat /\ Below(f, Rank(v)) < Cardinality(f)
    BY BelowIs
  <2> HIDE DEF N
  <2> QED
    BY ONLY <1>2, <2>1, <2>2
<1>5. ASSUME NEW p \in 0..N - 1 PROVE \E u \in d : Below(d, Rank(u)) = p
  <2> DEFINE g == [u \in d |-> Below(d, Rank(u))]
             G == {Below(d, Rank(u)) : u \in d}
  <2>1. G \subseteq 0..N - 1
    BY <1>2, BelowIs
  <2>2. \A u, v \in d : Rank(u) < Rank(v) => g[u] < g[v]
    BY <1>2, <1>3, BelowIs
  <2>3. \A u, v \in d : g[u] = g[v] => u = v
    <3>1. \A u \in d : g[u] \in Nat
      BY <1>2, BelowIs
    <3>2. \A u, v \in d : u # v => Rank(u) # Rank(v)
      BY DEF GraphInv, RanksRise
    <3> HIDE DEF g
    <3> QED
      BY ONLY <1>3, <2>2, <3>1, <3>2
  <2>4. g \in Injection(d, G)
    <3>1. g \in [d -> G] /\ DOMAIN g = d
      OBVIOUS
    <3> HIDE DEF g, G, d
    <3> QED
      BY ONLY <2>3, <3>1 DEF Injection, IsInjective
  <2> HIDE DEF g, G, d, N
  <2>5. IsFiniteSet(0..N - 1) /\ Cardinality(0..N - 1) = N
    <3>1. 0 \in Int /\ N - 1 \in Int
      BY <1>2
    <3>2. IsFiniteSet(0..N - 1) /\ Cardinality(0..N - 1) = IF 0 > N - 1 THEN 0 ELSE N - 1 - 0 + 1
      BY ONLY <3>1, FS_Interval
    <3>3. (IF 0 > N - 1 THEN 0 ELSE N - 1 - 0 + 1) = N
      BY <1>2
    <3> QED
      BY ONLY <3>2, <3>3
  <2>6. IsFiniteSet(G) /\ Cardinality(G) \in Nat /\ Cardinality(G) =< N
    <3>1. IsFiniteSet(G) /\ Cardinality(G) =< Cardinality(0..N - 1)
      BY ONLY <2>1, <2>5, FS_Subset
    <3> QED
      BY ONLY <2>5, <3>1, FS_CardinalityType
  <2>7. N =< Cardinality(G)
    BY <1>2, <2>4, <2>6, FS_Injection DEF ExistsInjection, N
  <2>8. G = 0..N - 1
    <3>1. Cardinality(G) = Cardinality(0..N - 1)
      BY <1>2, <2>5, <2>6, <2>7
    <3> QED
      BY ONLY <2>1, <2>5, <3>1, FS_Subset
  <2> QED
    BY <2>8 DEF G
<1>6. \A v \in d : \E u \in d : new(v) = Rank(u) /\ Below(d, Rank(u)) = place(v)
  <2>1. TAKE v \in d
  <2>2. PICK u \in d : Below(d, Rank(u)) = place(v)
    BY <1>4, <1>5
  <2> HIDE DEF place, d
  <2>3. \E r \in {Rank(w) : w \in d} : Below(d, r) = place(v)
    BY <2>2
  <2>4. new(v) \in {Rank(w) : w \in d} /\ Below(d, new(v)) = place(v)
    BY ONLY <2>3
  <2> HIDE DEF new
  <2> QED
    BY ONLY <2>4
<1> HIDE DEF new
<1>7. \A v \in d : new(v) \in Nat /\ Below(d, new(v)) = place(v)
  BY <1>3, <1>6
<1>8. \A v, w \in d : place(v) < place(w) => new(v) < new(w)
  <2>1. \A r, q \in Nat : r =< q => Below(d, r) =< Below(d, q)
    BY <1>2, BelowIs
  <2>2. \A v \in d : place(v) \in Nat
    BY <1>2, <1>4
  <2> HIDE DEF place, d
  <2> QED
    BY ONLY <1>7, <2>1, <2>2
<1>9. /\ \A v, w \in b : Rank(v) < Rank(w) => place(v) < place(w)
      /\ \A v, w \in f : Rank(v) < Rank(w) => place(v) < place(w)
  <2>1. \A v, w \in b : Rank(v) < Rank(w) => Below(b, Rank(v)) < Below(b, Rank(w))
    BY <1>3, BelowIs
  <2>2. \A v, w \in f : Rank(v) < Rank(w) => Below(f, Rank(v)) < Below(f, Rank(w)) /\ Below(f, Rank(v)) \in Nat /\ Below(f, Rank(w)) \in Nat
    BY <1>3, BelowIs
  <2> QED
    BY ONLY <1>2, <2>1, <2>2, b \cap f = {}
<1>10. \A v \in b : \A w \in f : place(v) < place(w)
  <2>1. \A v \in b : Below(b, Rank(v)) < Cardinality(b) /\ Below(b, Rank(v)) \in Nat
    BY BelowIs
  <2>2. \A w \in f : Below(f, Rank(w)) \in Nat
    BY BelowIs
  <2> QED
    BY ONLY <1>2, <2>1, <2>2, b \cap f = {}
<1>11. \A v \in d : Below(d, Rank(v)) = Below(b, Rank(v)) + Below(f, Rank(v)) /\ Below(b, Rank(v)) \in Nat
                    /\ Below(f, Rank(v)) \in Nat /\ Below(b, Rank(v)) =< Cardinality(b)
  BY BelowIs, BelowUnion
<1>12. \A v \in b : new(v) =< Rank(v)
  <2>1. TAKE v \in b
  <2>2. v \in d /\ place(v) = Below(b, Rank(v))
    OBVIOUS
  <2>3. Below(d, new(v)) =< Below(d, Rank(v)) /\ Below(d, Rank(v)) \in Nat
    <3> HIDE DEF place, d
    <3>1. Below(d, new(v)) = Below(b, Rank(v))
      BY ONLY <1>7, <2>2
    <3> QED
      BY ONLY <1>11, <2>2, <3>1
  <2>4. Rank(v) < new(v) => Below(d, Rank(v)) < Below(d, new(v))
    BY <1>2, <1>7, <2>2, BelowIs
  <2>5. Below(d, new(v)) \in Nat
    BY <1>2, BelowIs
  <2> QED
    BY <1>3, <1>7, <2>2, <2>3, <2>4, <2>5
<1>13. \A v \in f : Rank(v) =< new(v)
  <2>1. TAKE v \in f
  <2>2. v \in d /\ v \notin b /\ place(v) = Cardinality(b) + Below(f, Rank(v))
    OBVIOUS
  <2> HIDE DEF place
  <2>3. Below(d, Rank(v)) =< Below(d, new(v)) /\ Below(d, Rank(v)) \in Nat
    <3> HIDE DEF d
    <3>1. Below(d, new(v)) = Cardinality(b) + Below(f, Rank(v))
      BY ONLY <1>7, <2>2
    <3> QED
      BY ONLY <1>2, <1>11, <2>2, <3>1
  <2>4. PICK u \in d : new(v) = Rank(u)
    BY <1>6, <2>2
  <2>5. Rank(u) < Rank(v) => Below(d, Rank(u)) < Below(d, Rank(v))
    BY <1>2, <1>3, <2>2, BelowIs
  <2>6. Below(d, Rank(u)) \in Nat /\ Rank(u) \in Nat /\ Rank(v) \in Nat
    BY <1>2, <1>3, <2>2, BelowIs
  <2> QED
    BY ONLY <2>3, <2>4, <2>5, <2>6
<1>14. \A v \in b : v \in d /\ v \in Indices
  OBVIOUS
<1>15. \A v \in f : v \in d /\ v \in Indices
  OBVIOUS
<1> HIDE DEF place
<1>16. \A v \in d : Reorder(b, f)[v + 1] = new(v)
  BY <1>1
<1>17. \A v \in d : \E u \in d : Reorder(b, f)[v + 1] = Rank(u)
  BY ONLY <1>6, <1>16
<1>18. \A v \in Indices \ d : Reorder(b, f)[v + 1] = Rank(v)
  BY ONLY <1>1
<1>19. d = b \cup f
  OBVIOUS
<1> HIDE DEF d
<1>20. \A v, w \in b : Rank(v) < Rank(w) => Reorder(b, f)[v + 1] < Reorder(b, f)[w + 1]
  BY ONLY <1>8, <1>9, <1>14, <1>16
<1>21. \A v, w \in f : Rank(v) < Rank(w) => Reorder(b, f)[v + 1] < Reorder(b, f)[w + 1]
  BY ONLY <1>8, <1>9, <1>15, <1>16
<1>22. \A v \in b : \A w \in f : Reorder(b, f)[v + 1] < Reorder(b, f)[w + 1]
  BY ONLY <1>8, <1>10, <1>14, <1>15, <1>16
<1>23. \A v \in b : Reorder(b, f)[v + 1] =< Rank(v)
  BY ONLY <1>12, <1>14, <1>16
<1>24. \A v \in f : Rank(v) =< Reorder(b, f)[v + 1]
  BY ONLY <1>13, <1>15, <1>16
<1> QED
  BY ONLY <1>17, <1>18, <1>19, <1>20, <1>21, <1>22, <1>23, <1>24 DEF Reordered

-----------------------------------------------------------------------------
(* Edges that come and go.                                                 *)

\* A function on the indices of the nodes, moved by one, becomes the nodes.
LEMMA NodesBecome ==
  ASSUME GraphInv, NEW f \in [1..Len(nodes_) -> NodeSet], nodes_' = f
  PROVE  nodes_' \in Seq(NodeSet) /\ Indices' = Indices /\ \A x \in Indices : Node(x)' = f[x + 1]
<1>1. Len(nodes_) \in Nat
  BY NodesAre DEF GraphInv
<1>2. f \in Seq(NodeSet) /\ Len(f) = Len(nodes_)
  BY <1>1, FunctionIsSequence
<1>3. Indices' = Indices
  BY <1>2 DEF Indices
<1>4. \A x \in Indices : Node(x)' = f[x + 1]
  BY DEF Node
<1> QED
  BY <1>2, <1>3, <1>4

\* A step that changes edges and ranks only.
SameIds == free_nodes_' = free_nodes_ /\ nodes_' \in Seq(NodeSet) /\ Indices' = Indices
           /\ \A x \in Indices : Node(x)'.ptr = Node(x).ptr /\ Node(x)'.version = Node(x).version

\* When pointers, versions and the free list stay, so does what is said of them.
LEMMA SameIdsKeeps ==
  ASSUME GraphInv, SameIds,
         \A x \in Indices : Node(x).ptr = NullPtr => Out(x)' = {} /\ In(x)' = {}
  PROVE  InUse' /\ KeepsIds
<1>1. \A x \in Indices : Node(x)'.ptr = Node(x).ptr
  BY DEF SameIds
<1>2. Indices' = Indices /\ free_nodes_' = free_nodes_
  BY DEF SameIds
<1>3. \A x \in Indices' : Node(x)'.ptr = NullPtr => Out(x)' = {} /\ In(x)' = {} /\ Contains(free_nodes_, x)'
  <2>1. \A x : Contains(free_nodes_, x)' <=> Contains(free_nodes_, x)
    BY <1>2 DEF Contains
  <2> QED
    BY <1>1, <1>2, <2>1 DEF GraphInv, InUse
<1>4. ASSUME NEW j \in 1..Len(free_nodes_') PROVE (free_nodes_[j] \in Indices /\ Node(free_nodes_[j]).ptr = NullPtr)'
  <2>1. PICK x : x = free_nodes_[j]
    OBVIOUS
  <2>2. x \in Indices /\ Node(x).ptr = NullPtr
    BY <1>2, <2>1 DEF GraphInv, InUse
  <2>3. x \in Indices' /\ Node(x)'.ptr = NullPtr /\ free_nodes_'[j] = x
    BY <1>1, <1>2, <2>1, <2>2
  <2> QED
    BY <2>3 DEF Node
<1>5. IsInjective(free_nodes_')
  BY <1>2 DEF GraphInv, InUse
<1>6. \A x, y \in Indices' : Node(x)'.ptr = Node(y)'.ptr /\ Node(x)'.ptr # NullPtr => x = y
  BY <1>1, <1>2 DEF GraphInv, InUse
<1>7. KeepsIds
  BY DEF SameIds, KeepsIds
<1> QED
  BY <1>3, <1>4, <1>5, <1>6, <1>7 DEF InUse

\* The node i of p goes, with its edges.
Removed(p, i) ==
  /\ i \in Indices /\ Indices' = Indices /\ nodes_' \in Seq(NodeSet) /\ free_nodes_' = Append(free_nodes_, i)
  /\ Node(i).ptr = p /\ Node(i)'.ptr = NullPtr /\ Node(i)'.version = Node(i).version + 1
  /\ \A x \in Indices : Rank(x)' = Rank(x)
  /\ Out(i)' = {} /\ In(i)' = {}
  /\ \A x \in Indices \ {i} : /\ Node(x)'.ptr = Node(x).ptr /\ Node(x)'.version = Node(x).version
                              /\ Out(x)' = Out(x) \ {i} /\ In(x)' = In(x) \ {i}

\* What RemoveNode does.
LEMMA RemoveNodeIs ==
  ASSUME GraphCyclesAssumption, GraphInv, NEW p \in Ptrs, RemoveNode(p), Node(Find(p)).version < MaxVersion
  PROVE  \E i : i = Find(p) /\ Removed(p, i) /\ res' = res
<1>1. PICK i : i = Find(p)
  OBVIOUS
<1>2. i \in Indices /\ Node(i).ptr = p
  BY <1>1 DEF RemoveNode, HasPtr, Find
<1>3. Node(i).version # MaxVersion /\ Node(i).version + 1 \in Nat
  BY <1>1, <1>2 DEF GraphCyclesAssumption, GraphInv, GraphTypes
<1> DEFINE f == [j \in 1..Len(nodes_) |->
                   IF j = i + 1
                     THEN [nodes_[j] EXCEPT !.in = {}, !.out = {}, !.ptr = NullPtr, !.version = @ + 1]
                     ELSE [nodes_[j] EXCEPT !.in = @ \ {i}, !.out = @ \ {i}]]
<1>4. nodes_' = f /\ free_nodes_' = Append(free_nodes_, i) /\ res' = res
  BY <1>1, <1>3 DEF RemoveNode
<1>5. i \in Nat /\ \A j \in 1..Len(nodes_) : nodes_[j] \in NodeSet /\ (j = i + 1 => nodes_[j] = Node(i))
  BY <1>2, NodesAre DEF GraphInv, Node
<1>6. \A j \in 1..Len(nodes_) : f[j] \in NodeSet
  <2>1. TAKE j \in 1..Len(nodes_)
  <2>2. PICK n \in NodeSet : n = nodes_[j]
    BY <1>5
  <2>3. CASE j = i + 1
    <3>1. n.version + 1 \in Nat
      BY <1>3, <1>5, <2>2, <2>3
    <3>2. [n EXCEPT !.in = {}, !.out = {}, !.ptr = NullPtr, !.version = @ + 1] \in NodeSet
      BY ONLY <3>1, n \in NodeSet DEF NodeSet
    <3> QED
      BY <2>2, <2>3, <3>2
  <2>4. CASE j # i + 1
    <3>1. [n EXCEPT !.in = @ \ {i}, !.out = @ \ {i}] \in NodeSet
      BY ONLY n \in NodeSet DEF NodeSet
    <3> QED
      BY <2>2, <2>4, <3>1
  <2> QED
    BY <2>3, <2>4
<1>7. nodes_' \in Seq(NodeSet) /\ Indices' = Indices /\ \A x \in Indices : Node(x)' = f[x + 1]
  <2>1. f \in [1..Len(nodes_) -> NodeSet]
    BY <1>6
  <2> HIDE DEF f
  <2> QED
    BY <1>4, <2>1, NodesBecome
<1>8. Node(i)' = [Node(i) EXCEPT !.in = {}, !.out = {}, !.ptr = NullPtr, !.version = @ + 1]
  BY <1>2, <1>5, <1>7, NodesAre DEF GraphInv
<1>9. \A x \in Indices \ {i} : Node(x)' = [Node(x) EXCEPT !.in = @ \ {i}, !.out = @ \ {i}]
  <2>1. TAKE x \in Indices \ {i}
  <2>2. x \in Nat /\ x + 1 \in 1..Len(nodes_) /\ x + 1 # i + 1 /\ nodes_[x + 1] = Node(x)
    BY <1>5, NodesAre DEF GraphInv
  <2> QED
    BY <1>7, <2>2
<1> HIDE DEF f
<1>10. /\ Node(i)'.ptr = NullPtr /\ Node(i)'.version = Node(i).version + 1
       /\ Rank(i)' = Rank(i) /\ Out(i)' = {} /\ In(i)' = {}
  <2>1. Node(i) \in NodeSet
    BY <1>2, NodesAre DEF GraphInv
  <2> QED
    BY <1>8, <2>1 DEF Rank, Out, In, NodeSet
<1>11. \A x \in Indices \ {i} : /\ Node(x)'.ptr = Node(x).ptr /\ Node(x)'.version = Node(x).version
                               /\ Rank(x)' = Rank(x) /\ Out(x)' = Out(x) \ {i} /\ In(x)' = In(x) \ {i}
  <2>1. TAKE x \in Indices \ {i}
  <2>2. Node(x) \in NodeSet /\ Node(x)' = [Node(x) EXCEPT !.in = @ \ {i}, !.out = @ \ {i}]
    BY <1>9, NodesAre DEF GraphInv
  <2> QED
    BY <2>2 DEF Rank, Out, In, NodeSet
<1> QED
  <2>1. \A x \in Indices : Rank(x)' = Rank(x)
    BY <1>10, <1>11
  <2>2. Removed(p, i)
    BY ONLY <1>2, <1>4, <1>7, <1>10, <1>11, <2>1 DEF Removed
  <2> QED
    BY <1>1, <1>4, <2>2

\* RemoveNode keeps the invariant: no edge to the node is left behind.
LEMMA RemoveNodeKeeps ==
  ASSUME GraphCyclesAssumption, GraphInv, NEW p \in Ptrs, RemoveNode(p), Node(Find(p)).version < MaxVersion
  PROVE  GraphInv'
<1>1. PICK i : i = Find(p) /\ Removed(p, i) /\ res' = res
  BY RemoveNodeIs
<1>2. i \in Indices /\ Indices' = Indices /\ nodes_' \in Seq(NodeSet) /\ free_nodes_' = Append(free_nodes_, i)
  BY <1>1 DEF Removed
<1>3. \A x \in Indices : /\ Rank(x)' = Rank(x) /\ Out(x)' \subseteq Out(x) /\ In(x)' \subseteq In(x)
  BY <1>1 DEF Removed
<1>4. \A x \in Indices : Node(x)'.version \in 1..MaxVersion
  <2>1. \A x \in Indices : Node(x).version \in 1..MaxVersion
    BY DEF GraphInv, GraphTypes
  <2>2. Node(i).version < MaxVersion /\ Node(i)'.version = Node(i).version + 1 /\ Node(i).version \in 1..MaxVersion
    BY <1>1, <2>1 DEF Removed
  <2>3. Node(i)'.version \in 1..MaxVersion
    BY <2>2 DEF GraphCyclesAssumption
  <2> QED
    BY <1>1, <2>1, <2>3 DEF Removed
<1>5. GraphTypes'
  <2>1. i \in Nat /\ free_nodes_ \in Seq(Nat) /\ res' \in BOOLEAN
    BY <1>1, <1>2, NodesAre DEF GraphInv, GraphTypes
  <2>2. free_nodes_' \in Seq(Nat)
    BY <1>2, <2>1
  <2>3. \A x \in Indices' : Rank(x)' \in Indices' /\ In(x)' \subseteq Indices' /\ Out(x)' \subseteq Indices'
    BY <1>2, <1>3 DEF GraphInv, GraphTypes
  <2> QED
    BY <1>2, <1>4, <2>1, <2>2, <2>3 DEF GraphTypes
<1>6. RanksRise'
  <2>1. \A x \in Indices : \A y \in Out(x) : y \in Indices
    BY DEF GraphInv, GraphTypes
  <2> QED
    BY <1>2, <1>3, <2>1 DEF GraphInv, RanksRise
<1>7. Mirrored'
  BY <1>1, <1>2 DEF Removed, GraphInv, Mirrored
<1>8. InUse'
  <2>0. PICK s, n : s = free_nodes_ /\ n = Len(s)
    OBVIOUS
  <2>1. p # NullPtr /\ Node(i).ptr = p /\ Node(i)'.ptr = NullPtr
    BY <1>1 DEF Removed, GraphCyclesAssumption
  <2>2. s \in Seq(Nat) /\ n \in Nat /\ DOMAIN s = 1..n /\ i \in Nat
    BY <1>2, <2>0, NodesAre DEF GraphInv, GraphTypes
  <2>3. /\ Len(Append(s, i)) = n + 1 /\ DOMAIN Append(s, i) = 1..n + 1 /\ Append(s, i)[n + 1] = i
        /\ \A j \in 1..n : Append(s, i)[j] = s[j]
    BY ONLY <2>0, <2>2
  <2>4. \A j \in 1..n : s[j] \in Indices /\ s[j] # i /\ Node(s[j]).ptr = NullPtr
    BY <2>0, <2>1 DEF GraphInv, InUse
  <2>5. IsInjective(Append(s, i))
    <3>1. \A a, b \in 1..n : s[a] = s[b] => a = b
      BY <2>0, <2>2 DEF GraphInv, InUse, IsInjective
    <3>2. \A a \in 1..n + 1 : a \in 1..n \/ a = n + 1
      BY <2>2
    <3> QED
      BY ONLY <2>3, <2>4, <3>1, <3>2 DEF IsInjective
  <2>6. \A x : Contains(s, x) \/ x = i => Contains(Append(s, i), x)
    BY ONLY <2>2, <2>3 DEF Contains
  <2>7. \A x \in Indices' : Node(x)'.ptr = NullPtr => Out(x)' = {} /\ In(x)' = {} /\ Contains(free_nodes_', x)
    BY <1>1, <1>2, <2>0, <2>6 DEF Removed, GraphInv, InUse
  <2>8. ASSUME NEW j \in 1..Len(free_nodes_') PROVE (free_nodes_[j] \in Indices /\ Node(free_nodes_[j]).ptr = NullPtr)'
    <3>1. PICK x : x = free_nodes_'[j]
      OBVIOUS
    <3>2. x = i \/ (x \in Indices /\ x # i /\ Node(x).ptr = NullPtr)
      <4>1. j \in 1..n \/ j = n + 1
        BY <1>2, <2>0, <2>2, <2>3
      <4> QED
        BY <1>2, <2>0, <2>3, <2>4, <3>1, <4>1
    <3>3. x \in Indices' /\ Node(x)'.ptr = NullPtr
      BY <1>1, <1>2, <3>2 DEF Removed
    <3> QED
      BY <3>1, <3>3 DEF Node
  <2>9. \A x, y \in Indices' : Node(x)'.ptr = Node(y)'.ptr /\ Node(x)'.ptr # NullPtr => x = y
    BY <1>1, <1>2 DEF Removed, GraphInv, InUse
  <2> QED
    BY <1>2, <2>0, <2>5, <2>7, <2>8, <2>9 DEF InUse, Contains
<1> QED
  BY <1>5, <1>6, <1>7, <1>8 DEF GraphInv

\* The nodes with O for the successors of a and I for the predecessors of b.
Linked(x, a, b, O, I) ==
  [rank |-> Rank(x), version |-> Node(x).version, ptr |-> Node(x).ptr,
   in |-> IF x = b THEN I ELSE In(x), out |-> IF x = a THEN O ELSE Out(x)]
Relink(a, b, O, I) == [nodes_ EXCEPT ![a + 1].out = O, ![b + 1].in = I]
AreLinked(f, a, b, O, I) == \A x \in Indices : f[x + 1] = Linked(x, a, b, O, I)

\* Two assignments through EXCEPT, to an out and an in set: what each node is then.
LEMMA LinkedNodes ==
  ASSUME GraphInv, NEW a \in Indices, NEW b \in Indices, NEW O \in SUBSET Indices, NEW I \in SUBSET Indices,
         NEW f, f = Relink(a, b, O, I)
  PROVE  f \in [1..Len(nodes_) -> NodeSet] /\ AreLinked(f, a, b, O, I)
<1> DEFINE g == [nodes_ EXCEPT ![a + 1].out = O]
<1>1. /\ DOMAIN nodes_ = 1..Len(nodes_) /\ a \in Nat /\ b \in Nat /\ a + 1 \in 1..Len(nodes_) /\ b + 1 \in 1..Len(nodes_)
      /\ \A x \in Indices : x \in Nat /\ x + 1 \in 1..Len(nodes_) /\ Node(x) \in NodeSet /\ nodes_[x + 1] = Node(x)
      /\ \A j \in 1..Len(nodes_) : j - 1 \in Indices /\ (j - 1) + 1 = j
  BY NodesAre DEF GraphInv
<1>2. DOMAIN g = 1..Len(nodes_) /\ \A j \in 1..Len(nodes_) : g[j] = IF j = a + 1 THEN [nodes_[a + 1] EXCEPT !.out = O] ELSE nodes_[j]
  BY <1>1
<1>3. f = [g EXCEPT ![b + 1].in = I]
  BY DEF Relink
<1> HIDE DEF g
<1>4. DOMAIN f = 1..Len(nodes_) /\ \A j \in 1..Len(nodes_) : f[j] = IF j = b + 1 THEN [g[b + 1] EXCEPT !.in = I] ELSE g[j]
  BY ONLY <1>1, <1>2, <1>3
<1>5. f = [j \in 1..Len(nodes_) |-> f[j]]
  BY <1>3, <1>4
<1>6. ASSUME NEW x \in Indices PROVE f[x + 1] = Linked(x, a, b, O, I) /\ f[x + 1] \in NodeSet
  <2>1. PICK n : n = Node(x)
    OBVIOUS
  <2>2. n \in NodeSet /\ nodes_[x + 1] = n /\ x + 1 \in 1..Len(nodes_) /\ (x = a <=> x + 1 = a + 1) /\ (x = b <=> x + 1 = b + 1)
    BY <1>1, <2>1
  <2>3. g[x + 1] = IF x = a THEN [n EXCEPT !.out = O] ELSE n
    BY ONLY <1>2, <2>2
  <2>4. f[x + 1] = IF x = b THEN [g[x + 1] EXCEPT !.in = I] ELSE g[x + 1]
    BY ONLY <1>4, <2>2
  <2>5. f[x + 1] = [rank |-> n.rank, version |-> n.version, ptr |-> n.ptr,
                    in |-> IF x = b THEN I ELSE n.in, out |-> IF x = a THEN O ELSE n.out]
    BY ONLY <2>2, <2>3, <2>4 DEF NodeSet
  <2>6. O \subseteq Nat /\ I \subseteq Nat
    BY <1>1
  <2>7. f[x + 1] \in NodeSet
    BY ONLY <2>2, <2>5, <2>6 DEF NodeSet
  <2> QED
    BY <2>1, <2>5, <2>7 DEF Linked, Rank, In, Out
<1>7. \A j \in 1..Len(nodes_) : f[j] \in NodeSet
  BY ONLY <1>1, <1>6
<1> QED
  BY <1>5, <1>6, <1>7 DEF AreLinked

\* RemoveEdge keeps the invariant.
LEMMA RemoveEdgeKeeps ==
  ASSUME GraphInv, NEW idx, NEW idy, idx.index \in Indices, idy.index \in Indices, RemoveEdge(idx, idy)
  PROVE  GraphInv'
<1>1. PICK a, b : a = idx.index /\ b = idy.index
  OBVIOUS
<1>2. /\ a \in Indices /\ b \in Indices /\ res' = res /\ free_nodes_' = free_nodes_
      /\ nodes_' = [nodes_ EXCEPT ![a + 1].out = @ \ {b}, ![b + 1].in = @ \ {a}]
  BY <1>1 DEF RemoveEdge
<1>3. nodes_' = [nodes_ EXCEPT ![a + 1].out = Out(a) \ {b}, ![b + 1].in = In(b) \ {a}]
  <2>1. nodes_[a + 1] = Node(a) /\ nodes_[b + 1] = Node(b) /\ Node(b) \in NodeSet /\ a + 1 \in DOMAIN nodes_ /\ b + 1 \in DOMAIN nodes_
        /\ Node(a) \in NodeSet /\ a \in Nat /\ b \in Nat
    BY <1>2, NodesAre DEF GraphInv
  <2>2. [nodes_ EXCEPT ![a + 1].out = Out(a) \ {b}][b + 1].in = In(b)
    BY ONLY <2>1 DEF In, Out, NodeSet
  <2> QED
    BY ONLY <1>2, <2>1, <2>2 DEF Out
<1>4. Out(a) \ {b} \in SUBSET Indices /\ In(b) \ {a} \in SUBSET Indices
  BY <1>2 DEF GraphInv, GraphTypes
<1>5. PICK O, I, f : O = Out(a) \ {b} /\ I = In(b) \ {a} /\ f = nodes_'
  OBVIOUS
<1>6. f \in [1..Len(nodes_) -> NodeSet] /\ AreLinked(f, a, b, O, I)
  <2>1. f = Relink(a, b, O, I) /\ O \in SUBSET Indices /\ I \in SUBSET Indices
    BY ONLY <1>3, <1>4, <1>5 DEF Relink
  <2> QED
    BY ONLY GraphInv, <1>2, <2>1, LinkedNodes
<1>7. nodes_' \in Seq(NodeSet) /\ Indices' = Indices /\ \A x \in Indices : Node(x)' = Linked(x, a, b, O, I)
  BY <1>5, <1>6, NodesBecome DEF AreLinked
<1>8. \A x \in Indices : /\ Node(x)'.ptr = Node(x).ptr /\ Node(x)'.version = Node(x).version /\ Rank(x)' = Rank(x)
                         /\ Out(x)' = (IF x = a THEN O ELSE Out(x)) /\ In(x)' = (IF x = b THEN I ELSE In(x))
  BY <1>7 DEF Linked, Rank, Out, In
<1>9. \A x \in Indices : Out(x)' \subseteq Out(x) /\ In(x)' \subseteq In(x)
  BY <1>5, <1>8
<1>10. GraphTypes'
  BY <1>2, <1>7, <1>8, <1>9 DEF GraphInv, GraphTypes
<1>11. RanksRise'
  <2>1. \A x \in Indices : \A y \in Out(x) : y \in Indices
    BY DEF GraphInv, GraphTypes
  <2> QED
    BY <1>7, <1>8, <1>9, <2>1 DEF GraphInv, RanksRise
<1>12. Mirrored'
  BY <1>2, <1>5, <1>7, <1>8 DEF GraphInv, Mirrored
<1>13. InUse'
  <2>1. SameIds
    BY <1>2, <1>7, <1>8 DEF SameIds
  <2>2. \A x \in Indices : Node(x).ptr = NullPtr => Out(x)' = {} /\ In(x)' = {}
    BY <1>9 DEF GraphInv, InUse
  <2> QED
    BY <2>1, <2>2, SameIdsKeeps
<1> QED
  BY <1>10, <1>11, <1>12, <1>13 DEF GraphInv

-----------------------------------------------------------------------------
(* InsertEdge.                                                             *)

\* Ranks with which the edge from x to y goes up too.
GoodRanks(x, y, rank) ==
  /\ \A v \in Indices : rank[v + 1] \in Indices
  /\ \A v, w \in Indices : rank[v + 1] = rank[w + 1] => v = w
  /\ \A v \in Indices : \A w \in Out(v) : rank[v + 1] < rank[w + 1]
  /\ rank[x + 1] < rank[y + 1]

\* What ForwardDFS and BackwardDFS find, if they find no cycle: the successors of a node of
\* f are in f or have a rank above upper, the predecessors of one of b are in b or have a
\* rank up to lower.
Apart(b, f, lower, upper) ==
  /\ b \subseteq Indices /\ f \subseteq Indices /\ b \cap f = {}
  /\ \A v \in b : lower < Rank(v) /\ Rank(v) =< upper
  /\ \A v \in f : lower =< Rank(v) /\ Rank(v) < upper
  /\ \A v \in f : \A w \in Out(v) : w \in f \/ upper < Rank(w)
  /\ \A v \in b : \A w \in In(v) : w \in b \/ Rank(w) =< lower

\* When no cycle was found, no node is reached both forward from y and backward from x, and
\* whatever leads into or out of the two sets keeps outside of the ranks between.
LEMMA SearchesAreApart ==
  ASSUME GraphInv, NEW x \in Indices, NEW y \in Indices, Rank(y) < Rank(x), ~Cycle(DeltaF(y, Rank(x)), Rank(x))
  PROVE  x \in DeltaB(x, Rank(y)) /\ y \in DeltaF(y, Rank(x)) /\ Apart(DeltaB(x, Rank(y)), DeltaF(y, Rank(x)), Rank(y), Rank(x))
<1> DEFINE E == {e \in Edges : Rank(e[2]) < Rank(x)}
           B == {e \in Indices \X Indices : e[2] \in In(e[1]) /\ Rank(y) < Rank(e[2])}
<1>1. PICK f, b : f = DeltaF(y, Rank(x)) /\ b = DeltaB(x, Rank(y))
  OBVIOUS
<1>2. f = Visited(y, E) /\ b = Visited(x, B)
  BY <1>1 DEF DeltaF, DeltaB
<1>3. \A v \in Indices : Rank(v) \in Nat /\ Out(v) \subseteq Indices /\ In(v) \subseteq Indices
  BY NodesAre DEF GraphInv, GraphTypes
<1>4. \A v, w \in Indices : /\ <<v, w>> \in E <=> w \in Out(v) /\ Rank(w) < Rank(x)
                            /\ <<v, w>> \in B <=> w \in In(v) /\ Rank(y) < Rank(w)
                            /\ w \in In(v) <=> v \in Out(w)
                            /\ w \in Out(v) => Rank(v) < Rank(w)
  BY DEF Edges, GraphInv, Mirrored, RanksRise
<1> HIDE DEF E, B
<1>5. Len(nodes_) \in Nat
  BY NodesAre DEF GraphInv
<1>6. /\ f \subseteq Indices /\ y \in f /\ b \subseteq Indices /\ x \in b
      /\ \A v \in f : \A w \in Indices : <<v, w>> \in E => w \in f
      /\ \A v \in b : \A w \in Indices : <<v, w>> \in B => w \in b
  BY <1>2, <1>5, VisitedIs
<1>7. \A v \in f : \A w \in Out(v) : Rank(w) # Rank(x)
  BY <1>1 DEF Cycle
<1>8. \A v \in f : Rank(y) =< Rank(v) /\ Rank(v) < Rank(x)
  <2> DEFINE T == {v \in Indices : Rank(y) =< Rank(v) /\ Rank(v) < Rank(x)}
  <2>1. y \in T
    BY <1>3
  <2>2. \A v \in T : \A w \in Indices : <<v, w>> \in E => w \in T
    <3>1. TAKE v \in T
    <3>2. TAKE w \in Indices
    <3>3. HAVE <<v, w>> \in E
    <3>4. Rank(v) < Rank(w) /\ Rank(w) < Rank(x)
      BY <1>4, <3>3
    <3> QED
      BY <1>3, <3>4
  <2>3. f \subseteq T
    <3> HIDE DEF T
    <3> QED
      BY <1>2, <1>5, <2>1, <2>2, VisitedIs
  <2> QED
    BY <2>3
<1>9. \A v \in b : Rank(y) < Rank(v) /\ Rank(v) =< Rank(x)
  <2> DEFINE T == {v \in Indices : Rank(y) < Rank(v) /\ Rank(v) =< Rank(x)}
  <2>1. x \in T
    BY <1>3
  <2>2. \A v \in T : \A w \in Indices : <<v, w>> \in B => w \in T
    <3>1. TAKE v \in T
    <3>2. TAKE w \in Indices
    <3>3. HAVE <<v, w>> \in B
    <3>4. Rank(w) < Rank(v) /\ Rank(y) < Rank(w)
      BY <1>4, <3>3
    <3> QED
      BY <1>3, <3>4
  <2>3. b \subseteq T
    <3> HIDE DEF T
    <3> QED
      BY <1>2, <1>5, <2>1, <2>2, VisitedIs
  <2> QED
    BY <2>3
<1>10. b \cap f = {}
  <2> DEFINE T == {v \in Indices : v \notin f /\ Rank(v) =< Rank(x)}
  <2>1. x \in T
    BY <1>3, <1>8
  <2>2. \A v \in T : \A w \in Indices : <<v, w>> \in B => w \in T
    <3>1. TAKE v \in T
    <3>2. TAKE w \in Indices
    <3>3. HAVE <<v, w>> \in B
    <3>4. v \in Out(w) /\ Rank(w) < Rank(v) /\ Rank(v) =< Rank(x) /\ v \notin f
      BY <1>4, <3>3
    <3>5. ASSUME w \in f PROVE FALSE
      <4>1. Rank(v) # Rank(x)
        BY <1>7, <3>4, <3>5
      <4>2. <<w, v>> \in E
        BY <1>3, <1>4, <3>4, <4>1
      <4> QED
        BY <1>6, <3>4, <3>5, <4>2
    <3>6. Rank(w) =< Rank(x)
      BY <1>3, <3>4
    <3> QED
      BY <3>5, <3>6
  <2>3. b \subseteq T
    <3> HIDE DEF T
    <3> QED
      BY <1>2, <1>5, <2>1, <2>2, VisitedIs
  <2> QED
    BY <2>3
<1>11. \A v \in f : \A w \in Out(v) : w \in f \/ Rank(x) < Rank(w)
  <2>1. TAKE v \in f
  <2>2. TAKE w \in Out(v)
  <2>3. v \in Indices /\ w \in Indices /\ Rank(w) # Rank(x) /\ Rank(w) \in Nat /\ Rank(x) \in Nat
    BY <1>3, <1>6, <1>7
  <2>4. Rank(w) < Rank(x) => w \in f
    BY <1>4, <1>6, <2>3
  <2> QED
    BY ONLY <2>3, <2>4
<1>12. \A v \in b : \A w \in In(v) : w \in b \/ Rank(w) =< Rank(y)
  <2>1. TAKE v \in b
  <2>2. TAKE w \in In(v)
  <2>3. v \in Indices /\ w \in Indices /\ Rank(w) \in Nat /\ Rank(y) \in Nat
    BY <1>3, <1>6
  <2>4. Rank(y) < Rank(w) => w \in b
    BY <1>4, <1>6, <2>3
  <2> QED
    BY ONLY <2>3, <2>4
<1>13. Apart(b, f, Rank(y), Rank(x))
  BY ONLY <1>6, <1>8, <1>9, <1>10, <1>11, <1>12 DEF Apart
<1> QED
  BY <1>1, <1>6, <1>13

\* The ranks that Reorder gives out are those of before in another order, and every edge,
\* the new one too, goes up in them.
LEMMA ReorderIsGood ==
  ASSUME GraphInv, NEW x \in Indices, NEW y \in Indices, NEW b, NEW f, NEW rank,
         x \in b, y \in f, Apart(b, f, Rank(y), Rank(x)), Reordered(b, f, rank)
  PROVE  GoodRanks(x, y, rank)
<1> DEFINE d == b \cup f
           r(v) == rank[v + 1]
<1>1. /\ \A v \in Indices : Rank(v) \in Indices /\ Rank(v) \in Nat /\ Out(v) \subseteq Indices
      /\ \A v, w \in Indices : Rank(v) = Rank(w) => v = w
      /\ \A v \in Indices : \A w \in Out(v) : Rank(v) < Rank(w) /\ v \in In(w) /\ w \in Indices
  BY NodesAre DEF GraphInv, GraphTypes, RanksRise, Mirrored
<1>2. /\ d \subseteq Indices /\ b \subseteq d /\ f \subseteq d /\ b \cap f = {} /\ \A v \in d : v \in b \/ v \in f
  BY DEF Apart
<1>3. \A v \in d : Rank(y) =< Rank(v) /\ Rank(v) =< Rank(x)
  BY <1>1, <1>2 DEF Apart
<1>4. \A v \in d : \E u \in d : r(v) = Rank(u)
  BY DEF Reordered
<1>5. \A v \in Indices \ d : r(v) = Rank(v)
  BY DEF Reordered
<1>6. /\ \A v \in b : \A w \in f : r(v) < r(w)
      /\ \A v, w \in b : Rank(v) < Rank(w) => r(v) < r(w)
      /\ \A v, w \in f : Rank(v) < Rank(w) => r(v) < r(w)
      /\ \A v \in b : r(v) =< Rank(v)
      /\ \A v \in f : Rank(v) =< r(v)
  BY DEF Reordered
<1>7. /\ \A v \in f : \A w \in Out(v) : w \in f \/ Rank(x) < Rank(w)
      /\ \A v \in b : \A w \in In(v) : w \in b \/ Rank(w) =< Rank(y)
  BY DEF Apart
<1> HIDE DEF r, d
<1>8. \A v \in d : r(v) \in Nat /\ Rank(y) =< r(v) /\ r(v) =< Rank(x) /\ r(v) \in Indices
  BY ONLY <1>1, <1>2, <1>3, <1>4
<1>9. \A v \in Indices : r(v) \in Indices /\ r(v) \in Nat
  BY ONLY <1>1, <1>5, <1>8
<1>10. \A v, w \in Indices : r(v) = r(w) => v = w
  <2>1. TAKE v \in Indices
  <2>2. TAKE w \in Indices
  <2>3. HAVE r(v) = r(w)
  <2>4. CASE v \notin d /\ w \notin d
    BY ONLY <1>1, <1>5, <2>3, <2>4, v \in Indices, w \in Indices
  <2>5. CASE v \in d /\ w \notin d
    <3>1. PICK u \in d : r(v) = Rank(u)
      BY <1>4, <2>5
    <3>2. u = w
      BY <1>1, <1>2, <1>5, <2>3, <2>5, <3>1
    <3> QED
      BY <2>5, <3>2
  <2>6. CASE v \notin d /\ w \in d
    <3>1. PICK u \in d : r(w) = Rank(u)
      BY <1>4, <2>6
    <3>2. u = v
      BY <1>1, <1>2, <1>5, <2>3, <2>6, <3>1
    <3> QED
      BY <2>6, <3>2
  <2>7. CASE v \in d /\ w \in d
    <3>1. r(v) \in Nat /\ r(w) \in Nat /\ ~(r(v) < r(w)) /\ ~(r(w) < r(v))
      BY <1>8, <2>3, <2>7
    <3>2. (v \in b /\ w \in b) \/ (v \in f /\ w \in f)
      BY <1>2, <1>6, <2>7, <3>1
    <3>3. ~(Rank(v) < Rank(w)) /\ ~(Rank(w) < Rank(v))
      BY <1>6, <3>1, <3>2
    <3>4. Rank(v) = Rank(w)
      BY <1>1, <3>3
    <3> QED
      BY <1>1, <3>4
  <2> QED
    BY <2>4, <2>5, <2>6, <2>7
<1>11. \A v \in Indices : \A w \in Out(v) : r(v) < r(w)
  <2>1. TAKE v \in Indices
  <2>2. TAKE w \in Out(v)
  <2>3. /\ w \in Indices /\ Rank(v) < Rank(w) /\ v \in In(w) /\ Rank(v) \in Nat /\ Rank(w) \in Nat /\ Rank(x) \in Nat
        /\ Rank(y) \in Nat /\ r(v) \in Nat /\ r(w) \in Nat
    BY <1>1, <1>9
  <2>4. CASE v \notin d /\ w \notin d
    BY <1>5, <2>3, <2>4
  <2>5. CASE v \in b /\ w \in b
    BY <1>6, <2>3, <2>5
  <2>6. CASE v \in f /\ w \in f
    BY <1>6, <2>3, <2>6
  <2>7. CASE v \in b /\ w \in f
    BY <1>6, <2>7
  <2>8. CASE v \in f /\ w \in b
    BY <1>2, <1>3, <1>7, <2>3, <2>8
  <2>9. CASE v \in f /\ w \notin d
    <3>1. Rank(x) < Rank(w) /\ r(w) = Rank(w) /\ r(v) =< Rank(x)
      BY <1>2, <1>5, <1>7, <1>8, <2>3, <2>9
    <3> QED
      BY ONLY <2>3, <3>1
  <2>10. CASE v \in b /\ w \notin d
    <3>1. r(v) =< Rank(v) /\ r(w) = Rank(w)
      BY <1>5, <1>6, <2>3, <2>10
    <3> QED
      BY ONLY <2>3, <3>1
  <2>11. CASE v \notin d /\ w \in b
    <3>1. Rank(v) =< Rank(y) /\ v # y /\ r(v) = Rank(v) /\ Rank(y) =< r(w)
      BY <1>2, <1>5, <1>7, <1>8, <2>3, <2>11
    <3>2. Rank(v) # Rank(y)
      BY <1>1, <3>1
    <3> QED
      BY ONLY <2>3, <3>1, <3>2
  <2>12. CASE v \notin d /\ w \in f
    <3>1. r(v) = Rank(v) /\ Rank(w) =< r(w)
      BY <1>5, <1>6, <2>12
    <3> QED
      BY ONLY <2>3, <3>1
  <2> QED
    BY <1>2, <2>4, <2>5, <2>6, <2>7, <2>8, <2>9, <2>10, <2>11, <2>12
<1>12. r(x) < r(y)
  BY <1>6
<1> QED
  BY ONLY <1>9, <1>10, <1>11, <1>12 DEF GoodRanks, r

\* The edge from x to y is added, and the ranks are new.
Added(x, y, rank) ==
  /\ free_nodes_' = free_nodes_ /\ nodes_' \in Seq(NodeSet) /\ Indices' = Indices
  /\ \A v \in Indices :
       /\ Node(v)'.ptr = Node(v).ptr /\ Node(v)'.version = Node(v).version
       /\ Rank(v)' = rank[v + 1]
       /\ Out(v)' = (IF v = x THEN Out(v) \cup {y} ELSE Out(v))
       /\ In(v)' = (IF v = y THEN In(v) \cup {x} ELSE In(v))

\* An edge, and ranks that it goes up in, keep the invariant.
LEMMA AddedKeeps ==
  ASSUME GraphInv, NEW x \in Indices, NEW y \in Indices, NEW rank, GoodRanks(x, y, rank), Added(x, y, rank),
         Node(x).ptr # NullPtr, Node(y).ptr # NullPtr, res' \in BOOLEAN
  PROVE  GraphInv' /\ KeepsIds
<1>1. free_nodes_' = free_nodes_ /\ nodes_' \in Seq(NodeSet) /\ Indices' = Indices
  BY DEF Added
<1>2. \A v \in Indices :
       /\ Node(v)'.ptr = Node(v).ptr /\ Node(v)'.version = Node(v).version
       /\ Rank(v)' = rank[v + 1]
       /\ Out(v)' = (IF v = x THEN Out(v) \cup {y} ELSE Out(v))
       /\ In(v)' = (IF v = y THEN In(v) \cup {x} ELSE In(v))
  BY DEF Added
<1>3. \A v \in Indices : Out(v) \subseteq Indices /\ In(v) \subseteq Indices /\ Node(v).version \in 1..MaxVersion
  BY DEF GraphInv, GraphTypes
<1>4. GraphTypes'
  <2>1. \A v \in Indices : Rank(v)' \in Indices /\ Out(v)' \subseteq Indices /\ In(v)' \subseteq Indices
    BY <1>2, <1>3 DEF GoodRanks
  <2> QED
    BY <1>1, <1>2, <1>3, <2>1 DEF GraphTypes, GraphInv
<1>5. RanksRise'
  <2>1. \A v, w \in Indices : Rank(v)' = Rank(w)' => v = w
    BY <1>2 DEF GoodRanks
  <2>2. \A v \in Indices : \A w \in Out(v) : rank[v + 1] < rank[w + 1]
    BY DEF GoodRanks
  <2>3. \A v \in Indices : \A w \in Out(v)' : rank[v + 1] < rank[w + 1] /\ w \in Indices
    BY <1>2, <1>3, <2>2 DEF GoodRanks
  <2>4. \A v \in Indices : \A w \in Out(v)' : Rank(v)' < Rank(w)'
    BY <1>2, <2>3
  <2> QED
    BY <1>1, <2>1, <2>4 DEF RanksRise
<1>6. Mirrored'
  BY <1>1, <1>2 DEF GraphInv, Mirrored
<1>7. SameIds
  BY <1>1, <1>2 DEF SameIds
<1>8. \A v \in Indices : Node(v).ptr = NullPtr => Out(v)' = {} /\ In(v)' = {}
  BY <1>2 DEF GraphInv, InUse
<1>9. InUse' /\ KeepsIds
  BY <1>7, <1>8, SameIdsKeeps
<1> QED
  BY <1>4, <1>5, <1>6, <1>9 DEF GraphInv

\* With the ranks of other nodes the nodes are still nodes.
LEMMA RankedNodes ==
  ASSUME GraphInv, NEW x \in Indices, NEW y \in Indices, NEW new, NEW rank, x # y,
         new = [nodes_ EXCEPT ![x + 1].out = @ \cup {y}, ![y + 1].in = @ \cup {x}],
         \A v \in Indices : rank[v + 1] \in Nat,
         free_nodes_' = free_nodes_,
         \/ nodes_' = new /\ \A v \in Indices : rank[v + 1] = Rank(v)
         \/ nodes_' = [j \in 1..Len(new) |-> [new[j] EXCEPT !.rank = rank[j]]]
  PROVE  Added(x, y, rank)
<1>1. PICK O, I : O = Out(x) \cup {y} /\ I = In(y) \cup {x}
  OBVIOUS
<1>2. O \in SUBSET Indices /\ I \in SUBSET Indices
  BY <1>1 DEF GraphInv, GraphTypes
<1>3. new = Relink(x, y, O, I)
  <2>1. nodes_[x + 1] = Node(x) /\ nodes_[y + 1] = Node(y) /\ x + 1 \in DOMAIN nodes_ /\ y + 1 \in DOMAIN nodes_
        /\ x + 1 # y + 1
    BY NodesAre DEF GraphInv
  <2>2. [nodes_ EXCEPT ![x + 1].out = O][y + 1].in = In(y)
    BY ONLY <2>1 DEF In
  <2> QED
    BY ONLY <1>1, <2>1, <2>2, new = [nodes_ EXCEPT ![x + 1].out = @ \cup {y}, ![y + 1].in = @ \cup {x}] DEF Out, Relink
<1>4. new \in [1..Len(nodes_) -> NodeSet] /\ AreLinked(new, x, y, O, I)
  BY <1>2, <1>3, LinkedNodes
<1>5. \A v \in Indices : new[v + 1] = Linked(v, x, y, O, I)
  BY <1>4 DEF AreLinked
<1>6. Len(new) = Len(nodes_) /\ new \in Seq(NodeSet) /\ Len(nodes_) \in Nat
  <2>1. Len(nodes_) \in Nat
    BY NodesAre DEF GraphInv
  <2>2. new \in [1..Len(nodes_) -> NodeSet]
    BY <1>4
  <2> QED
    BY ONLY <2>1, <2>2, FunctionIsSequence
<1>7. /\ nodes_' \in Seq(NodeSet) /\ Indices' = Indices
      /\ \A v \in Indices : Node(v)' = [Linked(v, x, y, O, I) EXCEPT !.rank = rank[v + 1]]
  <2>1. CASE nodes_' = new /\ \A v \in Indices : rank[v + 1] = Rank(v)
    <3>1. nodes_' \in Seq(NodeSet) /\ Indices' = Indices /\ \A v \in Indices : Node(v)' = new[v + 1]
      BY <1>4, <2>1, NodesBecome
    <3> QED
      BY ONLY <1>5, <2>1, <3>1 DEF Linked
  <2>2. CASE nodes_' = [j \in 1..Len(new) |-> [new[j] EXCEPT !.rank = rank[j]]]
    <3> DEFINE g == [j \in 1..Len(nodes_) |-> [new[j] EXCEPT !.rank = rank[j]]]
    <3>1. nodes_' = g
      BY <1>6, <2>2
    <3>2. \A j \in 1..Len(nodes_) : j - 1 \in Indices /\ (j - 1) + 1 = j
      BY NodesAre DEF GraphInv
    <3>3. \A j \in 1..Len(nodes_) : rank[j] \in Nat /\ new[j] \in NodeSet
      BY <1>4, <3>2
    <3>4. \A j \in 1..Len(nodes_) : [new[j] EXCEPT !.rank = rank[j]] \in NodeSet
      BY ONLY <3>3 DEF NodeSet
    <3>5. g \in [1..Len(nodes_) -> NodeSet]
      BY <3>4
    <3>6. \A v \in Indices : g[v + 1] = [new[v + 1] EXCEPT !.rank = rank[v + 1]]
      BY NodesAre DEF GraphInv
    <3> HIDE DEF g
    <3>7. nodes_' \in Seq(NodeSet) /\ Indices' = Indices /\ \A v \in Indices : Node(v)' = g[v + 1]
      BY <3>1, <3>5, NodesBecome
    <3> QED
      BY ONLY <1>5, <3>6, <3>7
  <2> QED
    BY <2>1, <2>2
<1>8. \A v \in Indices :
       /\ Node(v)'.ptr = Node(v).ptr /\ Node(v)'.version = Node(v).version
       /\ Rank(v)' = rank[v + 1]
       /\ Out(v)' = (IF v = x THEN O ELSE Out(v))
       /\ In(v)' = (IF v = y THEN I ELSE In(v))
  <2>1. TAKE v \in Indices
  <2>2. PICK n : n = Node(v)'
    OBVIOUS
  <2>3. n = [Linked(v, x, y, O, I) EXCEPT !.rank = rank[v + 1]]
    BY <1>7, <2>2
  <2>4. /\ n.ptr = Node(v).ptr /\ n.version = Node(v).version /\ n.rank = rank[v + 1]
        /\ n.out = (IF v = x THEN O ELSE Out(v)) /\ n.in = (IF v = y THEN I ELSE In(v))
    BY ONLY <2>3 DEF Linked
  <2> QED
    BY ONLY <2>2, <2>4 DEF Rank, Out, In
<1> QED
  BY <1>1, <1>7, <1>8 DEF Added

\* An id whose node is in use, unless it is out of date.
Handed(id) == id.index \in Indices /\ (Valid(id) => Node(id.index).ptr # NullPtr)

\* What InsertEdge does: it keeps all edges, and adds one unless it says no.
LEMMA InsertEdgeKeeps ==
  ASSUME GraphInv, NEW idx, NEW idy, Handed(idx), Handed(idy), InsertEdge(idx, idy)
  PROVE  /\ GraphInv' /\ KeepsIds /\ SameIds
         /\ \A v \in Indices : Out(v) \subseteq Out(v)'
         /\ res' /\ Valid(idx) /\ Valid(idy) => idy.index \in Out(idx.index)'
         /\ \A v \in Indices : Out(v)' = IF v = idx.index /\ res' /\ Valid(idx) /\ Valid(idy)
                                         THEN Out(v) \cup {idy.index} ELSE Out(v)
         /\ (Valid(idx) /\ Valid(idy)) \/ res'
<1> DEFINE x == idx.index
           y == idy.index
           deltaf == DeltaF(y, Rank(x))
           known == ~Valid(idx) \/ ~Valid(idy) \/ y \in Out(x)
           easy == Consistent(x, y)
           ok == known \/ (x # y /\ (easy \/ ~Cycle(deltaf, Rank(x))))
           rank == Reorder(DeltaB(x, Rank(y)), deltaf)
           new == [nodes_ EXCEPT ![x + 1].out = @ \cup {y}, ![y + 1].in = @ \cup {x}]
<1>2. /\ x \in Indices /\ y \in Indices
      /\ ~known => Node(x).ptr # NullPtr /\ Node(y).ptr # NullPtr
  BY DEF Handed
<1>3. /\ res' = ok /\ free_nodes_' = free_nodes_
      /\ known \/ x = y \/ ~ok => nodes_' = nodes_
      /\ ~known /\ x # y /\ ok /\ easy => nodes_' = new
      /\ ~known /\ x # y /\ ok /\ ~easy => nodes_' = [j \in 1..Len(new) |-> [new[j] EXCEPT !.rank = rank[j]]]
  <2>1. /\ res' = ok /\ free_nodes_' = free_nodes_
        /\ nodes_' = IF known \/ x = y THEN nodes_
                    ELSE IF easy \/ ~ok THEN (IF ok THEN new ELSE nodes_)
                         ELSE [j \in 1..Len(IF ok THEN new ELSE nodes_) |->
                                 [(IF ok THEN new ELSE nodes_)[j] EXCEPT !.rank = rank[j]]]
    BY DEF InsertEdge, WithEdge
  <2> HIDE DEF x, y, known, easy, ok, rank, new
  <2> QED
    BY ONLY <2>1
<1>1. ok \in BOOLEAN
  OBVIOUS
<1>4. res' \in BOOLEAN
  <2> HIDE DEF ok
  <2> QED
    BY <1>1, <1>3
<1>5. \A v \in Indices : Rank(v) \in Nat
  BY NodesAre DEF GraphInv, GraphTypes
<1>6. CASE known \/ x = y \/ ~ok
  <2>1. nodes_' = nodes_
    BY <1>3, <1>6
  <2>2. GraphInv'
    BY <1>3, <1>4, <2>1 DEF GraphInv, GraphTypes, RanksRise, Mirrored, InUse, Indices, Node, Rank, In, Out, Contains
  <2>3. KeepsIds
    BY <2>1 DEF KeepsIds, Indices, Node
  <2>4. Indices' = Indices /\ \A v \in Indices : Out(v)' = Out(v) /\ Node(v)' = Node(v)
    BY <2>1 DEF Indices, Out, Node
  <2>5. ASSUME res', Valid(idx), Valid(idy) PROVE y \in Out(x)'
    <3>1. known \/ (x # y /\ ok)
      BY <1>3, <2>5
    <3>2. y \in Out(x)
      BY <1>3, <1>6, <2>5, <3>1
    <3> QED
      BY <1>2, <2>4, <3>2
  <2>6. SameIds
    BY <1>3, <2>1, <2>4 DEF SameIds, GraphInv, GraphTypes
  <2>7. (Valid(idx) /\ Valid(idy)) \/ res'
    BY <1>3
  <2>8. ASSUME res', Valid(idx), Valid(idy) PROVE Out(x) = Out(x) \cup {y}
    BY <1>2, <2>4, <2>5, <2>8
  <2>9. \A v \in Indices : Out(v)' = IF v = x /\ res' /\ Valid(idx) /\ Valid(idy) THEN Out(v) \cup {y} ELSE Out(v)
    BY <2>4, <2>8
  <2> QED
    BY <2>2, <2>3, <2>4, <2>5, <2>6, <2>7, <2>9
<1>7. CASE ~known /\ x # y /\ ok
  <2>1. PICK rr : GoodRanks(x, y, rr) /\ Added(x, y, rr)
    <3>1. CASE easy
      <4> DEFINE q == [j \in 1..Len(nodes_) |-> Rank(j - 1)]
      <4>1. \A v \in Indices : q[v + 1] = Rank(v)
        BY NodesAre DEF GraphInv
      <4> HIDE DEF q, new, rank
      <4>2. Rank(x) < Rank(y)
        BY <1>2, <1>5, <1>7, <3>1 DEF Consistent, GraphInv, RanksRise
      <4>3. GoodRanks(x, y, q)
        BY <1>2, <4>1, <4>2 DEF GoodRanks, GraphInv, RanksRise, GraphTypes
      <4>4. nodes_' = new
        BY <1>3, <1>7, <3>1
      <4>5. Added(x, y, q)
        BY <1>2, <1>3, <1>5, <1>7, <4>1, <4>4, RankedNodes DEF new
      <4> QED
        BY <4>3, <4>5
    <3>2. CASE ~easy
      <4>1. Rank(y) < Rank(x) /\ ~Cycle(DeltaF(y, Rank(x)), Rank(x))
        BY <1>2, <1>5, <1>7, <3>2 DEF Consistent
      <4>2. PICK b, f : b = DeltaB(x, Rank(y)) /\ f = DeltaF(y, Rank(x))
        OBVIOUS
      <4>3. x \in b /\ y \in f /\ Apart(b, f, Rank(y), Rank(x))
        BY <1>2, <4>1, <4>2, SearchesAreApart
      <4>4. Reordered(b, f, rank)
        <5>1. b \in SUBSET Indices /\ f \in SUBSET Indices /\ b \cap f = {}
          BY <4>3 DEF Apart
        <5> QED
          BY <4>2, <5>1, ReorderIs
      <4>5. nodes_' = [j \in 1..Len(new) |-> [new[j] EXCEPT !.rank = rank[j]]]
        BY <1>3, <1>7, <3>2
      <4> HIDE DEF new, rank
      <4>6. GoodRanks(x, y, rank)
        BY <1>2, <4>3, <4>4, ReorderIsGood
      <4>7. \A v \in Indices : rank[v + 1] \in Nat
        <5>1. \A v \in Indices : v \in Nat
          BY NodesAre DEF GraphInv
        <5> QED
          BY <4>6, <5>1 DEF GoodRanks
      <4>8. Added(x, y, rank)
        BY <1>2, <1>3, <1>7, <4>5, <4>7, RankedNodes DEF new
      <4> QED
        BY <4>6, <4>8
    <3> QED
      BY <3>1, <3>2
  <2>2. GraphInv' /\ KeepsIds
    BY <1>2, <1>4, <1>7, <2>1, AddedKeeps
  <2>3. \A v \in Indices : Out(v)' = (IF v = x THEN Out(v) \cup {y} ELSE Out(v))
    BY <2>1 DEF Added
  <2>4. y \in Out(x)'
    BY <1>2, <2>3
  <2>5. SameIds
    BY <2>1 DEF Added, SameIds
  <2>6. res' /\ Valid(idx) /\ Valid(idy)
    BY <1>3, <1>7
  <2> QED
    BY <2>2, <2>3, <2>4, <2>5, <2>6
<1> QED
  BY <1>6, <1>7

-----------------------------------------------------------------------------
(* AcyclicGraph.                                                           *)

\* The edges between pointers are those between their nodes, before a step and after it.
LEMMA PtrEdgesAre ==
  /\ \A e : e \in PtrEdges <=> \E v, w \in Indices : w \in Out(v) /\ e = <<Node(v).ptr, Node(w).ptr>>
  /\ \A e : e \in PtrEdges' <=> \E v, w \in Indices' : w \in Out(v)' /\ e = <<Node(v)'.ptr, Node(w)'.ptr>>
<1>1. ASSUME NEW e PROVE e \in PtrEdges <=> \E v, w \in Indices : w \in Out(v) /\ e = <<Node(v).ptr, Node(w).ptr>>
  <2>1. e \in PtrEdges <=> \E d \in Indices \X Indices : d[2] \in Out(d[1]) /\ e = <<Node(d[1]).ptr, Node(d[2]).ptr>>
    BY DEF PtrEdges, Edges
  <2>2. ASSUME NEW d \in Indices \X Indices, d[2] \in Out(d[1]) /\ e = <<Node(d[1]).ptr, Node(d[2]).ptr>>
        PROVE  \E v, w \in Indices : w \in Out(v) /\ e = <<Node(v).ptr, Node(w).ptr>>
    <3>1. d[1] \in Indices /\ d[2] \in Indices
      OBVIOUS
    <3> QED
      BY <2>2, <3>1
  <2>3. ASSUME NEW v \in Indices, NEW w \in Indices, w \in Out(v) /\ e = <<Node(v).ptr, Node(w).ptr>>
        PROVE  \E d \in Indices \X Indices : d[2] \in Out(d[1]) /\ e = <<Node(d[1]).ptr, Node(d[2]).ptr>>
    <3>1. PICK d : d = <<v, w>>
      OBVIOUS
    <3>2. d \in Indices \X Indices /\ d[1] = v /\ d[2] = w
      BY <3>1
    <3> QED
      BY <2>3, <3>2
  <2> QED
    BY <2>1, <2>2, <2>3
<1>2. ASSUME NEW e PROVE e \in PtrEdges' <=> \E v, w \in Indices' : w \in Out(v)' /\ e = <<Node(v)'.ptr, Node(w)'.ptr>>
  <2>1. e \in PtrEdges' <=> \E d \in Indices' \X Indices' : d[2] \in Out(d[1])' /\ e = <<Node(d[1])'.ptr, Node(d[2])'.ptr>>
    BY DEF PtrEdges, Edges
  <2>2. ASSUME NEW d \in Indices' \X Indices', d[2] \in Out(d[1])' /\ e = <<Node(d[1])'.ptr, Node(d[2])'.ptr>>
        PROVE  \E v, w \in Indices' : w \in Out(v)' /\ e = <<Node(v)'.ptr, Node(w)'.ptr>>
    <3>1. d[1] \in Indices' /\ d[2] \in Indices'
      OBVIOUS
    <3> QED
      BY <2>2, <3>1
  <2>3. ASSUME NEW v \in Indices', NEW w \in Indices', w \in Out(v)' /\ e = <<Node(v)'.ptr, Node(w)'.ptr>>
        PROVE  \E d \in Indices' \X Indices' : d[2] \in Out(d[1])' /\ e = <<Node(d[1])'.ptr, Node(d[2])'.ptr>>
    <3>1. PICK d : d = <<v, w>>
      OBVIOUS
    <3>2. d \in Indices' \X Indices' /\ d[1] = v /\ d[2] = w
      BY <3>1
    <3> QED
      BY <2>3, <3>2
  <2> QED
    BY <2>1, <2>2, <2>3
<1> QED
  BY <1>1, <1>2

\* The pointers of nodes, before a step and after it.
LEMMA LiveIs ==
  /\ \A p : p \in Live <=> p # NullPtr /\ \E v \in Indices : p = Node(v).ptr
  /\ \A p : p \in Live' <=> p # NullPtr /\ \E v \in Indices' : p = Node(v)'.ptr
BY DEF Live

\* Edges are between nodes in use, and a pointer tells its node.
LEMMA EdgesInUse ==
  ASSUME GraphInv
  PROVE  /\ \A v \in Indices : \A w \in Out(v) : /\ w \in Indices /\ Node(v).ptr # NullPtr /\ Node(w).ptr # NullPtr
                                                /\ Rank(v) < Rank(w)
         /\ \A v, w \in Indices : Node(v).ptr = Node(w).ptr /\ Node(v).ptr # NullPtr => v = w
<1>1. \A v \in Indices : Out(v) \subseteq Indices
  BY DEF GraphInv, GraphTypes
<1>2. \A v, w \in Indices : w \in Out(v) <=> v \in In(w)
  BY DEF GraphInv, Mirrored
<1>3. \A v \in Indices : Node(v).ptr = NullPtr => Out(v) = {} /\ In(v) = {}
  BY DEF GraphInv, InUse
<1>4. \A v \in Indices : \A w \in Out(v) : Rank(v) < Rank(w)
  BY DEF GraphInv, RanksRise
<1>5. \A v, w \in Indices : Node(v).ptr = Node(w).ptr /\ Node(v).ptr # NullPtr => v = w
  BY DEF GraphInv, InUse
<1> QED
  BY ONLY <1>1, <1>2, <1>3, <1>4, <1>5

\* There is a path of edges from a to b: a set of nodes that has the successors of a and those of its
\* members has b.
ClosedFrom(a, T) == \A v \in Indices : v = a \/ v \in T => Out(v) \subseteq T
Path(a, b) == \A T \in SUBSET Indices : ClosedFrom(a, T) => b \in T

\* The same of pointers, as AcyclicGraph says it.
PtrPath(p, q) == \A S \in SUBSET Live : (\A e \in PtrEdges : e[1] \in S \cup {p} => e[2] \in S) => q \in S

\* Pointers are connected as their nodes are.
LEMMA PathsAgree ==
  ASSUME GraphInv, NEW a \in Indices, NEW b \in Indices, Node(a).ptr # NullPtr, Node(b).ptr # NullPtr
  PROVE  PtrPath(Node(a).ptr, Node(b).ptr) <=> Path(a, b)
<1>1. ASSUME PtrPath(Node(a).ptr, Node(b).ptr), NEW T \in SUBSET Indices, ClosedFrom(a, T) PROVE b \in T
  <2>1. PICK S : S = {Node(v).ptr : v \in {w \in T : Node(w).ptr # NullPtr}}
    OBVIOUS
  <2>2. S \subseteq Live
    BY <2>1, LiveIs
  <2>3. ASSUME NEW e \in PtrEdges, e[1] \in S \cup {Node(a).ptr} PROVE e[2] \in S
    <3>1. PICK v \in Indices, w \in Indices : w \in Out(v) /\ e = <<Node(v).ptr, Node(w).ptr>>
      BY PtrEdgesAre
    <3>2. v = a \/ v \in T
      BY <2>1, <2>3, <3>1, EdgesInUse
    <3>3. w \in T /\ Node(w).ptr # NullPtr
      BY <1>1, <3>1, <3>2, EdgesInUse DEF ClosedFrom
    <3> QED
      BY <2>1, <3>1, <3>3
  <2>4. Node(b).ptr \in S
    BY <1>1, <2>2, <2>3 DEF PtrPath
  <2> QED
    BY <2>1, <2>4, EdgesInUse
<1>2. ASSUME Path(a, b), NEW S \in SUBSET Live, \A e \in PtrEdges : e[1] \in S \cup {Node(a).ptr} => e[2] \in S
      PROVE  Node(b).ptr \in S
  <2>1. PICK T : T = {v \in Indices : Node(v).ptr \in S}
    OBVIOUS
  <2>2. ASSUME NEW v \in Indices, v = a \/ v \in T, NEW w \in Out(v) PROVE w \in T
    <3>1. w \in Indices
      BY EdgesInUse
    <3>2. PICK e : e = <<Node(v).ptr, Node(w).ptr>>
      OBVIOUS
    <3>3. e \in PtrEdges /\ e[1] = Node(v).ptr /\ e[2] = Node(w).ptr
      BY <3>1, <3>2, PtrEdgesAre
    <3>4. e[1] \in S \cup {Node(a).ptr}
      BY <2>1, <2>2, <3>3
    <3> QED
      BY <1>2, <2>1, <3>1, <3>3, <3>4
  <2>3. T \in SUBSET Indices /\ ClosedFrom(a, T)
    BY <2>1, <2>2 DEF ClosedFrom
  <2>4. b \in T
    BY <1>2, <2>3 DEF Path
  <2> QED
    BY <2>1, <2>4
<1> QED
  BY <1>1, <1>2 DEF Path, PtrPath

\* Ranks rise along a path.
LEMMA PathsRise ==
  ASSUME GraphInv, NEW a \in Indices, NEW b \in Indices, Path(a, b)
  PROVE  Rank(a) < Rank(b)
<1>1. PICK T : T = {v \in Indices : Rank(a) < Rank(v)}
  OBVIOUS
<1>2. \A v \in Indices : Rank(v) \in Nat
  BY NodesAre DEF GraphInv, GraphTypes
<1>3. ASSUME NEW v \in Indices, v = a \/ v \in T, NEW w \in Out(v) PROVE w \in T
  <2>1. w \in Indices /\ Rank(v) < Rank(w)
    BY EdgesInUse
  <2> QED
    BY <1>1, <1>2, <1>3, <2>1
<1>4. T \in SUBSET Indices /\ ClosedFrom(a, T)
  BY <1>1, <1>3 DEF ClosedFrom
<1>5. b \in T
  BY <1>4 DEF Path
<1> QED
  BY <1>1, <1>5

\* The search below the rank of x finds a cycle exactly if a path leads from y to x.
LEMMA CycleIsPath ==
  ASSUME GraphInv, NEW x \in Indices, NEW y \in Indices, Rank(y) < Rank(x)
  PROVE  Cycle(DeltaF(y, Rank(x)), Rank(x)) <=> Path(y, x)
<1> DEFINE E == {e \in Edges : Rank(e[2]) < Rank(x)}
<1>1. PICK f : f = DeltaF(y, Rank(x))
  OBVIOUS
<1>2. f = Visited(y, E) /\ Len(nodes_) \in Nat
  BY <1>1, NodesAre DEF DeltaF, GraphInv
<1>3. /\ \A v \in Indices : Rank(v) \in Nat /\ Out(v) \subseteq Indices
      /\ \A v, w \in Indices : Rank(v) = Rank(w) => v = w
      /\ \A v \in Indices : \A w \in Out(v) : Rank(v) < Rank(w)
  BY NodesAre DEF GraphInv, GraphTypes, RanksRise
<1>4. \A v, w \in Indices : <<v, w>> \in E <=> w \in Out(v) /\ Rank(w) < Rank(x)
  BY DEF Edges
<1> HIDE DEF E
<1>5. /\ f \subseteq Indices /\ y \in f
      /\ \A v \in f : \A w \in Indices : <<v, w>> \in E => w \in f
  BY <1>2, VisitedIs
<1>6. ASSUME NEW T, y \in T, \A v \in T : \A w \in Indices : <<v, w>> \in E => w \in T PROVE f \subseteq T
  BY ONLY <1>2, <1>6, y \in Indices, VisitedIs
<1>7. ASSUME Cycle(f, Rank(x)), NEW T \in SUBSET Indices, ClosedFrom(y, T) PROVE x \in T
  <2>1. PICK Z : Z = T \cup {y}
    OBVIOUS
  <2>2. ASSUME NEW v \in Z, NEW w \in Indices, <<v, w>> \in E PROVE w \in Z
    <3>1. v \in Indices /\ (v = y \/ v \in T)
      BY <2>1
    <3>2. w \in Out(v)
      BY <1>4, <2>2, <3>1
    <3> QED
      BY <1>7, <2>1, <3>1, <3>2 DEF ClosedFrom
  <2>3. f \subseteq Z
    <3>1. y \in Z
      BY <2>1
    <3> QED
      BY ONLY <1>6, <2>2, <3>1
  <2>4. PICK v \in f : \E w \in Out(v) : Rank(w) = Rank(x)
    BY <1>7 DEF Cycle
  <2>5. x \in Out(v) /\ v \in Indices
    BY <1>3, <1>5, <2>4
  <2>6. v = y \/ v \in T
    BY <2>1, <2>3
  <2> QED
    BY <1>7, <2>5, <2>6 DEF ClosedFrom
<1>8. ASSUME ~Cycle(f, Rank(x)), Path(y, x) PROVE FALSE
  <2>1. PICK T : T = f \cup {v \in Indices : Rank(x) < Rank(v)}
    OBVIOUS
  <2>2. ASSUME NEW v \in Indices, v = y \/ v \in T, NEW w \in Out(v) PROVE w \in T
    <3>1. w \in Indices /\ Rank(v) < Rank(w) /\ Rank(v) \in Nat /\ Rank(w) \in Nat /\ Rank(x) \in Nat
      BY <1>3
    <3>2. CASE v \in f
      <4>1. Rank(w) # Rank(x)
        BY <1>8, <3>2 DEF Cycle
      <4>2. Rank(w) < Rank(x) => w \in f
        BY <1>4, <1>5, <3>1, <3>2
      <4> QED
        BY <2>1, <3>1, <4>1, <4>2
    <3>3. CASE Rank(x) < Rank(v)
      BY <2>1, <3>1, <3>3
    <3> QED
      BY <1>5, <2>1, <2>2, <3>2, <3>3
  <2>3. T \in SUBSET Indices /\ ClosedFrom(y, T)
    BY <1>5, <2>1, <2>2 DEF ClosedFrom
  <2>4. x \in f
    BY <1>3, <1>8, <2>1, <2>3 DEF Path
  <2>5. PICK Z : Z = {v \in Indices : Rank(v) < Rank(x)}
    OBVIOUS
  <2>6. y \in Z /\ \A v \in Z : \A w \in Indices : <<v, w>> \in E => w \in Z
    BY <1>4, <2>5
  <2>7. f \subseteq Z
    BY ONLY <1>6, <2>6
  <2> QED
    BY <1>3, <2>4, <2>5, <2>7
<1>9. Cycle(f, Rank(x)) \in BOOLEAN
  BY DEF Cycle
<1> QED
  BY <1>1, <1>7, <1>8, <1>9 DEF Path

\* The answer of InsertEdge: no exactly if the edge closes a cycle.
LEMMA VerdictIs ==
  ASSUME GraphInv, NEW idx, NEW idy, Handed(idx), Handed(idy), Valid(idx), Valid(idy), InsertEdge(idx, idy)
  PROVE  res' <=> idx.index # idy.index /\ ~Path(idy.index, idx.index)
<1>1. PICK x, y : x = idx.index /\ y = idy.index
  OBVIOUS
<1>2. x \in Indices /\ y \in Indices
  BY <1>1 DEF Handed
<1>3. res' = (y \in Out(x) \/ (x # y /\ (Consistent(x, y) \/ ~Cycle(DeltaF(y, Rank(x)), Rank(x)))))
  BY <1>1 DEF InsertEdge
<1>4. \A v \in Indices : Rank(v) \in Nat
  BY NodesAre DEF GraphInv, GraphTypes
<1>5. Path(y, x) => Rank(y) < Rank(x)
  BY <1>2, PathsRise
<1>6. y \in Out(x) => Rank(x) < Rank(y)
  BY <1>2, EdgesInUse
<1>7. CASE Rank(x) =< Rank(y)
  <2>1. Consistent(x, y) /\ ~Path(y, x)
    BY <1>2, <1>4, <1>5, <1>7 DEF Consistent
  <2>2. y \in Out(x) => x # y
    BY <1>2, <1>4, <1>6
  <2> QED
    BY <1>1, <1>3, <2>1, <2>2
<1>8. CASE Rank(y) < Rank(x)
  <2>1. Cycle(DeltaF(y, Rank(x)), Rank(x)) <=> Path(y, x)
    BY <1>2, <1>8, CycleIsPath
  <2>2. ~Consistent(x, y) /\ y \notin Out(x) /\ x # y
    BY <1>2, <1>4, <1>6, <1>8 DEF Consistent
  <2> QED
    BY <1>1, <1>3, <2>1, <2>2
<1> QED
  BY <1>2, <1>4, <1>7, <1>8

\* What a step does to the graph on pointers: the steps of AcyclicGraph.
NodeAdded(p) == Live' = Live \cup {p} /\ PtrEdges' = PtrEdges /\ res' = res
NodeGone(p) == Live' = Live \ {p} /\ PtrEdges' = {e \in PtrEdges : p \notin {e[1], e[2]}} /\ res' = res
EdgeAsked(p, q) ==
  /\ res' = (p # q /\ ~PtrPath(q, p))
  /\ PtrEdges' = (IF res' THEN PtrEdges \cup {<<p, q>>} ELSE PtrEdges)
  /\ Live' = Live
EdgeGone(p, q) == Live' = Live /\ PtrEdges' = PtrEdges \ {<<p, q>>} /\ res' = res
NothingAsked == res' = TRUE /\ Live' = Live /\ PtrEdges' = PtrEdges
NothingDone == Live' = Live /\ PtrEdges' = PtrEdges /\ res' = res

AcyclicStep ==
  \/ NothingAsked \/ NothingDone
  \/ \E p \in Ptrs : NodeAdded(p) \/ NodeGone(p)
  \/ \E p, q \in Live : EdgeAsked(p, q) \/ EdgeGone(p, q)

\* GetId adds a node without edges.
LEMMA GetIdAdds ==
  ASSUME GraphCyclesAssumption, GraphInv, NEW p \in Ptrs, GetId(p)
  PROVE  NodeAdded(p)
<1>1. PICK i \in Nat : Given(p, i)
  BY GetIdIs
<1>2. p # NullPtr /\ res' = res
  BY DEF GetId, GraphCyclesAssumption
<1>3. /\ Indices' = Indices \cup {i} /\ \A x \in Indices \ {i} : Node(x)' = Node(x)
      /\ Node(i)'.ptr = p /\ Out(i)' = {} /\ (i \in Indices => Node(i).ptr = NullPtr)
  BY <1>1 DEF Given
<1>4. \A x \in Indices \ {i} : Out(x)' = Out(x)
  BY <1>3 DEF Out
<1>5. ASSUME NEW q PROVE q \in Live' <=> q \in Live \cup {p}
  <2>1. q \in Live' <=> q # NullPtr /\ \E v \in Indices' : q = Node(v)'.ptr
    BY LiveIs
  <2>2. q \in Live <=> q # NullPtr /\ \E v \in Indices : q = Node(v).ptr
    BY LiveIs
  <2> QED
    BY ONLY <1>2, <1>3, <2>1, <2>2
<1>6. ASSUME NEW e PROVE e \in PtrEdges' <=> e \in PtrEdges
  <2>1. ASSUME NEW v \in Indices', NEW w \in Indices', w \in Out(v)', e = <<Node(v)'.ptr, Node(w)'.ptr>>
        PROVE  e \in PtrEdges
    <3>1. v \in Indices /\ v # i /\ w \in Out(v)
      BY <1>3, <1>4, <2>1
    <3>2. w \in Indices /\ w # i
      BY <1>3, <3>1, EdgesInUse
    <3>3. e = <<Node(v).ptr, Node(w).ptr>>
      BY <1>3, <2>1, <3>1, <3>2
    <3> QED
      BY <3>1, <3>2, <3>3, PtrEdgesAre
  <2>2. ASSUME NEW v \in Indices, NEW w \in Indices, w \in Out(v), e = <<Node(v).ptr, Node(w).ptr>>
        PROVE  e \in PtrEdges'
    <3>1. v # i /\ w # i
      BY <1>3, <2>2, EdgesInUse
    <3>2. w \in Out(v)' /\ e = <<Node(v)'.ptr, Node(w)'.ptr>> /\ v \in Indices' /\ w \in Indices'
      BY <1>3, <1>4, <2>2, <3>1
    <3> QED
      BY <3>2, PtrEdgesAre
  <2> QED
    BY <2>1, <2>2, PtrEdgesAre
<1> QED
  BY <1>2, <1>5, <1>6 DEF NodeAdded

\* RemoveNode takes the node away with its edges, and no others.
LEMMA RemoveNodeTakes ==
  ASSUME GraphCyclesAssumption, GraphInv, NEW p \in Ptrs, RemoveNode(p), Node(Find(p)).version < MaxVersion
  PROVE  NodeGone(p)
<1>1. PICK i : i = Find(p) /\ Removed(p, i) /\ res' = res
  BY RemoveNodeIs
<1>2. p # NullPtr
  BY DEF GraphCyclesAssumption
<1>3. /\ i \in Indices /\ Indices' = Indices /\ Node(i).ptr = p /\ Node(i)'.ptr = NullPtr /\ Out(i)' = {}
      /\ \A x \in Indices \ {i} : Node(x)'.ptr = Node(x).ptr /\ Out(x)' = Out(x) \ {i}
  BY <1>1 DEF Removed
<1>4. \A x \in Indices \ {i} : Node(x).ptr # p
  BY <1>2, <1>3, EdgesInUse
<1>5. ASSUME NEW q PROVE q \in Live' <=> q \in Live \ {p}
  <2>1. q \in Live' <=> q # NullPtr /\ \E v \in Indices' : q = Node(v)'.ptr
    BY LiveIs
  <2>2. q \in Live <=> q # NullPtr /\ \E v \in Indices : q = Node(v).ptr
    BY LiveIs
  <2> QED
    BY ONLY <1>2, <1>3, <1>4, <2>1, <2>2
<1>6. ASSUME NEW e PROVE e \in PtrEdges' <=> e \in PtrEdges /\ p \notin {e[1], e[2]}
  <2>1. ASSUME NEW v \in Indices', NEW w \in Indices', w \in Out(v)', e = <<Node(v)'.ptr, Node(w)'.ptr>>
        PROVE  e \in PtrEdges /\ p \notin {e[1], e[2]}
    <3>1. v \in Indices /\ v # i /\ w \in Out(v) /\ w # i /\ w \in Indices
      BY <1>3, <2>1
    <3>2. e = <<Node(v).ptr, Node(w).ptr>> /\ p # Node(v).ptr /\ p # Node(w).ptr
      BY <1>3, <1>4, <2>1, <3>1
    <3> QED
      BY <3>1, <3>2, PtrEdgesAre
  <2>2. ASSUME NEW v \in Indices, NEW w \in Indices, w \in Out(v), e = <<Node(v).ptr, Node(w).ptr>>,
               p \notin {e[1], e[2]}
        PROVE  e \in PtrEdges'
    <3>1. v # i /\ w # i
      BY <1>3, <2>2
    <3>2. w \in Out(v)' /\ e = <<Node(v)'.ptr, Node(w)'.ptr>> /\ v \in Indices' /\ w \in Indices'
      BY <1>3, <2>2, <3>1
    <3> QED
      BY <3>2, PtrEdgesAre
  <2> QED
    BY <2>1, <2>2, PtrEdgesAre
<1> QED
  BY <1>1, <1>5, <1>6 DEF NodeGone

\* Pointers stay where they are when the edges change.
LEMMA SameLive ==
  ASSUME SameIds PROVE Live' = Live
<1>1. Indices' = Indices /\ \A x \in Indices : Node(x)'.ptr = Node(x).ptr
  BY DEF SameIds
<1>2. ASSUME NEW q PROVE q \in Live' <=> q \in Live
  BY <1>1, LiveIs
<1> QED
  BY <1>2

\* InsertEdge says no to exactly the edges that close a cycle, and adds the others.
LEMMA InsertEdgeAsks ==
  ASSUME GraphInv, NEW idx, NEW idy, Handed(idx), Handed(idy), InsertEdge(idx, idy)
  PROVE  NothingAsked \/ \E p, q \in Live : EdgeAsked(p, q)
<1>1. PICK x, y, added : x = idx.index /\ y = idy.index /\ added = (res' /\ Valid(idx) /\ Valid(idy))
  OBVIOUS
<1>2. /\ GraphInv' /\ SameIds /\ ((Valid(idx) /\ Valid(idy)) \/ res')
      /\ \A v \in Indices : Out(v)' = IF v = x /\ added THEN Out(v) \cup {y} ELSE Out(v)
  BY <1>1, InsertEdgeKeeps
<1>3. x \in Indices /\ y \in Indices /\ res' \in BOOLEAN /\ Live' = Live
  BY <1>1, <1>2, SameLive DEF Handed, GraphInv, GraphTypes
<1>4. Indices' = Indices /\ \A v \in Indices : Node(v)'.ptr = Node(v).ptr
  BY <1>2 DEF SameIds
<1>5. ASSUME NEW e PROVE e \in PtrEdges' <=> e \in PtrEdges \/ (added /\ e = <<Node(x).ptr, Node(y).ptr>>)
  <2>1. e \in PtrEdges <=> \E v, w \in Indices : w \in Out(v) /\ e = <<Node(v).ptr, Node(w).ptr>>
    BY PtrEdgesAre
  <2>2. e \in PtrEdges' <=> \E v, w \in Indices' : w \in Out(v)' /\ e = <<Node(v)'.ptr, Node(w)'.ptr>>
    BY PtrEdgesAre
  <2> QED
    BY ONLY <1>2, <1>3, <1>4, <2>1, <2>2
<1>6. CASE ~(Valid(idx) /\ Valid(idy))
  BY <1>1, <1>2, <1>3, <1>5, <1>6 DEF NothingAsked
<1>7. CASE Valid(idx) /\ Valid(idy)
  <2>1. PICK p, q : p = Node(x).ptr /\ q = Node(y).ptr
    OBVIOUS
  <2>2. p # NullPtr /\ q # NullPtr /\ p \in Live /\ q \in Live
    BY <1>1, <1>3, <1>7, <2>1, LiveIs DEF Handed
  <2>3. res' <=> x # y /\ ~Path(y, x)
    BY <1>1, <1>7, VerdictIs
  <2>4. PtrPath(q, p) <=> Path(y, x)
    BY <1>3, <2>1, <2>2, PathsAgree
  <2>5. x = y <=> p = q
    BY <1>3, <2>1, <2>2, EdgesInUse
  <2>6. res' = (p # q /\ ~PtrPath(q, p))
    BY <1>3, <2>3, <2>4, <2>5
  <2>7. added = res'
    BY <1>1, <1>3, <1>7
  <2>8. PtrEdges' = IF res' THEN PtrEdges \cup {<<p, q>>} ELSE PtrEdges
    BY <1>5, <2>1, <2>7
  <2> QED
    BY <1>3, <2>2, <2>6, <2>8 DEF EdgeAsked
<1> QED
  BY <1>6, <1>7

\* RemoveEdge takes one edge away.
LEMMA RemoveEdgeTakes ==
  ASSUME GraphInv, NEW idx, NEW idy, Handed(idx), Handed(idy), RemoveEdge(idx, idy)
  PROVE  \E p, q \in Live : EdgeGone(p, q)
<1>1. PICK x, y, O, I : x = idx.index /\ y = idy.index /\ O = Out(x) \ {y} /\ I = In(y) \ {x}
  OBVIOUS
<1>2. /\ x \in Indices /\ y \in Indices /\ O \in SUBSET Indices /\ I \in SUBSET Indices
      /\ Node(x).ptr # NullPtr /\ Node(y).ptr # NullPtr
  BY <1>1 DEF RemoveEdge, Handed, GraphInv, GraphTypes
<1>3. PICK f : f = Relink(x, y, O, I)
  OBVIOUS
<1>4. nodes_' = f /\ res' = res
  <2>1. nodes_' = [nodes_ EXCEPT ![x + 1].out = @ \ {y}, ![y + 1].in = @ \ {x}] /\ res' = res
    BY <1>1 DEF RemoveEdge
  <2>2. nodes_[x + 1] = Node(x) /\ nodes_[y + 1] = Node(y) /\ x + 1 \in DOMAIN nodes_ /\ y + 1 \in DOMAIN nodes_
        /\ Node(x) \in NodeSet
    BY <1>2, NodesAre DEF GraphInv
  <2>3. PICK g : g = [nodes_ EXCEPT ![x + 1].out = O]
    OBVIOUS
  <2>4. [nodes_ EXCEPT ![x + 1].out = @ \ {y}] = g
    BY ONLY <1>1, <2>2, <2>3 DEF Out
  <2>5. g[y + 1].in = In(y)
    BY ONLY <2>2, <2>3 DEF In, NodeSet
  <2>6. nodes_' = [g EXCEPT ![y + 1].in = @ \ {x}]
    BY ONLY <2>1, <2>4
  <2>7. [g EXCEPT ![y + 1].in = @ \ {x}] = [g EXCEPT ![y + 1].in = I]
    BY ONLY <1>1, <2>5
  <2>8. f = [g EXCEPT ![y + 1].in = I]
    BY ONLY <1>3, <2>3 DEF Relink
  <2> QED
    BY ONLY <2>1, <2>6, <2>7, <2>8
<1>5. f \in [1..Len(nodes_) -> NodeSet] /\ AreLinked(f, x, y, O, I)
  BY <1>2, <1>3, LinkedNodes
<1>6. Indices' = Indices /\ \A v \in Indices : Node(v)' = Linked(v, x, y, O, I)
  <2>1. Indices' = Indices /\ \A v \in Indices : Node(v)' = f[v + 1]
    BY <1>4, <1>5, NodesBecome
  <2> QED
    BY <1>5, <2>1 DEF AreLinked
<1>7. \A v \in Indices : Node(v)'.ptr = Node(v).ptr /\ Out(v)' = IF v = x THEN O ELSE Out(v)
  BY <1>6 DEF Linked, Out
<1>8. PICK p, q : p = Node(x).ptr /\ q = Node(y).ptr
  OBVIOUS
<1>9. p \in Live /\ q \in Live
  BY <1>2, <1>8, LiveIs
<1>10. ASSUME NEW r PROVE r \in Live' <=> r \in Live
  BY <1>6, <1>7, LiveIs
<1>11. ASSUME NEW e PROVE e \in PtrEdges' <=> e \in PtrEdges /\ e # <<p, q>>
  <2>1. ASSUME NEW v \in Indices, NEW w \in Indices, e = <<Node(v).ptr, Node(w).ptr>>
        PROVE  w \in Out(v)' <=> w \in Out(v) /\ e # <<p, q>>
    <3>1. v = x /\ w = y => e = <<p, q>>
      BY <1>8, <2>1
    <3>2. e = <<p, q>> => v = x /\ w = y
      BY <1>2, <1>8, <2>1, EdgesInUse
    <3> QED
      BY <1>1, <1>7, <3>1, <3>2
  <2>2. e \in PtrEdges <=> \E v, w \in Indices : w \in Out(v) /\ e = <<Node(v).ptr, Node(w).ptr>>
    BY PtrEdgesAre
  <2>3. e \in PtrEdges' <=> \E v, w \in Indices' : w \in Out(v)' /\ e = <<Node(v)'.ptr, Node(w)'.ptr>>
    BY PtrEdgesAre
  <2> QED
    BY ONLY <1>6, <1>7, <2>1, <2>2, <2>3
<1>12. EdgeGone(p, q)
  BY <1>4, <1>10, <1>11 DEF EdgeGone
<1> QED
  BY <1>9, <1>12

-----------------------------------------------------------------------------
(* The list of a thread.                                                   *)

IdSet == [index : Nat, version : Nat]
LockSet == [mu : Ptrs, count : Nat \ {0}, id : IdSet]
HeldSet == [locks : Seq(LockSet), overflow : BOOLEAN]
AcquisitionSet == [mu : Ptrs, shared : BOOLEAN, id : IdSet, next : Nat, reported : BOOLEAN]

\* The list h has the lock l; no id is in it twice.
Has(h, l) == \E i \in 1..Len(h.locks) : h.locks[i] = l
Absent(h, id) == \A m : Has(h, m) => m.id # id
Distinct(h) == \A i, j \in 1..Len(h.locks) : h.locks[i].id = h.locks[j].id => i = j

\* A list of locks is the record of its fields.
LEMMA HeldAre ==
  ASSUME NEW h \in HeldSet
  PROVE  /\ h.locks \in Seq(LockSet) /\ Len(h.locks) \in Nat /\ h.overflow \in BOOLEAN
         /\ h = [locks |-> h.locks, overflow |-> h.overflow]
         /\ \A i \in 1..Len(h.locks) : h.locks[i] \in LockSet
         /\ \A l : Has(h, l) => l \in LockSet
BY DEF HeldSet, Has

\* At finds an id in the list if it is there.
LEMMA AtIs ==
  ASSUME NEW h \in HeldSet, NEW id
  PROVE  /\ At(h, id) = 0 => Absent(h, id)
         /\ At(h, id) # 0 => At(h, id) \in 1..Len(h.locks) /\ h.locks[At(h, id)].id = id
<1> DEFINE I == {i \in 1..Len(h.locks) : h.locks[i].id = id}
<1>1. At(h, id) = IF I = {} THEN 0 ELSE CHOOSE i \in I : \A j \in I : i <= j
  BY DEF At
<1>2. CASE I = {}
  BY <1>1, <1>2 DEF Has, Absent
<1>3. CASE I # {}
  <2>1. I \in SUBSET Nat
    OBVIOUS
  <2> HIDE DEF I
  <2>2. \E i \in I : \A m \in I : i =< m
    BY <1>3, <2>1, LeastOne
  <2>3. At(h, id) \in I
    BY ONLY <1>1, <1>3, <2>2
  <2> QED
    BY ONLY <2>3 DEF I
<1> QED
  BY <1>2, <1>3

\* LockEnter counts the lock with the id, adds one, or gives up.
Entered(g, h, mu, id) ==
  \/ /\ g.overflow = h.overflow
     /\ \E l : /\ Has(h, l) /\ l.id = id
               /\ \A m : Has(g, m) <=> (Has(h, m) /\ m.id # id) \/ m = [l EXCEPT !.count = @ + 1]
  \/ /\ g.overflow = TRUE /\ g.locks = h.locks
     /\ Absent(h, id)
  \/ /\ g.overflow = h.overflow
     /\ Absent(h, id)
     /\ \A m : Has(g, m) <=> Has(h, m) \/ m = [mu |-> mu, count |-> 1, id |-> id]

\* LockLeave counts it down, or takes it away.
Left(g, h, id) ==
  /\ g.overflow = h.overflow
  /\ \/ g = h /\ Absent(h, id)
     \/ \E l : /\ Has(h, l) /\ l.id = id
               /\ \/ l.count = 1 /\ \A m : Has(g, m) <=> Has(h, m) /\ m.id # id
                  \/ /\ l.count > 1
                     /\ \A m : Has(g, m) <=> (Has(h, m) /\ m.id # id) \/ m = [l EXCEPT !.count = @ - 1]

\* One lock of a list is replaced by another with its id.
LEMMA ReplaceLock ==
  ASSUME NEW h \in HeldSet, Distinct(h), NEW i \in 1..Len(h.locks), NEW k \in LockSet, k.id = h.locks[i].id,
         NEW g, g = [h EXCEPT !.locks[i] = k]
  PROVE  /\ g \in HeldSet /\ Distinct(g) /\ g.overflow = h.overflow
         /\ \A m : Has(g, m) <=> (Has(h, m) /\ m.id # k.id) \/ m = k
<1>1. PICK s : s = h.locks
  OBVIOUS
<1>2. s \in Seq(LockSet) /\ Len(s) \in Nat /\ i \in 1..Len(s) /\ k.id = s[i].id /\ \A a, b \in 1..Len(s) : s[a].id = s[b].id => a = b
  BY <1>1, HeldAre DEF Distinct
<1>3. /\ [s EXCEPT ![i] = k] \in Seq(LockSet) /\ Len([s EXCEPT ![i] = k]) = Len(s)
      /\ \A j \in 1..Len(s) : [s EXCEPT ![i] = k][j] = IF j = i THEN k ELSE s[j]
  BY ONLY <1>2, k \in LockSet
<1>4. g = [h EXCEPT !.locks = [s EXCEPT ![i] = k]]
  BY <1>1
<1>5. PICK u : u = [s EXCEPT ![i] = k]
  OBVIOUS
<1>6. g \in HeldSet /\ g.locks = u /\ g.overflow = h.overflow
  BY ONLY <1>3, <1>4, <1>5, h \in HeldSet DEF HeldSet
<1>7. Distinct(g)
  BY ONLY <1>2, <1>3, <1>5, <1>6 DEF Distinct
<1>8. \A m : Has(g, m) <=> (Has(h, m) /\ m.id # k.id) \/ m = k
  BY ONLY <1>1, <1>2, <1>3, <1>5, <1>6 DEF Has
<1> QED
  BY <1>6, <1>7, <1>8

\* What LockEnter does, on a list that has no id twice.
LEMMA EnterIs ==
  ASSUME NEW h \in HeldSet, Distinct(h), NEW mu \in Ptrs, NEW id \in IdSet
  PROVE  LockEnter(h, mu, id) \in HeldSet /\ Distinct(LockEnter(h, mu, id)) /\ Entered(LockEnter(h, mu, id), h, mu, id)
<1>1. PICK g, i : g = LockEnter(h, mu, id) /\ i = At(h, id)
  OBVIOUS
<1>2. CASE i # 0
  <2>1. i \in 1..Len(h.locks) /\ h.locks[i].id = id
    BY <1>1, <1>2, AtIs
  <2>2. PICK l : l = h.locks[i]
    OBVIOUS
  <2>3. l \in LockSet /\ Has(h, l) /\ l.id = id
    BY <2>1, <2>2, HeldAre DEF Has
  <2>4. PICK k : k = [l EXCEPT !.count = @ + 1]
    OBVIOUS
  <2>5. k \in LockSet /\ k.id = id
    BY ONLY <2>3, <2>4 DEF LockSet
  <2>6. g = [h EXCEPT !.locks[i] = k]
    <3>1. g = [h EXCEPT !.locks[i].count = @ + 1]
      BY <1>1, <1>2 DEF LockEnter
    <3> QED
      BY ONLY <2>2, <2>4, <3>1
  <2>7. /\ g \in HeldSet /\ Distinct(g) /\ g.overflow = h.overflow
        /\ \A m : Has(g, m) <=> (Has(h, m) /\ m.id # k.id) \/ m = k
    BY <2>1, <2>2, <2>3, <2>5, <2>6, ReplaceLock
  <2>8. Entered(g, h, mu, id)
    BY ONLY <2>3, <2>4, <2>5, <2>7 DEF Entered
  <2> QED
    BY <1>1, <2>7, <2>8
<1>3. CASE i = 0 /\ Len(h.locks) = MaxLocks
  <2>1. g = [h EXCEPT !.overflow = TRUE]
    BY <1>1, <1>3 DEF LockEnter
  <2>2. g \in HeldSet /\ g.overflow = TRUE /\ g.locks = h.locks
    BY ONLY <2>1, h \in HeldSet DEF HeldSet
  <2>3. Distinct(g)
    BY <2>2 DEF Distinct
  <2>4. Absent(h, id)
    BY <1>1, <1>3, AtIs
  <2>5. Entered(g, h, mu, id)
    BY ONLY <2>2, <2>4 DEF Entered
  <2> QED
    BY <1>1, <2>2, <2>3, <2>5
<1>4. CASE i = 0 /\ Len(h.locks) # MaxLocks
  <2>1. PICK k, s, u : k = [mu |-> mu, count |-> 1, id |-> id] /\ s = h.locks /\ u = Append(s, k)
    OBVIOUS
  <2>2. g = [h EXCEPT !.locks = u]
    BY <1>1, <1>4, <2>1 DEF LockEnter
  <2>3. k \in LockSet /\ s \in Seq(LockSet) /\ Len(s) \in Nat
    <3>1. k \in LockSet
      BY <2>1 DEF LockSet
    <3>2. s \in Seq(LockSet) /\ Len(s) \in Nat
      BY <2>1, HeldAre
    <3> QED
      BY <3>1, <3>2
  <2>4. /\ u \in Seq(LockSet) /\ Len(u) = Len(s) + 1 /\ u[Len(s) + 1] = k
        /\ \A j \in 1..Len(s) : u[j] = s[j]
    BY ONLY <2>1, <2>3
  <2>5. g \in HeldSet /\ g.locks = u /\ g.overflow = h.overflow
    BY ONLY <2>2, <2>4, h \in HeldSet DEF HeldSet
  <2>6. Absent(h, id)
    BY <1>1, <1>4, AtIs
  <2>7. \A j \in 1..Len(u) : j \in 1..Len(s) \/ j = Len(s) + 1
    BY ONLY <2>3, <2>4
  <2>8. \A m : Has(g, m) <=> Has(h, m) \/ m = k
    BY ONLY <2>1, <2>3, <2>4, <2>5, <2>7 DEF Has
  <2>9. Distinct(g)
    <3>1. \A j \in 1..Len(s) : s[j].id # id
      BY <2>1, <2>6 DEF Has, Absent
    <3>2. \A a, b \in 1..Len(s) : s[a].id = s[b].id => a = b
      BY <2>1 DEF Distinct
    <3>3. k.id = id
      BY <2>1
    <3> QED
      BY ONLY <2>4, <2>5, <2>7, <3>1, <3>2, <3>3 DEF Distinct
  <2>10. Entered(g, h, mu, id)
    BY ONLY <2>1, <2>5, <2>6, <2>8 DEF Entered
  <2> QED
    BY <1>1, <2>5, <2>9, <2>10
<1> QED
  BY <1>2, <1>3, <1>4

\* What LockLeave does, on a list that has no id twice: the last lock is not lost when it
\* takes the place of the one that goes.
LEMMA LeaveIs ==
  ASSUME NEW h \in HeldSet, Distinct(h), NEW id \in IdSet
  PROVE  LockLeave(h, id) \in HeldSet /\ Distinct(LockLeave(h, id)) /\ Left(LockLeave(h, id), h, id)
<1>1. PICK g, i : g = LockLeave(h, id) /\ i = At(h, id)
  OBVIOUS
<1>2. CASE i = 0
  <2>1. g = h
    BY <1>1, <1>2 DEF LockLeave
  <2>2. Absent(h, id)
    BY <1>1, <1>2, AtIs
  <2>3. Left(g, h, id)
    BY <2>1, <2>2 DEF Left
  <2> QED
    BY <1>1, <2>1, <2>3
<1>3. CASE i # 0
  <2>1. i \in 1..Len(h.locks) /\ h.locks[i].id = id
    BY <1>1, <1>3, AtIs
  <2>2. PICK l : l = h.locks[i]
    OBVIOUS
  <2>3. l \in LockSet /\ Has(h, l) /\ l.id = id
    BY <2>1, <2>2, HeldAre DEF Has
  <2>4. CASE l.count = 1
    <3>1. PICK s, n, u : s = h.locks /\ n = Len(s) /\ u = Front([s EXCEPT ![i] = Last(s)])
      OBVIOUS
    <3>2. g = [h EXCEPT !.locks = u]
      BY <1>1, <1>3, <2>2, <2>4, <3>1 DEF LockLeave
    <3>3. /\ s \in Seq(LockSet) /\ n \in Nat \ {0} /\ n = Len(s) /\ i \in 1..n /\ n - 1 \in Nat
          /\ \A a, b \in 1..n : s[a].id = s[b].id => a = b
      BY <2>1, <3>1, HeldAre DEF Distinct
    <3>4. PICK v : v = [s EXCEPT ![i] = Last(s)]
      OBVIOUS
    <3>5. /\ v \in Seq(LockSet) /\ Len(v) = n /\ \A j \in 1..n : v[j] = IF j = i THEN s[n] ELSE s[j]
      <4>1. Last(s) = s[n] /\ s[n] \in LockSet
        BY ONLY <3>3 DEF Last
      <4> QED
        BY ONLY <3>3, <3>4, <4>1
    <3>6. u = SubSeq(v, 1, n - 1)
      BY <3>1, <3>4, <3>5 DEF Front
    <3>7. /\ u \in Seq(LockSet) /\ Len(u) = n - 1
          /\ \A j \in 1..n - 1 : u[j] = (IF j = i THEN s[n] ELSE s[j]) /\ j \in 1..n /\ j # n
      BY ONLY <3>3, <3>5, <3>6
    <3>8. g \in HeldSet /\ g.locks = u /\ g.overflow = h.overflow
      BY ONLY <3>2, <3>7, h \in HeldSet DEF HeldSet
    <3>9. \A j \in 1..n : j # i => \E k \in 1..n - 1 : u[k] = s[j]
      <4>1. TAKE j \in 1..n
      <4>2. HAVE j # i
      <4>3. CASE j = n
        BY ONLY <3>3, <3>7, <4>2, <4>3, i \in 1..n - 1
      <4>4. CASE j # n
        BY ONLY <3>3, <3>7, <4>2, <4>4, j \in 1..n - 1
      <4> QED
        BY <4>3, <4>4
    <3>10. \A k \in 1..n - 1 : \E j \in 1..n : j # i /\ u[k] = s[j]
      <4>1. TAKE k \in 1..n - 1
      <4>2. n \in 1..n /\ k \in 1..n /\ k # n
        BY ONLY <3>3, k \in 1..n - 1
      <4>3. u[k] = IF k = i THEN s[n] ELSE s[k]
        BY <3>7
      <4> QED
        BY ONLY <4>2, <4>3
    <3>11. \A j \in 1..n : j # i <=> s[j].id # id
      BY <2>1, <3>1, <3>3
    <3>12. \A m : Has(g, m) <=> Has(h, m) /\ m.id # id
      <4>1. \A m : Has(g, m) <=> \E k \in 1..n - 1 : u[k] = m
        BY ONLY <3>7, <3>8 DEF Has
      <4>2. \A m : Has(h, m) <=> \E j \in 1..n : s[j] = m
        BY ONLY <3>1 DEF Has
      <4> QED
        <5>1. TAKE m
        <5>2. ASSUME Has(g, m) PROVE Has(h, m) /\ m.id # id
          BY ONLY <3>10, <3>11, <4>1, <4>2, <5>2
        <5>3. ASSUME Has(h, m), m.id # id PROVE Has(g, m)
          BY ONLY <3>9, <3>11, <4>1, <4>2, <5>3
        <5> QED
          BY <5>2, <5>3
    <3>13. Distinct(g)
      <4>1. ASSUME NEW a \in 1..n - 1, NEW b \in 1..n - 1, u[a].id = u[b].id PROVE a = b
        <5>1. PICK p, q : p = (IF a = i THEN n ELSE a) /\ q = (IF b = i THEN n ELSE b)
          OBVIOUS
        <5>2. p \in 1..n /\ q \in 1..n /\ a # n /\ b # n
          BY ONLY <3>3, <5>1, a \in 1..n - 1, b \in 1..n - 1
        <5>3. u[a] = s[p] /\ u[b] = s[q]
          BY <3>7, <5>1
        <5>4. p = q
          BY <3>3, <4>1, <5>2, <5>3
        <5> QED
          BY ONLY <5>1, <5>2, <5>4
      <4> QED
        BY ONLY <3>7, <3>8, <4>1 DEF Distinct
    <3>14. Left(g, h, id)
      BY ONLY <2>3, <2>4, <3>8, <3>12 DEF Left
    <3> QED
      BY <1>1, <3>8, <3>13, <3>14
  <2>5. CASE l.count # 1
    <3>1. PICK k : k = [l EXCEPT !.count = @ - 1]
      OBVIOUS
    <3>2. k \in LockSet /\ k.id = id /\ l.count > 1
      BY ONLY <2>3, <2>5, <3>1 DEF LockSet
    <3>3. g = [h EXCEPT !.locks[i] = k]
      <4>1. g = [h EXCEPT !.locks[i].count = @ - 1]
        BY <1>1, <1>3, <2>2, <2>5 DEF LockLeave
      <4> QED
        BY ONLY <2>2, <3>1, <4>1
    <3>4. /\ g \in HeldSet /\ Distinct(g) /\ g.overflow = h.overflow
          /\ \A m : Has(g, m) <=> (Has(h, m) /\ m.id # k.id) \/ m = k
      BY <2>1, <2>2, <2>3, <3>2, <3>3, ReplaceLock
    <3>5. Left(g, h, id)
      BY ONLY <2>3, <3>1, <3>2, <3>4 DEF Left
    <3> QED
      BY <1>1, <3>4, <3>5
  <2> QED
    BY <2>4, <2>5
<1> QED
  BY <1>2, <1>3

-----------------------------------------------------------------------------
(* A thread: its list h, its acquisition a, how often it holds each mutex, *)
(* and the mutexes it lost, in a graph with the nodes n.                   *)

Current(n, id) == n[id.index + 1].version = id.version
Edge(n, id, idy) == idy.index \in n[id.index + 1].out

\* An id that mu got once, and that is no other mutex's.
Knows(n, id, mu) ==
  /\ id \in IdSet /\ id.index + 1 \in 1..Len(n) /\ id.version =< n[id.index + 1].version
  /\ Current(n, id) => n[id.index + 1].ptr = mu

ListTypes(h, a, own) ==
  h \in HeldSet /\ Distinct(h) /\ a \in AcquisitionSet \cup {Idle} /\ own \in [Ptrs -> Nat]

ListOk(n, h, own) ==
  \A l : Has(h, l) => Knows(n, l.id, l.mu) /\ (Current(n, l.id) => l.count =< own[l.mu])

\* What was forgotten while the thread held it keeps a lock that is out of date.
LostOk(n, h, a, own, L) ==
  \A mu \in L : /\ own[mu] = 0 => a # Idle /\ a.mu = mu /\ ~Current(n, a.id)
                /\ own[mu] > 0 /\ ~h.overflow => \E l : Has(h, l) /\ l.mu = mu /\ ~Current(n, l.id)

\* What was not forgotten is listed as often as it is held.
KeptOk(n, h, own, L) ==
  ~h.overflow => \A mu \in Ptrs \ L :
    /\ own[mu] > 0 => \E l : Has(h, l) /\ l.mu = mu /\ Current(n, l.id)
    /\ \A l : Has(h, l) /\ l.mu = mu /\ Current(n, l.id) => l.count = own[mu]

AcquiringOk(n, h, a, L) ==
  a # Idle => /\ Knows(n, a.id, a.mu) /\ (a.mu \notin L => Current(n, a.id))
              /\ \A l : Has(h, l) /\ l.id = a.id => l.mu = a.mu

\* There is an edge from each lock that was checked.
CheckedOk(n, h, a, checking) ==
  /\ checking => a # Idle /\ ~a.reported /\ a.next \in 1..Len(h.locks)
  /\ a # Idle /\ ~a.reported =>
       \A i \in 1..Len(h.locks) :
         (checking => i < a.next) /\ Current(n, h.locks[i].id) /\ Current(n, a.id) => Edge(n, h.locks[i].id, a.id)

ThreadOk(n, h, a, own, checking, L) ==
  /\ ListTypes(h, a, own) /\ L \subseteq Ptrs
  /\ ListOk(n, h, own) /\ LostOk(n, h, a, own, L) /\ KeptOk(n, h, own, L)
  /\ AcquiringOk(n, h, a, L) /\ CheckedOk(n, h, a, checking)

\* An acquisition is that of a mutex, or Idle.
LEMMA AcquisitionsAre ==
  ASSUME NullPtr \notin Ptrs, NEW a \in AcquisitionSet \cup {Idle}
  PROVE  /\ a # Idle => a.mu \in Ptrs /\ a.id \in IdSet /\ a.next \in Nat /\ a \in AcquisitionSet /\ a.reported \in BOOLEAN
         /\ \A mu \in Ptrs : a.mu = mu => a # Idle
BY DEF AcquisitionSet, Idle

\* The graph grows: nodes and edges are added.
Grows(n, m) ==
  /\ Len(n) \in Nat /\ Len(m) \in Nat /\ Len(n) =< Len(m)
  /\ \A x \in 1..Len(n) : /\ m[x].version = n[x].version
                          /\ n[x].ptr # NullPtr => m[x].ptr = n[x].ptr
                          /\ n[x].out \subseteq m[x].out

\* A graph that only grows: what is known of an id stays, and so do edges.
LEMMA KnowsGrows ==
  ASSUME NullPtr \notin Ptrs, NEW n, NEW m, Grows(n, m), NEW mu \in Ptrs, NEW id, Knows(n, id, mu)
  PROVE  /\ Knows(m, id, mu) /\ (Current(m, id) <=> Current(n, id))
         /\ \A idy : Edge(n, id, idy) => Edge(m, id, idy)
<1>1. PICK x : x = id.index + 1
  OBVIOUS
<1>2. /\ x \in 1..Len(n) /\ id \in IdSet /\ id.version =< n[x].version
      /\ n[x].version = id.version => n[x].ptr = mu
  BY <1>1 DEF Knows, Current
<1>3. /\ x \in 1..Len(m) /\ m[x].version = n[x].version
      /\ n[x].ptr # NullPtr => m[x].ptr = n[x].ptr
      /\ n[x].out \subseteq m[x].out
  BY <1>2 DEF Grows
<1> QED
  BY <1>1, <1>2, <1>3 DEF Knows, Current, Edge

\* A graph that only grows keeps what is said of a thread.
LEMMA GrowsOk ==
  ASSUME NullPtr \notin Ptrs, NEW n, NEW m, Grows(n, m), NEW h, NEW a, NEW own, NEW checking, NEW L,
         ThreadOk(n, h, a, own, checking, L)
  PROVE  ThreadOk(m, h, a, own, checking, L)
<1>1. h \in HeldSet /\ a \in AcquisitionSet \cup {Idle}
  BY DEF ThreadOk, ListTypes
<1>2. \A l : Has(h, l) => Knows(n, l.id, l.mu) /\ l.mu \in Ptrs
  BY <1>1, HeldAre DEF ThreadOk, ListOk, LockSet
<1>3. \A l : Has(h, l) => /\ Knows(m, l.id, l.mu) /\ (Current(m, l.id) <=> Current(n, l.id))
                          /\ \A idy : Edge(n, l.id, idy) => Edge(m, l.id, idy)
  BY <1>2, KnowsGrows
<1>4. a # Idle => /\ Knows(m, a.id, a.mu) /\ (Current(m, a.id) <=> Current(n, a.id))
  <2>1. a # Idle => Knows(n, a.id, a.mu) /\ a.mu \in Ptrs
    BY <1>1, AcquisitionsAre DEF ThreadOk, AcquiringOk
  <2> QED
    BY <2>1, KnowsGrows
<1>5. ListOk(m, h, own)
  BY <1>3 DEF ThreadOk, ListOk
<1>6. LostOk(m, h, a, own, L)
  BY <1>3, <1>4 DEF ThreadOk, LostOk
<1>7. KeptOk(m, h, own, L)
  BY <1>3 DEF ThreadOk, KeptOk
<1>8. AcquiringOk(m, h, a, L)
  BY <1>4 DEF ThreadOk, AcquiringOk
<1>9. CheckedOk(m, h, a, checking)
  <2>1. \A i \in 1..Len(h.locks) : Has(h, h.locks[i])
    BY DEF Has
  <2> QED
    BY <1>3, <1>4, <2>1 DEF ThreadOk, CheckedOk
<1> QED
  BY <1>5, <1>6, <1>7, <1>8, <1>9 DEF ThreadOk

\* No two nodes are of the same mutex.
OnePtr(n) == \A x, y \in 1..Len(n) : n[x].ptr = n[y].ptr /\ n[x].ptr # NullPtr => x = y

\* A mutex has one current id.
LEMMA OneId ==
  ASSUME NullPtr \notin Ptrs, NEW n, OnePtr(n), NEW mu \in Ptrs,
         NEW id, NEW idy, Knows(n, id, mu), Knows(n, idy, mu), Current(n, id), Current(n, idy)
  PROVE  id = idy
<1>1. id.index + 1 = idy.index + 1 /\ id.index \in Nat /\ idy.index \in Nat
  BY DEF Knows, OnePtr, IdSet
<1>2. id.index = idy.index /\ id.version = idy.version
  BY <1>1 DEF Current
<1> QED
  BY <1>2 DEF Knows, IdSet

\* The node i of mu goes.
Forgets(n, m, mu, i) ==
  /\ i \in Nat /\ i + 1 \in 1..Len(n) /\ Len(m) = Len(n) /\ Len(n) \in Nat
  /\ n[i + 1].ptr = mu /\ n[i + 1].version \in Nat /\ m[i + 1].version = n[i + 1].version + 1
  /\ \A x \in 1..Len(n) : x # i + 1 => /\ m[x].version = n[x].version /\ m[x].ptr = n[x].ptr
                                       /\ m[x].out = n[x].out \ {i}

\* A mutex that is forgotten: its ids go out of date, and those of others do not.
LEMMA KnowsForgets ==
  ASSUME NullPtr \notin Ptrs, NEW n, NEW m, OnePtr(n), NEW mu \in Ptrs, NEW i, Forgets(n, m, mu, i),
         NEW p \in Ptrs, NEW id, Knows(n, id, p)
  PROVE  /\ Knows(m, id, p) /\ (Current(m, id) <=> Current(n, id) /\ p # mu)
         /\ Current(m, id) => id.index # i
         /\ \A idy : Current(m, id) /\ Edge(n, id, idy) /\ idy.index # i => Edge(m, id, idy)
<1>1. PICK x : x = id.index + 1
  OBVIOUS
<1>2. /\ x \in 1..Len(n) /\ id \in IdSet /\ id.version =< n[x].version /\ id.version \in Nat /\ id.index \in Nat
      /\ n[x].version = id.version => n[x].ptr = p
  BY <1>1 DEF Knows, Current, IdSet
<1>3. CASE x = i + 1
  <2>1. id.index = i
    BY <1>1, <1>2, <1>3 DEF Forgets
  <2>2. m[x].version = n[x].version + 1 /\ n[x].version \in Nat /\ x \in 1..Len(m) /\ n[x].ptr = mu
    BY <1>2, <1>3 DEF Forgets
  <2>3. m[x].version # id.version /\ id.version =< m[x].version
    BY <1>2, <2>2
  <2>4. Current(n, id) => p = mu
    BY <1>1, <1>2, <2>2 DEF Current
  <2> QED
    BY <1>1, <1>2, <2>2, <2>3, <2>4 DEF Knows, Current
<1>4. CASE x # i + 1
  <2>1. id.index # i /\ x \in 1..Len(m)
    BY <1>1, <1>2, <1>4 DEF Forgets
  <2>2. m[x].version = n[x].version /\ m[x].ptr = n[x].ptr /\ m[x].out = n[x].out \ {i}
    BY <1>2, <1>4 DEF Forgets
  <2>3. Current(n, id) => p # mu
    <3>1. i + 1 \in 1..Len(n) /\ n[i + 1].ptr = mu
      BY DEF Forgets
    <3> QED
      BY <1>1, <1>2, <1>4, <3>1 DEF Current, OnePtr
  <2> QED
    BY <1>1, <1>2, <2>1, <2>2, <2>3 DEF Knows, Current, Edge
<1> QED
  BY <1>3, <1>4

\* A mutex that is forgotten keeps what is said of a thread, which has lost track of it if it
\* holds it or waits for it.
LEMMA ForgetOk ==
  ASSUME NullPtr \notin Ptrs, NEW n, NEW m, OnePtr(n), NEW mu \in Ptrs, NEW i, Forgets(n, m, mu, i),
         NEW h, NEW a, NEW own, NEW L, ThreadOk(n, h, a, own, FALSE, L),
         NEW L2, L2 = IF own[mu] > 0 \/ a.mu = mu THEN L \cup {mu} ELSE L
  PROVE  ThreadOk(m, h, a, own, FALSE, L2)
<1>1. h \in HeldSet /\ a \in AcquisitionSet \cup {Idle} /\ own \in [Ptrs -> Nat]
  BY DEF ThreadOk, ListTypes
<1>2. \A l : Has(h, l) => Knows(n, l.id, l.mu) /\ l.mu \in Ptrs
  BY <1>1, HeldAre DEF ThreadOk, ListOk, LockSet
<1>3. \A l : Has(h, l) => /\ Knows(m, l.id, l.mu) /\ (Current(m, l.id) <=> Current(n, l.id) /\ l.mu # mu)
                          /\ \A idy : Current(m, l.id) /\ Edge(n, l.id, idy) /\ idy.index # i => Edge(m, l.id, idy)
  BY <1>2, KnowsForgets
<1>4. a # Idle => /\ Knows(m, a.id, a.mu) /\ (Current(m, a.id) <=> Current(n, a.id) /\ a.mu # mu)
                  /\ Current(m, a.id) => a.id.index # i
  <2>1. a # Idle => Knows(n, a.id, a.mu) /\ a.mu \in Ptrs
    BY <1>1, AcquisitionsAre DEF ThreadOk, AcquiringOk
  <2> QED
    BY <2>1, KnowsForgets
<1>5. a.mu = mu => a # Idle
  BY <1>1, AcquisitionsAre
<1>6. ListOk(m, h, own)
  BY <1>3 DEF ThreadOk, ListOk
<1>7. LostOk(m, h, a, own, L2)
  <2>1. ASSUME NEW p \in L2, own[p] = 0 PROVE a # Idle /\ a.mu = p /\ ~Current(m, a.id)
    <3>1. CASE p \in L
      BY <1>4, <2>1, <3>1 DEF ThreadOk, LostOk
    <3>2. CASE p \notin L
      BY <1>4, <1>5, <2>1, <3>2
    <3> QED
      BY <3>1, <3>2
  <2>2. ASSUME NEW p \in L2, own[p] > 0, ~h.overflow PROVE \E l : Has(h, l) /\ l.mu = p /\ ~Current(m, l.id)
    <3>1. CASE p \in L
      BY <1>3, <2>2, <3>1 DEF ThreadOk, LostOk
    <3>2. CASE p \notin L
      <4>1. p = mu
        BY <3>2
      <4>2. \E l : Has(h, l) /\ l.mu = p /\ Current(n, l.id)
        BY <2>2, <3>2, <4>1 DEF ThreadOk, KeptOk
      <4> QED
        BY <1>3, <4>1, <4>2
    <3> QED
      BY <3>1, <3>2
  <2> QED
    BY <2>1, <2>2 DEF LostOk
<1>8. KeptOk(m, h, own, L2)
  <2> SUFFICES ASSUME ~h.overflow, NEW p \in Ptrs \ L2
      PROVE  /\ own[p] > 0 => \E l : Has(h, l) /\ l.mu = p /\ Current(m, l.id)
             /\ \A l : Has(h, l) /\ l.mu = p /\ Current(m, l.id) => l.count = own[p]
    BY DEF KeptOk
  <2>1. /\ p \notin L
        /\ own[p] > 0 => \E l : Has(h, l) /\ l.mu = p /\ Current(n, l.id)
        /\ \A l : Has(h, l) /\ l.mu = p /\ Current(n, l.id) => l.count = own[p]
    BY DEF ThreadOk, KeptOk
  <2>2. p = mu => ~(own[p] > 0)
    OBVIOUS
  <2> QED
    BY ONLY <1>3, <2>1, <2>2
<1>9. AcquiringOk(m, h, a, L2)
  BY <1>4 DEF ThreadOk, AcquiringOk
<1>10. CheckedOk(m, h, a, FALSE)
  <2>1. \A j \in 1..Len(h.locks) : Has(h, h.locks[j])
    BY DEF Has
  <2> QED
    BY <1>3, <1>4, <2>1 DEF ThreadOk, CheckedOk
<1>11. ListTypes(h, a, own) /\ L2 \subseteq Ptrs
  BY DEF ThreadOk
<1> QED
  BY <1>6, <1>7, <1>8, <1>9, <1>10, <1>11 DEF ThreadOk

\* An acquisition that begins.
LEMMA StartOk ==
  ASSUME NullPtr \notin Ptrs, NEW n, NEW mu \in Ptrs, NEW id, Knows(n, id, mu), Current(n, id),
         NEW h, NEW own, NEW L, ThreadOk(n, h, Idle, own, FALSE, L), NEW shared \in BOOLEAN,
         NEW a, a = [mu |-> mu, shared |-> shared, id |-> id, next |-> 1, reported |-> FALSE],
         NEW checking, checking = (h.locks # <<>>)
  PROVE  ThreadOk(n, h, a, own, checking, L)
<1>1. a \in AcquisitionSet /\ a.mu = mu /\ a.id = id /\ a.next = 1 /\ a.reported = FALSE
  BY DEF AcquisitionSet, Knows
<1>2. a # Idle
  BY <1>1, AcquisitionsAre
<1>3. h \in HeldSet /\ Len(h.locks) \in Nat /\ h.locks \in Seq(LockSet)
  BY HeldAre DEF ThreadOk, ListTypes
<1>4. ListTypes(h, a, own)
  BY <1>1 DEF ThreadOk, ListTypes
<1>5. LostOk(n, h, a, own, L)
  BY DEF ThreadOk, LostOk
<1>6. AcquiringOk(n, h, a, L)
  <2>1. \A l : Has(h, l) => Knows(n, l.id, l.mu)
    BY DEF ThreadOk, ListOk
  <2>2. \A l : Has(h, l) /\ l.id = id => l.mu = mu
    BY <2>1 DEF Knows, Current
  <2> QED
    BY <1>1, <2>2 DEF AcquiringOk
<1>7. CheckedOk(n, h, a, checking)
  <2>0. PICK s : s = h.locks
    OBVIOUS
  <2>1. CASE s = <<>>
    <3>1. Len(s) = 0
      BY ONLY <2>1
    <3>2. \A i \in 1..Len(h.locks) : FALSE
      BY <2>0, <3>1
    <3>3. ~checking
      BY <2>0, <2>1
    <3> QED
      BY ONLY <3>2, <3>3 DEF CheckedOk
  <2>2. CASE s # <<>>
    <3>1. s \in Seq(LockSet)
      BY <1>3, <2>0
    <3>2. 1 \in 1..Len(s)
      BY ONLY <2>2, <3>1
    <3>3. 1 \in 1..Len(h.locks) /\ \A i \in 1..Len(h.locks) : ~(i < 1)
      BY <1>3, <2>0, <3>2
    <3>4. checking
      BY <2>0, <2>2
    <3> QED
      BY ONLY <1>1, <1>2, <3>3, <3>4 DEF CheckedOk
  <2> QED
    BY <2>1, <2>2
<1> QED
  BY <1>4, <1>5, <1>6, <1>7 DEF ThreadOk

\* A lock of the list that was checked: its edge is there, or a cycle is reported.
LEMMA CheckOk ==
  ASSUME NullPtr \notin Ptrs, NEW n, NEW h, NEW a, NEW own, NEW L, ThreadOk(n, h, a, own, TRUE, L),
         NEW cycle \in BOOLEAN,
         ~cycle /\ Current(n, h.locks[a.next].id) /\ Current(n, a.id) => Edge(n, h.locks[a.next].id, a.id),
         NEW b, b = [a EXCEPT !.reported = cycle, !.next = @ + 1],
         NEW checking, checking = ~(cycle \/ a.next = Len(h.locks))
  PROVE  ThreadOk(n, h, b, own, checking, L)
<1>1. a # Idle /\ ~a.reported /\ a.next \in 1..Len(h.locks)
  BY DEF ThreadOk, CheckedOk
<1>2. a \in AcquisitionSet
  BY <1>1 DEF ThreadOk, ListTypes
<1>3. /\ b \in AcquisitionSet /\ b.mu = a.mu /\ b.id = a.id /\ b.reported = cycle /\ b.next = a.next + 1
      /\ b.mu \in Ptrs
  <2>1. /\ a = [mu |-> a.mu, shared |-> a.shared, id |-> a.id, next |-> a.next, reported |-> a.reported]
        /\ a.mu \in Ptrs /\ a.shared \in BOOLEAN /\ a.id \in IdSet /\ a.next \in Nat
    BY ONLY <1>2 DEF AcquisitionSet
  <2>2. b = [mu |-> a.mu, shared |-> a.shared, id |-> a.id, next |-> a.next + 1, reported |-> cycle]
    BY ONLY <2>1, b = [a EXCEPT !.reported = cycle, !.next = @ + 1]
  <2>3. a.next + 1 \in Nat
    BY ONLY <2>1
  <2> QED
    BY ONLY <2>1, <2>2, <2>3, cycle \in BOOLEAN DEF AcquisitionSet
<1>4. b # Idle
  BY <1>3, AcquisitionsAre
<1>5. ListTypes(h, b, own)
  BY <1>3 DEF ThreadOk, ListTypes
<1>6. LostOk(n, h, b, own, L)
  BY <1>3, <1>4 DEF ThreadOk, LostOk
<1>7. AcquiringOk(n, h, b, L)
  BY <1>1, <1>3 DEF ThreadOk, AcquiringOk
<1>8. CheckedOk(n, h, b, checking)
  <2>1. Len(h.locks) \in Nat /\ a.next \in Nat
    <3>1. a.next \in Nat
      BY <1>2 DEF AcquisitionSet
    <3>2. h \in HeldSet
      BY DEF ThreadOk, ListTypes
    <3> QED
      BY <3>1, <3>2, HeldAre
  <2>2. checking => b.next \in 1..Len(h.locks) /\ ~b.reported
    <3>1. checking => a.next # Len(h.locks) /\ ~cycle
      BY Zenon
    <3>2. a.next # Len(h.locks) => b.next \in 1..Len(h.locks)
      BY ONLY <1>1, <1>3, <2>1
    <3>3. ~cycle => ~b.reported
      BY <1>3
    <3> QED
      BY ONLY <3>1, <3>2, <3>3
  <2>3. \A i \in 1..Len(h.locks) : i < a.next /\ Current(n, h.locks[i].id) /\ Current(n, a.id) => Edge(n, h.locks[i].id, a.id)
    BY <1>1 DEF ThreadOk, CheckedOk
  <2>4. ASSUME ~cycle, NEW i \in 1..Len(h.locks), checking => i < b.next, Current(n, h.locks[i].id), Current(n, a.id)
        PROVE  Edge(n, h.locks[i].id, a.id)
    <3>1. i < b.next \/ a.next = Len(h.locks)
      BY <2>4, Zenon
    <3>2. i < a.next \/ i = a.next
      BY ONLY <1>3, <2>1, <3>1, i \in 1..Len(h.locks)
    <3> QED
      BY <2>3, <2>4, <3>2
  <2> QED
    BY <1>3, <1>4, <2>2, <2>4 DEF CheckedOk
<1> QED
  BY <1>5, <1>6, <1>7, <1>8 DEF ThreadOk

\* A thread that acquires nothing has no more to say than its list does.
LEMMA IdleIsFree ==
  ASSUME NEW n, NEW h, NEW own, NEW L, NullPtr \notin Ptrs,
         ListTypes(h, Idle, own), L \subseteq Ptrs, ListOk(n, h, own), KeptOk(n, h, own, L), LostOk(n, h, Idle, own, L)
  PROVE  ThreadOk(n, h, Idle, own, FALSE, L)
BY DEF ThreadOk, AcquiringOk, CheckedOk

Enters(n, a, mu, id) == IF a = Idle THEN Current(n, id) ELSE a.mu = mu /\ a.id = id
Raise(own, mu) == [own EXCEPT ![mu] = @ + 1]
Lower(own, mu) == [own EXCEPT ![mu] = @ - 1]
StillLost(own, mu, L) == IF own[mu] = 0 THEN L \ {mu} ELSE L

\* A mutex that was taken: with one more hold, and one more in the list unless it is full.
LEMMA EnterOk ==
  ASSUME NullPtr \notin Ptrs, NEW n, OnePtr(n), NEW mu \in Ptrs, NEW id, Knows(n, id, mu),
         NEW h, NEW a, NEW own, NEW L, ThreadOk(n, h, a, own, FALSE, L),
         Enters(n, a, mu, id),
         NEW g, g = LockEnter(h, mu, id), NEW own2, own2 = Raise(own, mu)
  PROVE  ThreadOk(n, g, Idle, own2, FALSE, L)
<1> USE DEF Raise, Enters
<1>1. h \in HeldSet /\ Distinct(h) /\ own \in [Ptrs -> Nat] /\ L \subseteq Ptrs /\ id \in IdSet
  BY DEF ThreadOk, ListTypes, Knows
<1>2. g \in HeldSet /\ Distinct(g) /\ Entered(g, h, mu, id)
  BY <1>1, EnterIs
<1>3. own2 \in [Ptrs -> Nat] /\ own2[mu] = own[mu] + 1 /\ \A p \in Ptrs : p # mu => own2[p] = own[p]
  BY <1>1
<1>4. \A p \in Ptrs : own[p] \in Nat /\ own2[p] \in Nat /\ own[p] =< own2[p]
  BY <1>1, <1>3
<1>5. \A l : Has(h, l) => /\ l \in LockSet /\ l.mu \in Ptrs /\ l.count \in Nat \ {0} /\ Knows(n, l.id, l.mu)
                          /\ Current(n, l.id) => l.count =< own[l.mu]
  BY <1>1, HeldAre DEF ThreadOk, ListOk, LockSet
<1>6. \A l : Has(h, l) /\ l.id = id => l.mu = mu
  <2>1. TAKE l
  <2>2. HAVE Has(h, l) /\ l.id = id
  <2>3. CASE a = Idle
    BY <1>5, <2>2, <2>3 DEF Knows, Current
  <2>4. CASE a # Idle
    BY <2>2, <2>4 DEF ThreadOk, AcquiringOk
  <2> QED
    BY <2>3, <2>4
<1>7. \A l : Has(h, l) /\ Current(n, l.id) /\ l.mu = mu /\ Current(n, id) => l.id = id
  BY <1>5, OneId
\* What is in g was in h, with one more, or is new.
<1>8. \A m : Has(g, m) => \/ Has(h, m) /\ (m.id # id \/ g.overflow)
                          \/ \E l : /\ Has(h, l) /\ l.id = id /\ l.mu = mu /\ m.id = id /\ m.mu = mu
                                    /\ m.count = l.count + 1
                          \/ m.mu = mu /\ m.id = id /\ m.count = 1 /\ Absent(h, id)
  <2>1. \A l : Has(h, l) => LET m == [l EXCEPT !.count = @ + 1] IN m.id = l.id /\ m.mu = l.mu /\ m.count = l.count + 1
    BY <1>5 DEF LockSet
  <2>2. g.overflow = TRUE /\ g.locks = h.locks => \A m : Has(g, m) => Has(h, m)
    BY DEF Has
  <2>3. TAKE m
  <2>4. HAVE Has(g, m)
  <2>5. CASE g.overflow = TRUE /\ g.locks = h.locks
    BY <2>2, <2>4, <2>5
  <2>6. CASE ~(g.overflow = TRUE /\ g.locks = h.locks)
    <3>1. CASE Absent(h, id)
      <4>1. Has(h, m) \/ m = [mu |-> mu, count |-> 1, id |-> id]
        BY <1>2, <2>4, <2>6, <3>1 DEF Entered, Absent
      <4> QED
        BY <3>1, <4>1 DEF Absent
    <3>2. CASE ~Absent(h, id)
      <4>1. PICK l : Has(h, l) /\ l.id = id /\ ((Has(h, m) /\ m.id # id) \/ m = [l EXCEPT !.count = @ + 1])
        BY <1>2, <2>4, <2>6, <3>2 DEF Entered
      <4> QED
        BY <1>6, <2>1, <4>1
    <3> QED
      BY <3>1, <3>2
  <2> QED
    BY <2>5, <2>6
\* What was in h is still there, maybe with one more.
<1>9. \A l : Has(h, l) => \E m : Has(g, m) /\ m.id = l.id /\ m.mu = l.mu
  <2>1. TAKE l
  <2>2. HAVE Has(h, l)
  <2>3. CASE Absent(h, id)
    <3>1. g.locks = h.locks => Has(g, l)
      BY <2>2 DEF Has
    <3>2. Has(g, l)
      BY <1>2, <2>2, <2>3, <3>1 DEF Entered, Absent
    <3> QED
      BY <3>2
  <2>4. CASE ~Absent(h, id)
    <3>1. PICK k : /\ Has(h, k) /\ k.id = id
                   /\ \A m : Has(g, m) <=> (Has(h, m) /\ m.id # id) \/ m = [k EXCEPT !.count = @ + 1]
      BY <1>2, <2>4 DEF Entered
    <3>2. CASE l.id # id
      BY <2>2, <3>1, <3>2
    <3>3. CASE l.id = id
      <4>1. PICK m : m = [k EXCEPT !.count = @ + 1]
        OBVIOUS
      <4>2. m.id = k.id /\ m.mu = k.mu
        BY <1>5, <3>1, <4>1 DEF LockSet
      <4>3. Has(g, m) /\ k.mu = l.mu
        BY <1>6, <2>2, <3>1, <3>3, <4>1
      <4> QED
        BY <3>1, <3>3, <4>2, <4>3
    <3> QED
      BY <3>2, <3>3
  <2> QED
    BY <2>3, <2>4
<1>10. ~g.overflow => ~h.overflow
  BY <1>2 DEF Entered
<1>11. ListOk(n, g, own2)
  <2> SUFFICES ASSUME NEW m, Has(g, m)
      PROVE  Knows(n, m.id, m.mu) /\ (Current(n, m.id) => m.count =< own2[m.mu])
    BY DEF ListOk
  <2>1. CASE Has(h, m)
    <3>1. Knows(n, m.id, m.mu) /\ m.mu \in Ptrs /\ m.count \in Nat /\ (Current(n, m.id) => m.count =< own[m.mu])
      BY <1>5, <2>1
    <3>2. own[m.mu] \in Nat /\ own2[m.mu] \in Nat /\ own[m.mu] =< own2[m.mu]
      BY <1>4, <3>1
    <3> QED
      BY ONLY <3>1, <3>2
  <2>2. ASSUME NEW l, Has(h, l), l.id = id, l.mu = mu, m.id = id, m.mu = mu, m.count = l.count + 1
        PROVE  Knows(n, m.id, m.mu) /\ (Current(n, m.id) => m.count =< own2[m.mu])
    <3>1. Current(n, m.id) => l.count =< own[mu]
      BY <1>5, <2>2
    <3>2. l.count \in Nat /\ own[mu] \in Nat /\ own2[mu] = own[mu] + 1
      BY <1>3, <1>4, <1>5, <2>2
    <3>3. Current(n, m.id) => m.count =< own2[m.mu]
      BY <2>2, <3>1, <3>2
    <3> QED
      BY <2>2, <3>3
  <2>3. CASE m.mu = mu /\ m.id = id /\ m.count = 1
    BY <1>3, <1>4, <2>3
  <2> QED
    BY <1>8, <2>1, <2>2, <2>3
<1>12. LostOk(n, g, Idle, own2, L)
  <2> SUFFICES ASSUME NEW p \in L
      PROVE  own2[p] > 0 /\ (~g.overflow => \E l : Has(g, l) /\ l.mu = p /\ ~Current(n, l.id))
    BY DEF LostOk
  <2>1. p \in Ptrs /\ own[p] \in Nat /\ own[mu] \in Nat /\ (p # mu => own2[p] = own[p]) /\ own2[mu] = own[mu] + 1
    BY <1>1, <1>3
  <2>2. CASE own[p] > 0
    <3>1. ~h.overflow => \E l : Has(h, l) /\ l.mu = p /\ ~Current(n, l.id)
      BY <2>2 DEF ThreadOk, LostOk
    <3>2. \A l, m : m.id = l.id /\ ~Current(n, l.id) => ~Current(n, m.id)
      BY DEF Current
    <3>3. ~g.overflow => \E l : Has(g, l) /\ l.mu = p /\ ~Current(n, l.id)
      BY <1>9, <1>10, <3>1, <3>2
    <3>4. own2[p] > 0
      BY <2>1, <2>2
    <3> QED
      BY <3>3, <3>4
  <2>3. CASE own[p] = 0
    <3>1. p = mu /\ a.id = id /\ ~Current(n, id)
      BY <2>3 DEF ThreadOk, LostOk
    <3>2. (\E m : Has(g, m) /\ m.id = id /\ m.mu = mu) \/ g.overflow
      <4>1. CASE Absent(h, id)
        <5>1. PICK m : m = [mu |-> mu, count |-> 1, id |-> id]
          OBVIOUS
        <5>2. m.id = id /\ m.mu = mu
          BY <5>1
        <5>3. Has(g, m) \/ g.overflow
          BY <1>2, <4>1, <5>1 DEF Entered, Absent
        <5> QED
          BY <5>2, <5>3
      <4>2. CASE ~Absent(h, id)
        BY <1>6, <1>9, <4>2 DEF Absent
      <4> QED
        BY <4>1, <4>2
    <3>3. own2[p] > 0
      BY <2>1, <2>3, <3>1
    <3>4. \A m : m.id = id => ~Current(n, m.id)
      BY <3>1
    <3> QED
      BY <3>1, <3>2, <3>3, <3>4
  <2> QED
    BY <2>1, <2>2, <2>3
<1>13. KeptOk(n, g, own2, L)
  <2> SUFFICES ASSUME ~g.overflow, NEW p \in Ptrs \ L
      PROVE  /\ own2[p] > 0 => \E l : Has(g, l) /\ l.mu = p /\ Current(n, l.id)
             /\ \A l : Has(g, l) /\ l.mu = p /\ Current(n, l.id) => l.count = own2[p]
    BY DEF KeptOk
  <2>1. /\ own[p] > 0 => \E l : Has(h, l) /\ l.mu = p /\ Current(n, l.id)
        /\ \A l : Has(h, l) /\ l.mu = p /\ Current(n, l.id) => l.count = own[p]
    BY <1>10 DEF ThreadOk, KeptOk
  <2>2. CASE p # mu
    <3>1. own2[p] = own[p]
      BY <1>3, <2>2
    <3>2. \A l, m : m.id = l.id /\ Current(n, l.id) => Current(n, m.id)
      BY DEF Current
    <3>3. own2[p] > 0 => \E l : Has(g, l) /\ l.mu = p /\ Current(n, l.id)
      BY <1>9, <2>1, <3>1, <3>2
    <3>4. \A l : Has(g, l) /\ l.mu = p => Has(h, l)
      BY <1>8, <2>2
    <3> QED
      BY <2>1, <3>1, <3>3, <3>4
  <2>3. CASE p = mu
    <3>1. Current(n, id)
      <4>1. CASE a = Idle
        BY <4>1
      <4>2. CASE a # Idle
        BY <2>3, <4>2 DEF ThreadOk, AcquiringOk
      <4> QED
        BY <4>1, <4>2
    <3>2. \A m : Has(g, m) /\ m.mu = mu /\ Current(n, m.id) => m.count = own2[mu]
      <4>1. TAKE m
      <4>2. HAVE Has(g, m) /\ m.mu = mu /\ Current(n, m.id)
      <4>3. ~(Has(h, m) /\ m.id # id)
        BY <1>7, <3>1, <4>2
      <4>4. ASSUME NEW l, Has(h, l), l.id = id, l.mu = mu, m.count = l.count + 1 PROVE m.count = own2[mu]
        <5>1. l.count = own[mu]
          BY <2>1, <2>3, <3>1, <4>4
        <5> QED
          BY <1>3, <4>4, <5>1
      <4>5. ASSUME m.count = 1, Absent(h, id) PROVE m.count = own2[mu]
        <5>1. ~(own[mu] > 0)
          BY <1>7, <2>1, <2>3, <3>1, <4>5 DEF Absent
        <5>2. own[mu] = 0
          BY <1>4, <5>1
        <5> QED
          BY <1>3, <4>5, <5>2
      <4> QED
        BY <1>8, <4>2, <4>3, <4>4, <4>5
    <3>3. \E m : Has(g, m) /\ m.mu = mu /\ Current(n, m.id)
      <4>1. CASE Absent(h, id)
        <5>1. PICK m : m = [mu |-> mu, count |-> 1, id |-> id]
          OBVIOUS
        <5>2. m.id = id /\ m.mu = mu
          BY <5>1
        <5>3. Has(g, m)
          BY <1>2, <4>1, <5>1 DEF Entered, Absent
        <5> QED
          BY <3>1, <5>2, <5>3
      <4>2. CASE ~Absent(h, id)
        <5>1. \E m : Has(g, m) /\ m.id = id /\ m.mu = mu
          BY <1>6, <1>9, <4>2 DEF Absent
        <5> QED
          BY <3>1, <5>1
      <4> QED
        BY <4>1, <4>2
    <3> QED
      BY <2>3, <3>2, <3>3
  <2> QED
    BY <2>2, <2>3
<1>14. ListTypes(g, Idle, own2)
  BY <1>2, <1>3 DEF ListTypes
<1> QED
  BY <1>1, <1>11, <1>12, <1>13, <1>14, IdleIsFree

\* A mutex that is released: with one hold less, and one less in the list; and LockLeave
\* finds it there, or finds it lost, and so has no fault to report.
LEMMA LeaveOk ==
  ASSUME NullPtr \notin Ptrs, NEW n, OnePtr(n), NEW mu \in Ptrs, NEW id, Knows(n, id, mu), Current(n, id),
         NEW h, NEW own, NEW L, ThreadOk(n, h, Idle, own, FALSE, L), own[mu] > 0,
         NEW g, g = LockLeave(h, id), NEW own2, own2 = Lower(own, mu),
         NEW L2, L2 = StillLost(own2, mu, L)
  PROVE  ThreadOk(n, g, Idle, own2, FALSE, L2) /\ ~Unheld(h, mu, id)
<1> USE DEF Lower, StillLost
<1>1. h \in HeldSet /\ Distinct(h) /\ own \in [Ptrs -> Nat] /\ L \subseteq Ptrs /\ id \in IdSet
  BY DEF ThreadOk, ListTypes, Knows
<1>2. g \in HeldSet /\ Distinct(g) /\ Left(g, h, id)
  BY <1>1, LeaveIs
<1>3. own[mu] \in Nat \ {0} /\ own[mu] - 1 \in Nat
  BY <1>1
<1>4. own2 \in [Ptrs -> Nat] /\ own2[mu] = own[mu] - 1 /\ \A p \in Ptrs : p # mu => own2[p] = own[p]
  BY <1>1, <1>3
<1>5. \A l : Has(h, l) => /\ l \in LockSet /\ l.mu \in Ptrs /\ l.count \in Nat \ {0} /\ Knows(n, l.id, l.mu)
                          /\ Current(n, l.id) => l.count =< own[l.mu]
  BY <1>1, HeldAre DEF ThreadOk, ListOk, LockSet
<1>6. \A l : Has(h, l) /\ l.id = id => l.mu = mu /\ Current(n, l.id)
  BY <1>5 DEF Knows, Current
<1>7. \A l : Has(h, l) /\ Current(n, l.id) /\ l.mu = mu => l.id = id
  BY <1>5, OneId
<1>8. h.overflow = g.overflow
  BY <1>2 DEF Left
<1>9. \A l : Has(h, l) => LET m == [l EXCEPT !.count = @ - 1] IN m.id = l.id /\ m.mu = l.mu /\ m.count = l.count - 1
  BY <1>5 DEF LockSet
\* What is in g was in h, for another id or with one more.
<1>10. \A m : Has(g, m) => \/ Has(h, m) /\ m.id # id
                           \/ m.mu = mu /\ m.id = id /\ \E l : Has(h, l) /\ l.id = id /\ l.count > 1 /\ m.count = l.count - 1
  <2>1. TAKE m
  <2>2. HAVE Has(g, m)
  <2>3. CASE Absent(h, id)
    BY <1>2, <2>2, <2>3 DEF Left, Absent
  <2>4. CASE ~Absent(h, id)
    <3>1. PICK l : /\ Has(h, l) /\ l.id = id
                   /\ (Has(h, m) /\ m.id # id) \/ (l.count > 1 /\ m = [l EXCEPT !.count = @ - 1])
      BY <1>2, <2>2, <2>4 DEF Left
    <3> QED
      BY <1>6, <1>9, <3>1
  <2> QED
    BY <2>3, <2>4
<1>11. \A m : Has(h, m) /\ m.id # id => Has(g, m)
  BY <1>2 DEF Left, Absent
<1>12. ListOk(n, g, own2)
  <2> SUFFICES ASSUME NEW m, Has(g, m)
      PROVE  Knows(n, m.id, m.mu) /\ (Current(n, m.id) => m.count =< own2[m.mu])
    BY DEF ListOk
  <2>1. CASE Has(h, m) /\ m.id # id
    <3>1. Current(n, m.id) => m.mu # mu /\ m.mu \in Ptrs /\ m.count =< own[m.mu]
      BY <1>5, <1>7, <2>1
    <3>2. Current(n, m.id) => m.count =< own2[m.mu]
      BY <1>4, <3>1
    <3> QED
      BY <1>5, <2>1, <3>2
  <2>2. ASSUME NEW l, Has(h, l), l.id = id, m.count = l.count - 1, m.mu = mu, m.id = id
        PROVE  Knows(n, m.id, m.mu) /\ (Current(n, m.id) => m.count =< own2[m.mu])
    <3>1. l.mu = mu /\ l.count =< own[mu] /\ l.count \in Nat
      BY <1>5, <1>6, <2>2
    <3>2. m.count =< own2[mu]
      BY <1>3, <1>4, <2>2, <3>1
    <3> QED
      BY <2>2, <3>2
  <2> QED
    BY <1>10, <2>1, <2>2
<1>13. LostOk(n, g, Idle, own2, L2)
  <2> SUFFICES ASSUME NEW p \in L2
      PROVE  own2[p] > 0 /\ (~g.overflow => \E l : Has(g, l) /\ l.mu = p /\ ~Current(n, l.id))
    BY DEF LostOk
  <2>1. p \in L /\ p \in Ptrs /\ (p = mu => own2[mu] # 0)
    BY <1>1
  <2>2. own[p] > 0 /\ (~h.overflow => \E l : Has(h, l) /\ l.mu = p /\ ~Current(n, l.id))
    <3>1. own[p] # 0
      BY <2>1 DEF ThreadOk, LostOk
    <3>2. own[p] > 0
      BY <1>1, <2>1, <3>1
    <3> QED
      BY <2>1, <3>2 DEF ThreadOk, LostOk
  <2>3. own2[p] > 0
    <3>1. CASE p = mu
      BY <1>3, <1>4, <2>1, <3>1
    <3>2. CASE p # mu
      BY <1>4, <2>1, <2>2, <3>2
    <3> QED
      BY <3>1, <3>2
  <2>4. \A l : Has(h, l) /\ ~Current(n, l.id) => Has(g, l)
    BY <1>6, <1>11
  <2> QED
    BY <1>8, <2>2, <2>3, <2>4
<1>14. KeptOk(n, g, own2, L2)
  <2> SUFFICES ASSUME ~g.overflow, NEW p \in Ptrs \ L2
      PROVE  /\ own2[p] > 0 => \E l : Has(g, l) /\ l.mu = p /\ Current(n, l.id)
             /\ \A l : Has(g, l) /\ l.mu = p /\ Current(n, l.id) => l.count = own2[p]
    BY DEF KeptOk
  <2>1. p \in Ptrs \ L => /\ own[p] > 0 => \E l : Has(h, l) /\ l.mu = p /\ Current(n, l.id)
                          /\ \A l : Has(h, l) /\ l.mu = p /\ Current(n, l.id) => l.count = own[p]
    BY <1>8 DEF ThreadOk, KeptOk
  <2>2. CASE p # mu
    <3>1. own2[p] = own[p] /\ p \in Ptrs \ L
      BY <1>4, <2>2
    <3>2. \A l : l.mu = p => (Has(g, l) <=> Has(h, l))
      BY <1>6, <1>10, <1>11, <2>2
    <3> QED
      BY <2>1, <3>1, <3>2
  <2>3. CASE p = mu /\ own2[mu] = 0
    <3>1. own[mu] = 1
      BY <1>3, <1>4, <2>3
    <3>2. \A l : Has(h, l) /\ l.id = id => ~(l.count > 1)
      BY <1>5, <1>6, <3>1
    <3>3. \A l : ~(Has(g, l) /\ l.mu = mu /\ Current(n, l.id))
      BY <1>7, <1>10, <3>2
    <3>4. ~(own2[p] > 0)
      BY <2>3
    <3> QED
      BY <2>3, <3>3, <3>4
  <2>4. CASE p = mu /\ own2[mu] # 0
    <3>1. p \in Ptrs \ L
      BY <2>4
    <3>2. PICK l : Has(h, l) /\ l.mu = mu /\ Current(n, l.id)
      BY <2>1, <2>4, <3>1
    <3>3. l.id = id /\ l.count = own[mu]
      BY <1>7, <2>1, <2>4, <3>1, <3>2
    <3>4. l.count > 1
      BY <1>3, <1>4, <2>4, <3>3
    <3>5. ~Absent(h, id)
      BY <3>2, <3>3 DEF Absent
    <3>6. \A k : Has(h, k) /\ k.id = id => k.count = own[mu] /\ k.mu = mu
      BY <1>6, <2>1, <2>4, <3>1
    <3>7. PICK k : Has(h, k) /\ k.id = id /\ Has(g, [k EXCEPT !.count = @ - 1])
      <4>1. PICK k : /\ Has(h, k) /\ k.id = id
                     /\ (k.count = 1 \/ \A m : Has(g, m) <=> (Has(h, m) /\ m.id # id) \/ m = [k EXCEPT !.count = @ - 1])
        BY <1>2, <3>5 DEF Left
      <4>2. k.count # 1
        BY <3>3, <3>4, <3>6, <4>1
      <4> QED
        BY <4>1, <4>2
    <3>8. PICK m : m = [k EXCEPT !.count = @ - 1]
      OBVIOUS
    <3>9. Has(g, m) /\ m.id = id /\ m.mu = mu
      BY <1>9, <3>6, <3>7, <3>8
    <3>10. \A q : Has(g, q) /\ q.mu = mu /\ Current(n, q.id) => q.count = own2[mu]
      BY <1>4, <1>7, <1>10, <3>6
    <3> QED
      BY <2>4, <3>9, <3>10
  <2> QED
    BY <2>2, <2>3, <2>4
<1>15. ~Unheld(h, mu, id)
  <2>1. ~h.overflow => \E l : Has(h, l) /\ l.mu = mu
    BY <1>1, <1>3 DEF ThreadOk, LostOk, KeptOk
  <2> QED
    BY <2>1 DEF Unheld, Has
<1>16. ListTypes(g, Idle, own2) /\ L2 \subseteq Ptrs
  BY <1>1, <1>2, <1>4 DEF ListTypes
<1>17. ThreadOk(n, g, Idle, own2, FALSE, L2)
  BY <1>12, <1>13, <1>14, <1>16, IdleIsFree
<1> QED
  BY <1>15, <1>17

-----------------------------------------------------------------------------
(* The invariant of the detector.                                          *)

Lost(t) == {mu \in Ptrs : <<t, mu>> \in lost}

DetectorTypes ==
  /\ all_locks \in [Threads -> HeldSet] /\ acquiring \in [Threads -> AcquisitionSet \cup {Idle}]
  /\ holds \in [Threads -> [Ptrs -> Nat]] /\ died = FALSE

ThreadsOk == \A t \in Threads : ThreadOk(nodes_, all_locks[t], acquiring[t], holds[t], graph_mu = t, Lost(t))

DetectorInv == GraphInv /\ DetectorTypes /\ ThreadsOk

\* One thread makes a step.
Steps(t, h, a, own, checking, L) ==
  /\ all_locks' = [all_locks EXCEPT ![t] = h] /\ acquiring' = [acquiring EXCEPT ![t] = a]
  /\ holds' = [holds EXCEPT ![t] = own] /\ died' = FALSE
  /\ (graph_mu' = t) = checking /\ Lost(t)' = L
  /\ \A s \in Threads \ {t} : (graph_mu' = s) = (graph_mu = s) /\ Lost(s)' = Lost(s)

\* A step of one thread on a graph that grows: the others are as they were.
LEMMA StepsKeeps ==
  ASSUME DeadlockDetectorAssumption, DetectorInv, GraphInv', Grows(nodes_, nodes_'), NEW t \in Threads,
         NEW h, NEW a, NEW own, NEW checking, NEW L, Steps(t, h, a, own, checking, L),
         ThreadOk(nodes_', h, a, own, checking, L)
  PROVE  DetectorInv'
<1>1. /\ NullPtr \notin Ptrs
      /\ all_locks \in [Threads -> HeldSet] /\ acquiring \in [Threads -> AcquisitionSet \cup {Idle}]
      /\ holds \in [Threads -> [Ptrs -> Nat]]
  BY DEF DeadlockDetectorAssumption, GraphCyclesAssumption, DetectorInv, DetectorTypes
<1>2. h \in HeldSet /\ a \in AcquisitionSet \cup {Idle} /\ own \in [Ptrs -> Nat]
  BY DEF ThreadOk, ListTypes
<1>3. DetectorTypes'
  BY <1>1, <1>2 DEF Steps, DetectorTypes
<1>4. ASSUME NEW s \in Threads
      PROVE  ThreadOk(nodes_', all_locks'[s], acquiring'[s], holds'[s], graph_mu' = s, Lost(s)')
  <2>1. CASE s = t
    <3>1. all_locks'[s] = h /\ acquiring'[s] = a /\ holds'[s] = own /\ (graph_mu' = s) = checking /\ Lost(s)' = L
      BY <1>1, <2>1 DEF Steps
    <3> QED
      BY <3>1
  <2>2. CASE s # t
    <3>1. all_locks'[s] = all_locks[s] /\ acquiring'[s] = acquiring[s] /\ holds'[s] = holds[s]
          /\ (graph_mu' = s) = (graph_mu = s) /\ Lost(s)' = Lost(s)
      BY <1>1, <2>2 DEF Steps
    <3>2. ThreadOk(nodes_, all_locks[s], acquiring[s], holds[s], graph_mu = s, Lost(s))
      BY DEF DetectorInv, ThreadsOk
    <3>3. ThreadOk(nodes_', all_locks[s], acquiring[s], holds[s], graph_mu = s, Lost(s))
      BY <1>1, <3>2, GrowsOk
    <3> QED
      BY <3>1, <3>3
  <2> QED
    BY <2>1, <2>2
<1> QED
  BY <1>3, <1>4 DEF DetectorInv, ThreadsOk

\* What the operations of the graph keep, in terms of the sequence of nodes.
LEMMA GraphGrows ==
  ASSUME GraphInv, GraphInv', KeepsIds, \A x \in Indices : Out(x) \subseteq Out(x)'
  PROVE  Grows(nodes_, nodes_')
<1>1. \A x \in 1..Len(nodes_) : x - 1 \in Indices /\ nodes_[x] = Node(x - 1) /\ (x - 1) + 1 = x
  BY NodesAre DEF GraphInv
<1>2. ASSUME NEW x \in 1..Len(nodes_)
      PROVE  /\ x \in 1..Len(nodes_') /\ nodes_'[x].version = nodes_[x].version
             /\ nodes_[x].ptr # NullPtr => nodes_'[x].ptr = nodes_[x].ptr
             /\ nodes_[x].out \subseteq nodes_'[x].out
  <2>1. PICK y : y = x - 1
    OBVIOUS
  <2>2. y \in Indices /\ x = y + 1 /\ y \in Indices'
    BY <1>1, <2>1 DEF KeepsIds
  <2>3. Node(y)'.version = Node(y).version /\ (Node(y).ptr # NullPtr => Node(y)'.ptr = Node(y).ptr) /\ Out(y) \subseteq Out(y)'
    BY <2>2 DEF KeepsIds
  <2>4. Node(y) = nodes_[x] /\ Node(y)' = nodes_'[x]
    BY <2>2 DEF Node
  <2>5. x \in 1..Len(nodes_')
    BY <2>2 DEF Indices
  <2> QED
    BY <2>3, <2>4, <2>5 DEF Out
<1>3. Len(nodes_) \in Nat /\ Len(nodes_') \in Nat
  BY DEF GraphInv, GraphTypes
<1>4. Len(nodes_) =< Len(nodes_')
  <2>1. CASE Len(nodes_) = 0
    BY <1>3, <2>1
  <2>2. CASE Len(nodes_) # 0
    <3>1. Len(nodes_) \in 1..Len(nodes_)
      BY <1>3, <2>2
    <3> QED
      BY <1>2, <1>3, <3>1
  <2> QED
    BY <2>1, <2>2
<1> QED
  BY <1>2, <1>3, <1>4 DEF Grows

\* No two nodes have the same pointer.
LEMMA OnePtrIs ==
  ASSUME GraphInv PROVE OnePtr(nodes_)
<1>1. \A x \in 1..Len(nodes_) : x - 1 \in Indices /\ nodes_[x] = Node(x - 1) /\ (x - 1) + 1 = x
  BY NodesAre DEF GraphInv
<1>2. \A x, y \in Indices : Node(x).ptr = Node(y).ptr /\ Node(x).ptr # NullPtr => x = y
  BY DEF GraphInv, InUse
<1> QED
  BY <1>1, <1>2 DEF OnePtr

\* The id of a mutex is current, whether it has one already or not.
LEMMA GraphIdIs ==
  ASSUME DeadlockDetectorAssumption, GraphInv, NEW mu \in Ptrs, GetGraphId(mu)
  PROVE  /\ GraphInv' /\ OnePtr(nodes_') /\ Grows(nodes_, nodes_')
         /\ Knows(nodes_', GraphId(mu), mu) /\ Current(nodes_', GraphId(mu))
<1>1. PICK i, id : i = (IF HasPtr(mu) THEN Find(mu) ELSE IF free_nodes_ = <<>> THEN Len(nodes_) ELSE Last(free_nodes_))
                   /\ id = GraphId(mu)
  OBVIOUS
<1>2. /\ GraphInv' /\ Grows(nodes_, nodes_') /\ i \in Nat /\ i + 1 \in 1..Len(nodes_') /\ nodes_'[i + 1].ptr = mu
      /\ id = [index |-> i, version |-> nodes_'[i + 1].version] /\ nodes_'[i + 1].version \in Nat
  <2>1. CASE HasPtr(mu)
    <3>1. nodes_' = nodes_ /\ UNCHANGED graph
      BY <2>1 DEF GetGraphId, graph
    <3>2. GraphInv'
      BY <3>1 DEF graph, GraphInv, GraphTypes, RanksRise, Mirrored, InUse, Indices, Node, Rank, In, Out, Contains
    <3>3. KeepsIds /\ \A x \in Indices : Out(x) \subseteq Out(x)'
      BY <3>1 DEF KeepsIds, Indices, Node, Out
    <3>4. i = Find(mu) /\ i \in Indices /\ Node(i).ptr = mu
      BY <1>1, <2>1 DEF HasPtr, Find
    <3>5. i \in Nat /\ i + 1 \in 1..Len(nodes_) /\ Node(i) = nodes_[i + 1] /\ Node(i) \in NodeSet
      BY <3>4, NodesAre DEF GraphInv
    <3>6. id = [index |-> i, version |-> Node(i).version]
      BY <1>1, <2>1, <3>4 DEF GraphId, Id
    <3> QED
      BY <3>1, <3>2, <3>3, <3>4, <3>5, <3>6, GraphGrows DEF NodeSet
  <2>2. CASE ~HasPtr(mu)
    <3>1. GetId(mu) /\ GraphCyclesAssumption /\ nodes_' = NewNodes(mu)
      BY <2>2 DEF GetGraphId, GetId, DeadlockDetectorAssumption
    <3>2. GraphInv' /\ KeepsIds /\ \A x \in Indices : Out(x)' = Out(x)
      BY <3>1, GetIdKeeps
    <3>3. PICK j \in Nat : Given(mu, j)
      BY <3>1, GetIdIs
    <3>4. i = j
      BY <1>1, <2>2, <3>3 DEF Given
    <3>5. i \in Indices' /\ Node(i)'.ptr = mu
      BY <3>3, <3>4 DEF Given
    <3>6. i + 1 \in 1..Len(nodes_') /\ Node(i)' = nodes_'[i + 1]
      BY <3>3, <3>4, <3>5 DEF Indices, Node
    <3>7. nodes_'[i + 1].version \in Nat
      BY <3>3, <3>4, <3>6 DEF Given
    <3>8. id = [index |-> i, version |-> nodes_'[i + 1].version]
      BY <1>1, <2>2, <3>1 DEF GraphId
    <3>9. Grows(nodes_, nodes_')
      BY <3>2, GraphGrows
    <3> QED
      BY <3>2, <3>3, <3>4, <3>5, <3>6, <3>7, <3>8, <3>9
  <2> QED
    BY <2>1, <2>2
<1>3. OnePtr(nodes_')
  <2>1. \A x, y \in Indices' : Node(x)'.ptr = Node(y)'.ptr /\ Node(x)'.ptr # NullPtr => x = y
    BY <1>2 DEF GraphInv, InUse
  <2>2. Len(nodes_') \in Nat
    BY <1>2 DEF GraphInv, GraphTypes
  <2>3. \A x \in 1..Len(nodes_') : x - 1 \in Indices' /\ nodes_'[x] = Node(x - 1)' /\ (x - 1) + 1 = x
    BY <2>2 DEF Indices, Node
  <2> QED
    BY <2>1, <2>3 DEF OnePtr
<1>4. Knows(nodes_', id, mu) /\ Current(nodes_', id)
  BY <1>2 DEF Knows, Current, IdSet
<1> QED
  BY <1>1, <1>2, <1>3, <1>4

\* What the invariant says of a thread.
LEMMA ThreadIs ==
  ASSUME DeadlockDetectorAssumption, DetectorInv, NEW t \in Threads
  PROVE  /\ NullPtr \notin Ptrs /\ NoThread \notin Threads /\ t # NoThread /\ GraphInv /\ died = FALSE
         /\ all_locks[t] \in HeldSet /\ acquiring[t] \in AcquisitionSet \cup {Idle} /\ holds[t] \in [Ptrs -> Nat]
         /\ ThreadOk(nodes_, all_locks[t], acquiring[t], holds[t], graph_mu = t, Lost(t))
BY DEF DeadlockDetectorAssumption, GraphCyclesAssumption, DetectorInv, DetectorTypes, ThreadsOk

\* What a step leaves alone.
LEMMA Unchanged ==
  ASSUME DetectorInv, NEW t \in Threads
  PROVE  /\ all_locks = [all_locks EXCEPT ![t] = all_locks[t]]
         /\ acquiring = [acquiring EXCEPT ![t] = acquiring[t]]
         /\ holds = [holds EXCEPT ![t] = holds[t]]
         /\ lost' = lost => \A s \in Threads : Lost(s)' = Lost(s)
<1>1. /\ all_locks \in [Threads -> HeldSet] /\ acquiring \in [Threads -> AcquisitionSet \cup {Idle}]
      /\ holds \in [Threads -> [Ptrs -> Nat]]
  BY DEF DetectorInv, DetectorTypes
<1>2. lost' = lost => \A s \in Threads : Lost(s)' = Lost(s)
  BY DEF Lost
<1> QED
  BY <1>1, <1>2

\* A graph that does not change.
LEMMA GraphUnchanged ==
  ASSUME GraphInv, UNCHANGED graph
  PROVE  GraphInv' /\ Grows(nodes_, nodes_') /\ OnePtr(nodes_') /\ nodes_' = nodes_
<1>1. nodes_' = nodes_ /\ free_nodes_' = free_nodes_ /\ res' = res
  BY DEF graph
<1>2. GraphInv'
  BY <1>1 DEF GraphInv, GraphTypes, RanksRise, Mirrored, InUse, Indices, Node, Rank, In, Out, Contains
<1>3. KeepsIds /\ \A x \in Indices : Out(x) \subseteq Out(x)'
  BY <1>1 DEF KeepsIds, Indices, Node, Out
<1> QED
  BY <1>1, <1>2, <1>3, GraphGrows, OnePtrIs

\* Lock and ReaderLock, up to the id, keep the invariant.
LEMMA StartCheckKeeps ==
  ASSUME DeadlockDetectorAssumption, DetectorInv, NEW t \in Threads, NEW mu \in Ptrs, NEW shared \in Modes,
         StartCheck(t, mu, shared)
  PROVE  DetectorInv'
<1>1. /\ NullPtr \notin Ptrs /\ NoThread \notin Threads /\ t # NoThread /\ GraphInv /\ died = FALSE
      /\ ThreadOk(nodes_, all_locks[t], acquiring[t], holds[t], graph_mu = t, Lost(t))
  BY ThreadIs
<1>2. PICK id, a, checking : /\ id = GraphId(mu)
                             /\ a = [mu |-> mu, shared |-> shared, id |-> id, next |-> 1, reported |-> FALSE]
                             /\ checking = (all_locks[t].locks # <<>>)
  OBVIOUS
<1>3. /\ acquiring[t] = Idle /\ graph_mu = NoThread /\ GetGraphId(mu)
      /\ acquiring' = [acquiring EXCEPT ![t] = a]
      /\ graph_mu' = (IF all_locks[t].locks = <<>> THEN NoThread ELSE t)
      /\ holds' = holds /\ all_locks' = all_locks /\ lost' = lost /\ died' = died
  BY <1>2 DEF StartCheck, mutexes
<1>4. /\ GraphInv' /\ Grows(nodes_, nodes_')
      /\ Knows(nodes_', id, mu) /\ Current(nodes_', id)
  BY <1>1, <1>2, <1>3, GraphIdIs
<1>5. (graph_mu = t) = FALSE
  BY <1>1, <1>3
<1>6. ThreadOk(nodes_, all_locks[t], Idle, holds[t], FALSE, Lost(t))
  BY <1>1, <1>3, <1>5
<1>7. ThreadOk(nodes_', all_locks[t], Idle, holds[t], FALSE, Lost(t))
  BY <1>1, <1>4, <1>6, GrowsOk
<1>8. shared \in BOOLEAN
  BY DEF DeadlockDetectorAssumption
<1>9. ThreadOk(nodes_', all_locks[t], a, holds[t], checking, Lost(t))
  BY <1>1, <1>2, <1>4, <1>7, <1>8, StartOk
<1>10. (graph_mu' = t) = checking /\ \A s \in Threads \ {t} : (graph_mu' = s) = (graph_mu = s)
  BY <1>1, <1>2, <1>3
<1>11. Steps(t, all_locks[t], a, holds[t], checking, Lost(t))
  BY <1>1, <1>3, <1>10, Unchanged DEF Steps
<1> QED
  BY <1>4, <1>9, <1>11, StepsKeeps

\* Lock and ReaderLock, when the mutex is taken.
LEMMA AcquireKeeps ==
  ASSUME DeadlockDetectorAssumption, DetectorInv, NEW t \in Threads, Acquire(t)
  PROVE  DetectorInv'
<1>1. /\ NullPtr \notin Ptrs /\ NoThread \notin Threads /\ t # NoThread /\ GraphInv /\ died = FALSE
      /\ acquiring[t] \in AcquisitionSet \cup {Idle} /\ holds \in [Threads -> [Ptrs -> Nat]]
      /\ ThreadOk(nodes_, all_locks[t], acquiring[t], holds[t], graph_mu = t, Lost(t))
  BY ThreadIs DEF DetectorInv, DetectorTypes
<1>2. PICK a, g, own : /\ a = acquiring[t] /\ g = LockEnter(all_locks[t], a.mu, a.id)
                       /\ own = Raise(holds[t], a.mu)
  OBVIOUS
<1>3. /\ a # Idle /\ graph_mu # t
      /\ holds' = [holds EXCEPT ![t][a.mu] = @ + 1] /\ all_locks' = [all_locks EXCEPT ![t] = g]
      /\ acquiring' = [acquiring EXCEPT ![t] = Idle]
      /\ UNCHANGED graph /\ graph_mu' = graph_mu /\ lost' = lost /\ died' = died
  BY <1>2 DEF Acquire, Take
<1>4. holds' = [holds EXCEPT ![t] = own]
  BY <1>1, <1>2, <1>3 DEF Raise
<1>5. GraphInv' /\ Grows(nodes_, nodes_') /\ OnePtr(nodes_') /\ nodes_' = nodes_
  BY <1>1, <1>3, GraphUnchanged
<1>6. ThreadOk(nodes_', all_locks[t], a, holds[t], FALSE, Lost(t))
  <2>1. (graph_mu = t) = FALSE
    BY <1>3
  <2> QED
    BY <1>1, <1>2, <1>5, <2>1
<1>7. a.mu \in Ptrs /\ Knows(nodes_', a.id, a.mu)
  <2>1. a.mu \in Ptrs
    BY <1>1, <1>2, <1>3, AcquisitionsAre
  <2>2. AcquiringOk(nodes_', all_locks[t], a, Lost(t))
    BY <1>6 DEF ThreadOk
  <2> QED
    BY <1>3, <2>1, <2>2 DEF AcquiringOk
<1>8. ThreadOk(nodes_', g, Idle, own, FALSE, Lost(t))
  <2>1. Enters(nodes_', a, a.mu, a.id)
    BY <1>3 DEF Enters
  <2> QED
    BY <1>1, <1>2, <1>5, <1>6, <1>7, <2>1, EnterOk
<1>9. (graph_mu' = t) = FALSE /\ \A s \in Threads \ {t} : (graph_mu' = s) = (graph_mu = s)
  BY <1>3
<1>10. Steps(t, g, Idle, own, FALSE, Lost(t))
  BY <1>1, <1>3, <1>4, <1>9, Unchanged DEF Steps
<1> QED
  BY <1>5, <1>8, <1>10, StepsKeeps

\* TryLock and ReaderTryLock.
LEMMA TryLockKeeps ==
  ASSUME DeadlockDetectorAssumption, DetectorInv, NEW t \in Threads, NEW mu \in Ptrs, NEW shared, TryLock(t, mu, shared)
  PROVE  DetectorInv'
<1>1. /\ NullPtr \notin Ptrs /\ NoThread \notin Threads /\ t # NoThread /\ GraphInv /\ died = FALSE
      /\ holds \in [Threads -> [Ptrs -> Nat]]
      /\ ThreadOk(nodes_, all_locks[t], acquiring[t], holds[t], graph_mu = t, Lost(t))
  BY ThreadIs DEF DetectorInv, DetectorTypes
<1>2. PICK id, g, own : /\ id = GraphId(mu) /\ g = LockEnter(all_locks[t], mu, id)
                        /\ own = Raise(holds[t], mu)
  OBVIOUS
<1>3. /\ acquiring[t] = Idle /\ graph_mu = NoThread /\ GetGraphId(mu)
      /\ holds' = [holds EXCEPT ![t][mu] = @ + 1] /\ all_locks' = [all_locks EXCEPT ![t] = g]
      /\ acquiring' = acquiring /\ graph_mu' = graph_mu /\ lost' = lost /\ died' = died
  BY <1>2 DEF TryLock, Take
<1>4. holds' = [holds EXCEPT ![t] = own]
  BY <1>1, <1>2, <1>3 DEF Raise
<1>5. /\ GraphInv' /\ OnePtr(nodes_') /\ Grows(nodes_, nodes_')
      /\ Knows(nodes_', id, mu) /\ Current(nodes_', id)
  BY <1>1, <1>2, <1>3, GraphIdIs
<1>6. ThreadOk(nodes_, all_locks[t], Idle, holds[t], FALSE, Lost(t))
  <2>1. (graph_mu = t) = FALSE
    BY <1>1, <1>3
  <2> QED
    BY <1>1, <1>3, <2>1
<1>7. ThreadOk(nodes_', all_locks[t], Idle, holds[t], FALSE, Lost(t))
  BY <1>1, <1>5, <1>6, GrowsOk
<1>8. ThreadOk(nodes_', g, Idle, own, FALSE, Lost(t))
  <2>1. PICK h, own0, L, a, n : h = all_locks[t] /\ own0 = holds[t] /\ L = Lost(t) /\ a = Idle /\ n = nodes_'
    OBVIOUS
  <2>2. NullPtr \notin Ptrs /\ OnePtr(n) /\ Knows(n, id, mu) /\ Current(n, id) /\ ThreadOk(n, h, a, own0, FALSE, L)
    BY <1>1, <1>5, <1>7, <2>1
  <2>3. g = LockEnter(h, mu, id) /\ own = Raise(own0, mu)
    BY <1>2, <2>1
  <2>4. Enters(n, a, mu, id)
    BY <2>1, <2>2 DEF Enters
  <2>5. ThreadOk(n, g, Idle, own, FALSE, L)
    BY ONLY mu \in Ptrs, <2>2, <2>3, <2>4, EnterOk
  <2> QED
    BY <2>1, <2>5
<1>9. (graph_mu' = t) = FALSE /\ \A s \in Threads \ {t} : (graph_mu' = s) = (graph_mu = s)
  BY <1>1, <1>3
<1>10. Steps(t, g, Idle, own, FALSE, Lost(t))
  <2>1. acquiring' = [acquiring EXCEPT ![t] = Idle] /\ \A s \in Threads : Lost(s)' = Lost(s)
    BY <1>3, Unchanged
  <2> QED
    BY <1>1, <1>3, <1>4, <1>9, <2>1 DEF Steps
<1> QED
  BY <1>5, <1>8, <1>10, StepsKeeps

\* Unlock and ReaderUnlock.
LEMMA UnlockKeeps ==
  ASSUME DeadlockDetectorAssumption, DetectorInv, NEW t \in Threads, NEW mu \in Ptrs, Unlock(t, mu)
  PROVE  DetectorInv'
<1>1. /\ NullPtr \notin Ptrs /\ NoThread \notin Threads /\ t # NoThread /\ GraphInv /\ died = FALSE
      /\ holds \in [Threads -> [Ptrs -> Nat]]
      /\ ThreadOk(nodes_, all_locks[t], acquiring[t], holds[t], graph_mu = t, Lost(t))
  BY ThreadIs DEF DetectorInv, DetectorTypes
<1>2. PICK id, g, own, L : /\ id = GraphId(mu) /\ g = LockLeave(all_locks[t], id)
                           /\ own = Lower(holds[t], mu)
                           /\ L = StillLost(own, mu, Lost(t))
  OBVIOUS
<1>3. /\ acquiring[t] = Idle /\ graph_mu = NoThread /\ holds[t][mu] > 0 /\ GetGraphId(mu)
      /\ died' = (died \/ Unheld(all_locks[t], mu, id)) /\ all_locks' = [all_locks EXCEPT ![t] = g]
      /\ holds' = [holds EXCEPT ![t][mu] = @ - 1]
      /\ lost' = (IF holds'[t][mu] = 0 THEN lost \ {<<t, mu>>} ELSE lost)
      /\ acquiring' = acquiring /\ graph_mu' = graph_mu
  BY <1>2 DEF Unlock
<1>4. holds' = [holds EXCEPT ![t] = own] /\ holds'[t][mu] = own[mu]
  BY <1>1, <1>2, <1>3 DEF Lower
<1>5. /\ GraphInv' /\ OnePtr(nodes_') /\ Grows(nodes_, nodes_')
      /\ Knows(nodes_', id, mu) /\ Current(nodes_', id)
  BY <1>1, <1>2, <1>3, GraphIdIs
<1>6. ThreadOk(nodes_, all_locks[t], Idle, holds[t], FALSE, Lost(t))
  <2>1. (graph_mu = t) = FALSE
    BY <1>1, <1>3
  <2> QED
    BY <1>1, <1>3, <2>1
<1>7. ThreadOk(nodes_', all_locks[t], Idle, holds[t], FALSE, Lost(t))
  BY <1>1, <1>5, <1>6, GrowsOk
<1>8. ThreadOk(nodes_', g, Idle, own, FALSE, L) /\ ~Unheld(all_locks[t], mu, id)
  <2>1. PICK h, own0, L0, n : h = all_locks[t] /\ own0 = holds[t] /\ L0 = Lost(t) /\ n = nodes_'
    OBVIOUS
  <2>2. /\ NullPtr \notin Ptrs /\ OnePtr(n) /\ Knows(n, id, mu) /\ Current(n, id)
        /\ ThreadOk(n, h, Idle, own0, FALSE, L0) /\ own0[mu] > 0
    BY <1>1, <1>3, <1>5, <1>7, <2>1
  <2>3. /\ g = LockLeave(h, id) /\ own = Lower(own0, mu)
        /\ L = StillLost(own, mu, L0)
    BY <1>2, <2>1
  <2>4. ThreadOk(n, g, Idle, own, FALSE, L) /\ ~Unheld(h, mu, id)
    BY ONLY mu \in Ptrs, <2>2, <2>3, LeaveOk
  <2> QED
    BY <2>1, <2>4
<1>9. (graph_mu' = t) = FALSE /\ \A s \in Threads \ {t} : (graph_mu' = s) = (graph_mu = s)
  BY <1>1, <1>3
<1>10. Lost(t)' = L /\ \A s \in Threads \ {t} : Lost(s)' = Lost(s)
  <2>1. CASE own[mu] = 0
    <3>1. lost' = lost \ {<<t, mu>>} /\ L = Lost(t) \ {mu}
      BY <1>2, <1>3, <1>4, <2>1 DEF StillLost
    <3>2. \A s \in Threads : \A p \in Ptrs : <<s, p>> = <<t, mu>> <=> s = t /\ p = mu
      OBVIOUS
    <3> QED
      BY <3>1, <3>2 DEF Lost
  <2>2. CASE own[mu] # 0
    <3>1. lost' = lost /\ L = Lost(t)
      BY <1>2, <1>3, <1>4, <2>2 DEF StillLost
    <3> QED
      BY <3>1 DEF Lost
  <2> QED
    BY <2>1, <2>2
<1>11. died' = FALSE
  BY <1>1, <1>3, <1>8
<1>12. Steps(t, g, Idle, own, FALSE, L)
  <2>1. acquiring' = [acquiring EXCEPT ![t] = Idle]
    BY <1>3, Unchanged
  <2> QED
    BY <1>3, <1>4, <1>9, <1>10, <1>11, <2>1 DEF Steps
<1> QED
  BY <1>5, <1>8, <1>12, StepsKeeps

\* An id that someone knows is one that was handed out.
LEMMA KnowsHanded ==
  ASSUME GraphInv, NullPtr \notin Ptrs, NEW mu \in Ptrs, NEW id, Knows(nodes_, id, mu)
  PROVE  /\ Handed(id) /\ (Valid(id) <=> Current(nodes_, id)) /\ (Ptr(id) = NullPtr <=> ~Valid(id))
<1>1. PICK i : i = id.index
  OBVIOUS
<1>2. i \in Indices /\ Node(i) = nodes_[i + 1]
  BY <1>1 DEF Knows, IdSet, GraphInv, GraphTypes, Indices, Node
<1>3. Valid(id) <=> Current(nodes_, id)
  BY <1>1 DEF Valid, Current, Node
<1>4. Valid(id) => Node(i).ptr = mu
  BY <1>1, <1>2, <1>3 DEF Knows
<1> QED
  BY <1>1, <1>2, <1>3, <1>4 DEF Handed, Ptr

\* The lock that is checked and the mutex that is waited for have had their ids.
LEMMA CheckedIds ==
  ASSUME DeadlockDetectorAssumption, DetectorInv, NEW t \in Threads, graph_mu = t,
         NEW a, NEW h, NEW l, a = acquiring[t], h = all_locks[t], l = h.locks[a.next]
  PROVE  /\ ThreadOk(nodes_, h, a, holds[t], TRUE, Lost(t))
         /\ a # Idle /\ a.next \in 1..Len(h.locks) /\ a.mu \in Ptrs /\ Knows(nodes_, a.id, a.mu)
         /\ l.mu \in Ptrs /\ Knows(nodes_, l.id, l.mu)
         /\ Handed(l.id) /\ (Valid(l.id) <=> Current(nodes_, l.id)) /\ (Ptr(l.id) = NullPtr <=> ~Valid(l.id))
         /\ Handed(a.id) /\ (Valid(a.id) <=> Current(nodes_, a.id))
<1>1. /\ NullPtr \notin Ptrs /\ GraphInv
      /\ acquiring[t] \in AcquisitionSet \cup {Idle}
      /\ ThreadOk(nodes_, all_locks[t], acquiring[t], holds[t], graph_mu = t, Lost(t))
  BY ThreadIs
<1>5. ThreadOk(nodes_, h, a, holds[t], TRUE, Lost(t))
  <2>1. (graph_mu = t) = TRUE
    OBVIOUS
  <2> QED
    BY <1>1, <2>1
<1>6. a # Idle /\ a.next \in 1..Len(h.locks) /\ a.mu \in Ptrs /\ Knows(nodes_, a.id, a.mu)
  <2>1. a # Idle /\ a.next \in 1..Len(h.locks)
    BY <1>5 DEF ThreadOk, CheckedOk
  <2>2. a.mu \in Ptrs
    BY <1>1, <2>1, AcquisitionsAre
  <2> QED
    BY <1>5, <2>1, <2>2 DEF ThreadOk, AcquiringOk
<1>7. l.mu \in Ptrs /\ Knows(nodes_, l.id, l.mu)
  <2>1. h \in HeldSet /\ Has(h, l)
    BY <1>5, <1>6 DEF ThreadOk, ListTypes, Has
  <2>2. l \in LockSet
    BY <2>1, HeldAre
  <2> QED
    BY <1>5, <2>1, <2>2 DEF ThreadOk, ListOk, LockSet
<1>8. /\ Handed(l.id) /\ (Valid(l.id) <=> Current(nodes_, l.id)) /\ (Ptr(l.id) = NullPtr <=> ~Valid(l.id))
      /\ Handed(a.id) /\ (Valid(a.id) <=> Current(nodes_, a.id))
  BY <1>1, <1>6, <1>7, KnowsHanded
<1> QED
  BY <1>5, <1>6, <1>7, <1>8

\* DeadlockCheck of one lock that is held.
LEMMA CheckLockKeeps ==
  ASSUME DeadlockDetectorAssumption, DetectorInv, NEW t \in Threads, CheckLock(t)
  PROVE  DetectorInv'
<1>1. /\ NullPtr \notin Ptrs /\ NoThread \notin Threads /\ t # NoThread /\ GraphInv /\ died = FALSE
      /\ acquiring[t] \in AcquisitionSet \cup {Idle}
      /\ ThreadOk(nodes_, all_locks[t], acquiring[t], holds[t], graph_mu = t, Lost(t))
  BY ThreadIs
<1>2. PICK a, h, l, cycle, b, checking :
        /\ a = acquiring[t] /\ h = all_locks[t] /\ l = h.locks[a.next]
        /\ cycle = (Ptr(l.id) # NullPtr /\ ~res')
        /\ b = [a EXCEPT !.reported = cycle, !.next = @ + 1]
        /\ checking = ~(cycle \/ a.next = Len(h.locks))
  OBVIOUS
<1>3. /\ graph_mu = t
      /\ IF Ptr(l.id) = NullPtr THEN UNCHANGED graph ELSE InsertEdge(l.id, a.id)
      /\ acquiring' = [acquiring EXCEPT ![t].reported = cycle, ![t].next = @ + 1]
      /\ graph_mu' = IF cycle \/ a.next = Len(h.locks) THEN NoThread ELSE t
      /\ holds' = holds /\ all_locks' = all_locks /\ lost' = lost /\ died' = died
  BY <1>2 DEF CheckLock, mutexes
<1>4. acquiring' = [acquiring EXCEPT ![t] = b]
  <2>1. acquiring \in [Threads -> AcquisitionSet \cup {Idle}]
    BY DEF DetectorInv, DetectorTypes
  <2> QED
    BY <1>2, <1>3, <2>1
<1>5. ThreadOk(nodes_, h, a, holds[t], TRUE, Lost(t))
  BY <1>2, <1>3, CheckedIds
<1>6. a # Idle /\ a.next \in 1..Len(h.locks) /\ a.mu \in Ptrs /\ Knows(nodes_, a.id, a.mu)
  BY <1>2, <1>3, CheckedIds
<1>7. l.mu \in Ptrs /\ Knows(nodes_, l.id, l.mu)
  BY <1>2, <1>3, CheckedIds
<1>8. /\ Handed(l.id) /\ (Valid(l.id) <=> Current(nodes_, l.id)) /\ (Ptr(l.id) = NullPtr <=> ~Valid(l.id))
      /\ Handed(a.id) /\ (Valid(a.id) <=> Current(nodes_, a.id))
  BY <1>2, <1>3, CheckedIds
<1>9. /\ GraphInv' /\ Grows(nodes_, nodes_')
      /\ Ptr(l.id) # NullPtr /\ res' /\ Valid(a.id) => Edge(nodes_', l.id, a.id)
  <2>1. CASE Ptr(l.id) = NullPtr
    BY <1>1, <1>3, <2>1, GraphUnchanged
  <2>2. CASE Ptr(l.id) # NullPtr
    <3>1. InsertEdge(l.id, a.id)
      BY <1>3, <2>2
    <3>2. PICK idx, idy : idx = l.id /\ idy = a.id
      OBVIOUS
    <3>3. InsertEdge(idx, idy) /\ Handed(idx) /\ Handed(idy)
      BY <1>8, <3>1, <3>2
    <3>4. /\ GraphInv' /\ KeepsIds /\ \A v \in Indices : Out(v) \subseteq Out(v)'
          /\ res' /\ Valid(idx) /\ Valid(idy) => idy.index \in Out(idx.index)'
      BY <1>1, <3>3, InsertEdgeKeeps
    <3>5. Grows(nodes_, nodes_')
      BY <1>1, <3>4, GraphGrows
    <3>6. res' /\ Valid(idx) /\ Valid(idy) => Edge(nodes_', idx, idy)
      BY <3>4 DEF Edge, Out, Node
    <3> QED
      BY <1>8, <3>2, <3>4, <3>5, <3>6
  <2> QED
    BY <2>1, <2>2
<1>10. ThreadOk(nodes_', h, a, holds[t], TRUE, Lost(t))
  BY <1>1, <1>5, <1>9, GrowsOk
<1>11. (Current(nodes_', l.id) <=> Current(nodes_, l.id)) /\ (Current(nodes_', a.id) <=> Current(nodes_, a.id))
  BY <1>1, <1>6, <1>7, <1>9, KnowsGrows
<1>12. cycle \in BOOLEAN
  BY <1>2
<1>13. ~cycle /\ Current(nodes_', l.id) /\ Current(nodes_', a.id) => Edge(nodes_', l.id, a.id)
  BY <1>2, <1>8, <1>9, <1>11
<1>14. ThreadOk(nodes_', h, b, holds[t], checking, Lost(t))
  <2>1. PICK n, own, L : n = nodes_' /\ own = holds[t] /\ L = Lost(t)
    OBVIOUS
  <2>2. ThreadOk(n, h, a, own, TRUE, L)
    BY <1>10, <2>1
  <2>3. ~cycle /\ Current(n, h.locks[a.next].id) /\ Current(n, a.id) => Edge(n, h.locks[a.next].id, a.id)
    BY <1>2, <1>13, <2>1
  <2>4. ThreadOk(n, h, b, own, checking, L)
    BY <1>1, <1>2, <1>12, <2>2, <2>3, CheckOk
  <2> QED
    BY <2>1, <2>4
<1>15. (graph_mu' = t) = checking /\ \A s \in Threads \ {t} : (graph_mu' = s) = (graph_mu = s)
  BY <1>1, <1>2, <1>3
<1>16. Steps(t, h, b, holds[t], checking, Lost(t))
  <2>1. all_locks' = [all_locks EXCEPT ![t] = h] /\ holds' = [holds EXCEPT ![t] = holds[t]]
        /\ \A s \in Threads : Lost(s)' = Lost(s)
    BY <1>2, <1>3, Unchanged
  <2> QED
    BY <1>1, <1>3, <1>4, <1>15, <2>1 DEF Steps
<1> QED
  BY <1>9, <1>14, <1>16, StepsKeeps

\* ForgetDeadlockInfo.
LEMMA ForgetKeeps ==
  ASSUME DeadlockDetectorAssumption, DetectorInv, NEW mu \in Ptrs, ForgetDeadlockInfo(mu)
  PROVE  DetectorInv'
<1>1. /\ NullPtr \notin Ptrs /\ NoThread \notin Threads /\ GraphInv /\ GraphCyclesAssumption /\ OnePtr(nodes_)
  BY OnePtrIs DEF DeadlockDetectorAssumption, GraphCyclesAssumption, DetectorInv
<1>2. /\ graph_mu = NoThread /\ Node(Find(mu)).version < MaxVersion /\ RemoveNode(mu)
      /\ lost' = lost \cup {<<t, mu>> : t \in {s \in Threads : holds[s][mu] > 0 \/ acquiring[s].mu = mu}}
      /\ holds' = holds /\ all_locks' = all_locks /\ acquiring' = acquiring /\ graph_mu' = graph_mu /\ died' = died
  BY DEF ForgetDeadlockInfo, mutexes
<1>3. PICK i : Removed(mu, i) /\ res' = res
  BY <1>1, <1>2, RemoveNodeIs
<1>4. GraphInv'
  BY <1>1, <1>2, RemoveNodeKeeps
<1>5. Forgets(nodes_, nodes_', mu, i)
  <2>1. Len(nodes_) \in Nat /\ \A x \in 1..Len(nodes_) : x - 1 \in Indices /\ nodes_[x] = Node(x - 1) /\ (x - 1) + 1 = x
    BY <1>1, NodesAre DEF GraphInv
  <2>2. Len(nodes_') = Len(nodes_)
    <3>1. Len(nodes_') \in Nat
      BY <1>4 DEF GraphInv, GraphTypes
    <3>2. 0..Len(nodes_') - 1 = 0..Len(nodes_) - 1
      BY <1>3 DEF Removed, Indices
    <3> QED
      BY <2>1, <3>1, <3>2
  <2>3. i \in Nat /\ i + 1 \in 1..Len(nodes_) /\ Node(i).version \in Nat /\ Node(i) = nodes_[i + 1]
    BY <1>1, <1>3, NodesAre DEF Removed, GraphInv, NodeSet
  <2>4. nodes_[i + 1].ptr = mu /\ nodes_'[i + 1].version = nodes_[i + 1].version + 1
    BY <1>3, <2>3 DEF Removed, Node
  <2>5. ASSUME NEW x \in 1..Len(nodes_), x # i + 1
        PROVE  /\ nodes_'[x].version = nodes_[x].version /\ nodes_'[x].ptr = nodes_[x].ptr
               /\ nodes_'[x].out = nodes_[x].out \ {i}
    <3>1. PICK y : y = x - 1
      OBVIOUS
    <3>2. y \in Indices \ {i} /\ x = y + 1
      BY <2>1, <2>3, <2>5, <3>1
    <3> QED
      BY <1>3, <3>2 DEF Removed, Node, Out
  <2> QED
    BY <2>1, <2>2, <2>3, <2>4, <2>5 DEF Forgets
<1>6. DetectorTypes'
  BY <1>2 DEF DetectorInv, DetectorTypes
<1>7. ASSUME NEW t \in Threads
      PROVE  ThreadOk(nodes_', all_locks[t], acquiring[t], holds[t], FALSE, Lost(t)')
  <2>1. ThreadOk(nodes_, all_locks[t], acquiring[t], holds[t], graph_mu = t, Lost(t))
    BY ThreadIs
  <2>2. (graph_mu = t) = FALSE
    BY <1>1, <1>2
  <2>3. PICK L2 : L2 = IF holds[t][mu] > 0 \/ acquiring[t].mu = mu THEN Lost(t) \cup {mu} ELSE Lost(t)
    OBVIOUS
  <2>4. Lost(t)' = L2
    BY <1>2, <2>3 DEF Lost
  <2>5. ThreadOk(nodes_, all_locks[t], acquiring[t], holds[t], FALSE, Lost(t))
    BY <2>1, <2>2
  <2>6. ThreadOk(nodes_', all_locks[t], acquiring[t], holds[t], FALSE, L2)
    BY <1>1, <1>5, <2>3, <2>5, ForgetOk
  <2> QED
    BY <2>4, <2>6
<1>8. ThreadsOk'
  <2>1. ASSUME NEW t \in Threads
        PROVE  ThreadOk(nodes_', all_locks'[t], acquiring'[t], holds'[t], graph_mu' = t, Lost(t)')
    <3>1. (graph_mu' = t) = FALSE
      BY <1>1, <1>2
    <3> QED
      BY <1>2, <1>7, <3>1
  <2> QED
    BY <2>1 DEF ThreadsOk
<1> QED
  BY <1>4, <1>6, <1>8 DEF DetectorInv

\* A detector begins with the invariant.
LEMMA InitDetector ==
  ASSUME DeadlockDetectorAssumption, DInit PROVE DetectorInv
<1>1. GraphInv /\ NullPtr \notin Ptrs /\ NoThread \notin Threads /\ nodes_ = <<>>
  BY InitGraph DEF DeadlockDetectorAssumption, GraphCyclesAssumption, DInit, Init
<1>2. PICK h, own : h = [locks |-> <<>>, overflow |-> FALSE] /\ own = [mu \in Ptrs |-> 0]
  OBVIOUS
<1>3. h \in HeldSet /\ own \in [Ptrs -> Nat] /\ Len(h.locks) = 0 /\ h.overflow = FALSE
  BY <1>2 DEF HeldSet
<1>4. \A l : ~Has(h, l)
  BY <1>3 DEF Has
<1>5. /\ holds = [t \in Threads |-> own] /\ all_locks = [t \in Threads |-> h] /\ acquiring = [t \in Threads |-> Idle]
      /\ graph_mu = NoThread /\ lost = {} /\ died = FALSE
  BY <1>2 DEF DInit
<1>6. DetectorTypes
  BY <1>3, <1>5 DEF DetectorTypes
<1>7. ThreadOk(nodes_, h, Idle, own, FALSE, {})
  <2>1. ListTypes(h, Idle, own)
    BY <1>3 DEF ListTypes, Distinct
  <2>2. ListOk(nodes_, h, own)
    BY <1>4 DEF ListOk
  <2>3. LostOk(nodes_, h, Idle, own, {})
    BY DEF LostOk
  <2>4. KeptOk(nodes_, h, own, {})
    <3>1. \A mu \in Ptrs : ~(own[mu] > 0)
      BY <1>2
    <3> QED
      BY <1>4, <3>1 DEF KeptOk
  <2> QED
    BY <1>1, <2>1, <2>2, <2>3, <2>4, IdleIsFree
<1>8. ThreadsOk
  <2>1. ASSUME NEW t \in Threads
        PROVE  ThreadOk(nodes_, all_locks[t], acquiring[t], holds[t], graph_mu = t, Lost(t))
    <3>1. (graph_mu = t) = FALSE
      BY <1>1, <1>5
    <3>2. Lost(t) = {}
      BY <1>5 DEF Lost
    <3>3. all_locks[t] = h /\ acquiring[t] = Idle /\ holds[t] = own
      BY <1>5
    <3> QED
      BY <1>7, <3>1, <3>2, <3>3
  <2> QED
    BY <2>1 DEF ThreadsOk
<1> QED
  BY <1>1, <1>6, <1>8 DEF DetectorInv

\* Every step keeps the invariant.
LEMMA StepsKeepInvariant ==
  ASSUME DeadlockDetectorAssumption, DetectorInv, [DNext]_vars PROVE DetectorInv'
<1>1. CASE UNCHANGED vars
  <2>1. /\ UNCHANGED graph /\ GraphInv /\ all_locks' = all_locks /\ acquiring' = acquiring /\ holds' = holds
        /\ graph_mu' = graph_mu /\ lost' = lost /\ died' = died
    BY <1>1 DEF vars, mutexes, DetectorInv
  <2>2. GraphInv' /\ nodes_' = nodes_
    BY <2>1, GraphUnchanged
  <2> QED
    BY <2>1, <2>2 DEF DetectorInv, DetectorTypes, ThreadsOk, Lost
<1>2. CASE \E mu \in Forgotten : ForgetDeadlockInfo(mu)
  <2>1. PICK mu \in Forgotten : ForgetDeadlockInfo(mu)
    BY <1>2
  <2>2. mu \in Ptrs
    BY DEF DeadlockDetectorAssumption
  <2> QED
    BY <2>1, <2>2, ForgetKeeps
<1>3. ASSUME NEW t \in Threads,
             \/ CheckLock(t) \/ Acquire(t)
             \/ \E mu \in Ptrs : \/ \E shared \in Modes : StartCheck(t, mu, shared) \/ TryLock(t, mu, shared)
                                 \/ Unlock(t, mu)
      PROVE  DetectorInv'
  <2>1. CASE CheckLock(t)
    BY <2>1, CheckLockKeeps
  <2>2. CASE Acquire(t)
    BY <2>2, AcquireKeeps
  <2>3. ASSUME NEW mu \in Ptrs, NEW shared \in Modes, StartCheck(t, mu, shared) PROVE DetectorInv'
    BY <2>3, StartCheckKeeps
  <2>4. ASSUME NEW mu \in Ptrs, NEW shared \in Modes, TryLock(t, mu, shared) PROVE DetectorInv'
    BY <2>4, TryLockKeeps
  <2>5. ASSUME NEW mu \in Ptrs, Unlock(t, mu) PROVE DetectorInv'
    BY <2>5, UnlockKeeps
  <2> QED
    BY <1>3, <2>1, <2>2, <2>3, <2>4, <2>5
<1> QED
  BY <1>1, <1>2, <1>3 DEF DNext

-----------------------------------------------------------------------------
(* What follows from the invariant.                                        *)

\* The id that is current for a mutex is the one the graph gives it.
LEMMA CurrentId ==
  ASSUME GraphInv, NullPtr \notin Ptrs, NEW mu \in Ptrs
  PROVE  /\ \A id : Knows(nodes_, id, mu) /\ Current(nodes_, id) => HasPtr(mu) /\ id = Id(Find(mu))
         /\ HasPtr(mu) => Current(nodes_, Id(Find(mu))) /\ nodes_[Id(Find(mu)).index + 1].ptr = mu
<1>1. HasPtr(mu) => Find(mu) \in Indices /\ Node(Find(mu)).ptr = mu
  BY DEF HasPtr, Find
<1>2. \A x, y \in Indices : Node(x).ptr = Node(y).ptr /\ Node(x).ptr # NullPtr => x = y
  BY DEF GraphInv, InUse
<1>3. \A x \in Indices : Node(x) = nodes_[x + 1]
  BY DEF Node
<1>4. ASSUME NEW id, Knows(nodes_, id, mu), Current(nodes_, id)
      PROVE  HasPtr(mu) /\ id = Id(Find(mu))
  <2>1. PICK i, v : id = [index |-> i, version |-> v] /\ i \in Nat /\ i + 1 \in 1..Len(nodes_)
    BY <1>4 DEF Knows, IdSet
  <2>2. i \in Indices /\ Node(i).ptr = mu /\ Node(i).version = v
    BY <1>4, <2>1 DEF Knows, Current, GraphInv, GraphTypes, Indices, Node
  <2>3. HasPtr(mu) /\ Find(mu) = i
    BY <1>1, <1>2, <2>2 DEF HasPtr
  <2> QED
    BY <2>1, <2>2, <2>3 DEF Id
<1>5. HasPtr(mu) => Current(nodes_, Id(Find(mu))) /\ nodes_[Id(Find(mu)).index + 1].ptr = mu
  BY <1>1, <1>3 DEF Id, Current
<1> QED
  BY <1>4, <1>5

\* The list of a thread that has not lost track names what it holds.
LEMMA ListIsComplete ==
  ASSUME DeadlockDetectorAssumption, DetectorInv PROVE HeldIsListed
<1> SUFFICES ASSUME NEW t \in Threads, Tracked(t), NEW mu \in Ptrs
             PROVE  holds[t][mu] = IF HasPtr(mu) /\ At(all_locks[t], Id(Find(mu))) # 0
                                   THEN all_locks[t].locks[At(all_locks[t], Id(Find(mu)))].count ELSE 0
  BY DEF HeldIsListed
<1>1. /\ NullPtr \notin Ptrs /\ GraphInv /\ all_locks[t] \in HeldSet /\ holds[t] \in [Ptrs -> Nat]
      /\ ThreadOk(nodes_, all_locks[t], acquiring[t], holds[t], graph_mu = t, Lost(t))
  BY ThreadIs
<1>2. PICK h, own, id, n : h = all_locks[t] /\ own = holds[t] /\ id = Id(Find(mu)) /\ n = nodes_
  OBVIOUS
<1>3. ~h.overflow /\ Lost(t) = {}
  BY <1>2 DEF Tracked, Lost
<1>4. ListOk(n, h, own) /\ KeptOk(n, h, own, {})
  BY <1>1, <1>2, <1>3 DEF ThreadOk
<1>5. /\ own[mu] > 0 => \E l : Has(h, l) /\ l.mu = mu /\ Current(n, l.id)
      /\ \A l : Has(h, l) /\ l.mu = mu /\ Current(n, l.id) => l.count = own[mu]
  BY <1>3, <1>4 DEF KeptOk
<1>6. h \in HeldSet /\ own[mu] \in Nat
  BY <1>1, <1>2
<1>7. CASE HasPtr(mu) /\ At(h, id) # 0
  <2>1. PICK l : l = h.locks[At(h, id)]
    OBVIOUS
  <2>2. Has(h, l) /\ l.id = id
    BY <1>6, <1>7, <2>1, AtIs DEF Has
  <2>3. Current(n, l.id) /\ n[l.id.index + 1].ptr = mu
    BY <1>1, <1>2, <1>7, <2>2, CurrentId
  <2>4. l.mu = mu
    BY <1>4, <2>2, <2>3 DEF ListOk, Knows
  <2>5. own[mu] = l.count
    BY <1>5, <2>2, <2>3, <2>4
  <2> QED
    BY <1>2, <1>7, <2>1, <2>5
<1>8. CASE ~(HasPtr(mu) /\ At(h, id) # 0)
  <2>1. ASSUME NEW l, Has(h, l), l.mu = mu, Current(n, l.id)
        PROVE  FALSE
    <3>1. Knows(n, l.id, mu)
      BY <1>4, <2>1 DEF ListOk
    <3>2. HasPtr(mu) /\ l.id = id
      BY <1>1, <1>2, <2>1, <3>1, CurrentId
    <3>3. Absent(h, id)
      BY <1>6, <1>8, <3>2, AtIs
    <3> QED
      BY <2>1, <3>2, <3>3 DEF Absent
  <2>2. own[mu] = 0
    BY <1>5, <1>6, <2>1
  <2> QED
    BY <1>2, <1>8, <2>2
<1> QED
  BY <1>7, <1>8

\* A thread that has checked its locks has an edge from each of them.
LEMMA WaitsRise ==
  ASSUME DeadlockDetectorAssumption, DetectorInv, NEW t \in Threads, NEW s \in Threads,
         WaitsFor(t, s), Tracked(t), Tracked(s), acquiring[s] # Idle, graph_mu # s, ~acquiring[s].reported
  PROVE  /\ acquiring[t].id.index \in Indices /\ acquiring[s].id.index \in Indices
         /\ Rank(acquiring[t].id.index) < Rank(acquiring[s].id.index)
<1>1. /\ NullPtr \notin Ptrs /\ GraphInv
      /\ ThreadOk(nodes_, all_locks[t], acquiring[t], holds[t], graph_mu = t, Lost(t))
      /\ ThreadOk(nodes_, all_locks[s], acquiring[s], holds[s], graph_mu = s, Lost(s))
      /\ acquiring[t] \in AcquisitionSet \cup {Idle} /\ acquiring[s] \in AcquisitionSet \cup {Idle}
  BY ThreadIs
<1>2. PICK n, h, a, b, own : n = nodes_ /\ h = all_locks[s] /\ a = acquiring[t] /\ b = acquiring[s] /\ own = holds[s]
  OBVIOUS
<1>3. ~h.overflow /\ Lost(s) = {} /\ Lost(t) = {}
  BY <1>2 DEF Tracked, Lost
<1>4. a # Idle /\ own[a.mu] > 0 /\ b # Idle /\ ~b.reported
  BY <1>2 DEF WaitsFor
<1>5. a.mu \in Ptrs /\ b.mu \in Ptrs
  BY <1>1, <1>2, <1>4, AcquisitionsAre
<1>6. Knows(n, a.id, a.mu) /\ Current(n, a.id) /\ Knows(n, b.id, b.mu) /\ Current(n, b.id)
  <2>1. AcquiringOk(n, all_locks[t], a, {}) /\ AcquiringOk(n, h, b, {})
    BY <1>1, <1>2, <1>3 DEF ThreadOk
  <2> QED
    BY <1>4, <2>1 DEF AcquiringOk
<1>7. KeptOk(n, h, own, {}) /\ ListOk(n, h, own) /\ CheckedOk(n, h, b, FALSE)
  <2>1. (graph_mu = s) = FALSE
    OBVIOUS
  <2> QED
    BY <1>1, <1>2, <1>3, <2>1 DEF ThreadOk
<1>8. PICK l : Has(h, l) /\ l.mu = a.mu /\ Current(n, l.id)
  BY <1>3, <1>4, <1>5, <1>7 DEF KeptOk
<1>9. l.id = a.id
  <2>1. Knows(n, l.id, a.mu)
    BY <1>7, <1>8 DEF ListOk
  <2>2. OnePtr(n)
    BY <1>1, <1>2, OnePtrIs
  <2> QED
    BY <1>1, <1>5, <1>6, <1>8, <2>1, <2>2, OneId
<1>10. Edge(n, l.id, b.id)
  BY <1>4, <1>6, <1>7, <1>8 DEF CheckedOk, Has
<1>11. a.id.index \in Indices /\ b.id.index \in Indices
  <2>1. PICK i, j : i = a.id.index /\ j = b.id.index
    OBVIOUS
  <2>2. i \in Nat /\ j \in Nat /\ i + 1 \in 1..Len(nodes_) /\ j + 1 \in 1..Len(nodes_) /\ Len(nodes_) \in Nat
    BY <1>1, <1>2, <1>6, <2>1 DEF Knows, IdSet, GraphInv, GraphTypes
  <2>3. i \in Indices /\ j \in Indices
    BY <2>2 DEF Indices
  <2> QED
    BY <2>1, <2>3
<1>12. b.id.index \in Out(a.id.index)
  BY <1>2, <1>9, <1>10 DEF Edge, Out, Node
<1>13. Rank(a.id.index) < Rank(b.id.index)
  BY <1>1, <1>11, <1>12 DEF GraphInv, RanksRise
<1> QED
  BY <1>2, <1>11, <1>13

\* Threads in a ring that have not been reported would wait for mutexes of ever higher ranks,
\* all around the ring.
LEMMA NoRing ==
  ASSUME DeadlockDetectorAssumption, DetectorInv PROVE DeadlocksReported
<1> SUFFICES ASSUME NEW k \in 2..Cardinality(Threads), NEW path \in [1..k -> Threads],
                    Ring(path), \A i \in 1..k : Tracked(path[i]), \A i \in 1..k : ~acquiring[path[i]].reported
             PROVE  FALSE
  BY DEF DeadlocksReported
<1>1. k \in Nat /\ k >= 2
  OBVIOUS
<1>2. GraphInv /\ Len(nodes_) \in Nat
  BY DEF DetectorInv, GraphInv, GraphTypes
<1>3. PICK next : next = [i \in 1..k |-> (i % k) + 1]
  OBVIOUS
<1>4. \A i \in 1..k : next[i] \in 1..k /\ next[i] = (i % k) + 1
  BY <1>1, <1>3
<1>5. \A i \in 1..k : WaitsFor(path[i], path[next[i]]) /\ path[i] \in Threads
  <2>1. Len(path) = k
    BY <1>1, FunctionIsSequence
  <2> QED
    BY <1>4, <2>1 DEF Ring
<1>6. PICK rank : rank = [i \in 1..k |-> Rank(acquiring[path[i]].id.index)]
  OBVIOUS
<1>7. ASSUME NEW i \in 1..k
      PROVE  rank[i] < rank[next[i]] /\ rank[i] \in 0..Len(nodes_) - 1
  <2>1. PICK t, s : t = path[i] /\ s = path[next[i]]
    OBVIOUS
  <2>2. t \in Threads /\ s \in Threads /\ WaitsFor(t, s) /\ Tracked(t) /\ Tracked(s) /\ ~acquiring[s].reported
    BY <1>4, <1>5, <2>1
  <2>3. acquiring[s] # Idle /\ graph_mu # s
    BY <1>4, <1>5, <2>1 DEF WaitsFor
  <2>4. /\ acquiring[t].id.index \in Indices /\ acquiring[s].id.index \in Indices
        /\ Rank(acquiring[t].id.index) < Rank(acquiring[s].id.index)
    BY <2>2, <2>3, WaitsRise
  <2>5. rank[i] = Rank(acquiring[t].id.index) /\ rank[next[i]] = Rank(acquiring[s].id.index)
    BY <1>4, <1>6, <2>1
  <2>6. Rank(acquiring[t].id.index) \in Indices
    BY <1>2, <2>4 DEF GraphInv, GraphTypes
  <2> QED
    BY <2>4, <2>5, <2>6 DEF Indices
<1>8. PICK S : S = {Len(nodes_) - rank[i] : i \in 1..k}
  OBVIOUS
<1>9. S \in SUBSET Nat /\ S # {}
  <2>1. \A i \in 1..k : Len(nodes_) - rank[i] \in Nat
    BY <1>2, <1>7
  <2>2. 1 \in 1..k
    BY <1>1
  <2> QED
    BY <1>8, <2>1, <2>2
<1>10. PICK m \in S : \A q \in S : m =< q
  BY <1>9, LeastOne
<1>11. PICK i \in 1..k : m = Len(nodes_) - rank[i]
  BY <1>8, <1>10
<1>12. Len(nodes_) - rank[next[i]] \in S
  BY <1>4, <1>8
<1>13. m =< Len(nodes_) - rank[next[i]]
  BY <1>10, <1>12
<1>14. rank[i] < rank[next[i]] /\ rank[i] \in 0..Len(nodes_) - 1 /\ rank[next[i]] \in 0..Len(nodes_) - 1
  BY <1>4, <1>7
<1> QED
  BY <1>2, <1>11, <1>13, <1>14

-----------------------------------------------------------------------------
(* FindPath.                                                               *)

SearchSet == [stack : Seq(Indices \cup {Leave}), seen : SUBSET Indices, path : Seq(Indices)]
Waits(st, v) == \E i \in 1..Len(st) : st[i] = v

\* L are the places of the markers on the stack, one for each node of the path.
Marked(st, path, L) ==
  /\ L \in Seq(Nat) /\ Len(L) = Len(path) /\ (Len(L) > 0 => L[1] = 1)
  /\ \A d \in 1..Len(L) : L[d] \in 1..Len(st) /\ st[L[d]] = Leave
  /\ \A d, e \in 1..Len(L) : d < e => L[d] < L[e]
  /\ \A i \in 1..Len(st) : st[i] = Leave => \E d \in 1..Len(L) : L[d] = i

\* After the marker of a node and before the next are nodes that it leads to.
Between(L, d, i) == L[d] < i /\ \A e \in d + 1..Len(L) : i < L[e]
Children(st, path, L) ==
  \A d \in 1..Len(L) : \A i \in 1..Len(st) : Between(L, d, i) /\ st[i] # Leave => st[i] \in Out(path[d])

PathIs(path, x) ==
  /\ \A i \in 1..Len(path) - 1 : path[i + 1] \in Out(path[i])
  /\ path # <<>> => path[1] = x

\* No node is on the stack twice; X are those that were taken from it.
OneEach(st) == \A i, j \in 1..Len(st) : st[i] = st[j] /\ st[i] # Leave => i = j
Popped(s, x, X) ==
  /\ X \subseteq Indices
  /\ \A v \in Indices : (v \in s.seen \/ v = x) <=> (v \in X \/ Waits(s.stack, v))
  /\ \A v \in X : ~Waits(s.stack, v) /\ Out(v) \subseteq s.seen
SeenFrom(seen, x) == seen \subseteq Visited(x, Edges) /\ \A v \in seen : Rank(x) < Rank(v)

Stopped(s, y) == s.stack = <<>> \/ (s.path # <<>> /\ Last(s.path) = y)

Searching(s, j, x, y, X, L) ==
  /\ s \in SearchSet /\ OneEach(s.stack) /\ Popped(s, x, X) /\ SeenFrom(s.seen, x)
  /\ Marked(s.stack, s.path, L) /\ Children(s.stack, s.path, L) /\ PathIs(s.path, x)
  /\ j + Len(s.path) = 2 * Cardinality(X)
  /\ y \in X => s.path # <<>> /\ Last(s.path) = y
  /\ s.path = <<>> => s.stack = <<>> \/ s.stack = <<x>>

\* SetToSeq has each element of a finite set, once.
LEMMA SetToSeqIs ==
  ASSUME NEW S, IsFiniteSet(S)
  PROVE  /\ SetToSeq(S) \in Seq(S) /\ IsInjective(SetToSeq(S))
         /\ \A v \in S : \E i \in 1..Len(SetToSeq(S)) : SetToSeq(S)[i] = v
<1>1. PICK n : n = Cardinality(S)
  OBVIOUS
<1>2. n \in Nat /\ ExistsBijection(1..n, S)
  BY <1>1, FS_CardinalityType
<1>3. PICK g : g = SetToSeq(S)
  OBVIOUS
<1>4. \E f \in [1..n -> S] : IsInjective(f)
  BY <1>2 DEF ExistsBijection, Bijection, Injection
<1>5. g \in [1..n -> S] /\ IsInjective(g)
  BY <1>1, <1>3, <1>4 DEF SetToSeq
<1>6. g \in Seq(S) /\ Len(g) = n
  BY <1>2, <1>5, FunctionIsSequence
<1>7. g \in Injection(1..n, S)
  BY <1>5 DEF Injection
<1>8. IsFiniteSet(1..n) /\ Cardinality(1..n) = n
  <2>1. 1 \in Int /\ n \in Int
    BY <1>2
  <2>2. IsFiniteSet(1..n) /\ Cardinality(1..n) = IF 1 > n THEN 0 ELSE n - 1 + 1
    BY <2>1, FS_Interval
  <2> QED
    BY <1>2, <2>2
<1>9. g \in Surjection(1..n, S)
  <2>1. Cardinality(1..n) = Cardinality(S) <=> g \in Surjection(1..n, S)
    BY <1>7, FS_Injection
  <2> QED
    BY <1>1, <1>8, <2>1
<1>10. \A v \in S : \E i \in 1..n : g[i] = v
  BY <1>9 DEF Surjection
<1> QED
  BY <1>3, <1>5, <1>6, <1>10

\* A sequence without its last element.
LEMMA FrontIs ==
  ASSUME NEW T, NEW st \in Seq(T), st # <<>>
  PROVE  /\ Len(st) \in Nat \ {0} /\ Last(st) = st[Len(st)] /\ Last(st) \in T
         /\ Front(st) \in Seq(T) /\ Len(Front(st)) = Len(st) - 1
         /\ \A i \in 1..Len(st) - 1 : Front(st)[i] = st[i]
<1>1. Len(st) \in Nat \ {0}
  OBVIOUS
<1>2. Last(st) = st[Len(st)] /\ st[Len(st)] \in T
  BY <1>1 DEF Last
<1>3. PICK n : n = Len(st) - 1
  OBVIOUS
<1>4. n \in Nat /\ Front(st) = SubSeq(st, 1, n)
  BY <1>1, <1>3 DEF Front
<1>5. \A i \in 1..n : st[i] \in T
  BY <1>1, <1>3
<1>6. Front(st) = [i \in 1..n |-> st[i]]
  BY <1>4, <1>5
<1>7. Front(st) \in [1..n -> T]
  BY <1>5, <1>6
<1>8. Front(st) \in Seq(T) /\ Len(Front(st)) = n
  BY <1>4, <1>7, FunctionIsSequence
<1> QED
  BY <1>1, <1>2, <1>3, <1>6, <1>8

\* The node at the top of the stack is left.
LEMMA LeaveMark ==
  ASSUME NEW N, NEW st \in Seq(N), NEW path \in Seq(Indices), NEW L, NEW x, Marked(st, path, L), Children(st, path, L),
         PathIs(path, x), OneEach(st), st # <<>>, Last(st) = Leave
  PROVE  /\ path # <<>> /\ Marked(Front(st), Front(path), Front(L)) /\ Children(Front(st), Front(path), Front(L))
         /\ PathIs(Front(path), x) /\ OneEach(Front(st)) /\ (Front(path) = <<>> => Front(st) = <<>>)
         /\ \A v : v # Leave => (Waits(Front(st), v) <=> Waits(st, v))
<1>1. PICK m, n : m = Len(st) /\ n = Len(L)
  OBVIOUS
<1>2. PICK su, pa, K : su = Front(st) /\ pa = Front(path) /\ K = Front(L)
  OBVIOUS
<1>3. m \in Nat \ {0} /\ st[m] = Leave /\ Len(su) = m - 1 /\ \A i \in 1..m - 1 : su[i] = st[i]
  BY <1>1, <1>2, FrontIs
<1>4. L \in Seq(Nat) /\ n = Len(path) /\ n \in Nat
  BY <1>1 DEF Marked
<1>5. PICK d \in 1..n : L[d] = m
  BY <1>1, <1>3 DEF Marked
<1>6. n \in Nat \ {0} /\ path # <<>> /\ L # <<>>
  <2>1. n \in Nat \ {0}
    BY <1>4, <1>5
  <2>2. Len(path) # 0 /\ Len(L) # 0
    BY <1>1, <1>4, <2>1
  <2> QED
    BY <2>1, <2>2
<1>7. d = n
  <2>1. L[n] =< m /\ L[n] \in Nat
    BY <1>1, <1>4, <1>6 DEF Marked
  <2>2. d < n => L[d] < L[n]
    BY <1>1, <1>4, <1>5, <1>6 DEF Marked
  <2> QED
    BY <1>3, <1>5, <1>6, <2>1, <2>2
<1>8. /\ pa \in Seq(Indices) /\ Len(pa) = n - 1 /\ \A i \in 1..n - 1 : pa[i] = path[i]
      /\ K \in Seq(Nat) /\ Len(K) = n - 1 /\ \A i \in 1..n - 1 : K[i] = L[i]
  BY <1>1, <1>2, <1>4, <1>6, FrontIs
<1>9. \A e \in 1..n - 1 : L[e] \in 1..m - 1
  <2>1. \A e \in 1..n - 1 : L[e] \in Nat /\ L[e] >= 1 /\ L[e] < L[n]
    BY <1>1, <1>4, <1>6 DEF Marked
  <2> QED
    BY <1>3, <1>5, <1>7, <2>1
<1>10. Marked(su, pa, K)
  <2>1. Len(K) = Len(pa) /\ K \in Seq(Nat)
    BY <1>8
  <2>2. Len(K) > 0 => K[1] = 1
    <3>1. L[1] = 1
      BY <1>1, <1>6 DEF Marked
    <3>2. Len(K) > 0 => 1 \in 1..n - 1
      BY <1>6, <1>8
    <3> QED
      BY <1>8, <3>1, <3>2
  <2>3. ASSUME NEW e \in 1..Len(K) PROVE K[e] \in 1..Len(su) /\ su[K[e]] = Leave
    <3>1. e \in 1..n - 1 /\ e \in 1..Len(L)
      BY <1>1, <1>6, <1>8
    <3>2. st[L[e]] = Leave
      BY <3>1 DEF Marked
    <3> QED
      BY <1>3, <1>8, <1>9, <3>1, <3>2
  <2>4. \A e, f \in 1..Len(K) : e < f => K[e] < K[f]
    BY <1>1, <1>6, <1>8 DEF Marked
  <2>5. ASSUME NEW i \in 1..Len(su), su[i] = Leave PROVE \E e \in 1..Len(K) : K[e] = i
    <3>1. i \in 1..m /\ st[i] = Leave /\ i # m
      BY <1>3, <2>5
    <3>2. PICK e \in 1..n : L[e] = i
      BY <1>1, <3>1 DEF Marked
    <3>3. e # n
      BY <1>5, <1>7, <3>1, <3>2
    <3>4. e \in 1..n - 1 /\ e \in 1..Len(K)
      BY <1>6, <1>8, <3>3
    <3>5. K[e] = i
      BY <1>8, <3>2, <3>4
    <3> QED
      BY <3>4, <3>5
  <2> QED
    BY <2>1, <2>2, <2>3, <2>4, <2>5 DEF Marked
<1>11. Children(su, pa, K)
  <2> SUFFICES ASSUME NEW e \in 1..Len(K), NEW i \in 1..Len(su), Between(K, e, i), su[i] # Leave
               PROVE  su[i] \in Out(pa[e])
    BY DEF Children
  <2>1. e \in 1..n /\ e \in 1..n - 1 /\ i \in 1..m /\ i < m /\ su[i] = st[i] /\ pa[e] = path[e]
    BY <1>3, <1>6, <1>8
  <2>2. Between(L, e, i)
    <3>1. L[e] < i
      BY <1>8, <2>1 DEF Between
    <3>2. ASSUME NEW f \in e + 1..n PROVE i < L[f]
      <4>1. CASE f = n
        BY <1>5, <1>7, <2>1, <4>1
      <4>2. CASE f # n
        <5>1. f \in e + 1..Len(K) /\ f \in 1..n - 1
          BY <1>6, <1>8, <2>1, <4>2
        <5>2. i < K[f]
          BY <5>1 DEF Between
        <5> QED
          BY <1>8, <5>1, <5>2
      <4> QED
        BY <4>1, <4>2
    <3> QED
      BY <1>1, <3>1, <3>2 DEF Between
  <2> QED
    BY <1>1, <2>1, <2>2 DEF Children
<1>12. PathIs(pa, x)
  <2>1. \A i \in 1..Len(pa) - 1 : pa[i + 1] = path[i + 1] /\ pa[i] = path[i] /\ i \in 1..Len(path) - 1
    BY <1>4, <1>6, <1>8
  <2>2. pa # <<>> => pa[1] = path[1]
    BY <1>6, <1>8
  <2> QED
    BY <1>6, <2>1, <2>2 DEF PathIs
<1>13. OneEach(su)
  BY <1>1, <1>3 DEF OneEach
<1>14. pa = <<>> => su = <<>>
  <2>1. pa = <<>> => n = 1
    BY <1>6, <1>8
  <2>2. n = 1 => m = 1
    BY <1>1, <1>5, <1>7 DEF Marked
  <2>3. m = 1 => su = <<>>
    BY <1>2, <1>3, FrontIs
  <2> QED
    BY <2>1, <2>2, <2>3
<1>15. ASSUME NEW v, v # Leave PROVE Waits(su, v) <=> Waits(st, v)
  BY <1>1, <1>3, <1>15 DEF Waits
<1> QED
  BY <1>2, <1>6, <1>10, <1>11, <1>12, <1>13, <1>14, <1>15

\* The stack after a node was pushed: where it was is a marker, then come the nodes q.
Stacked(g, st, q, m, k) ==
  /\ m = Len(st) /\ k = Len(q) /\ Len(g) = m + k /\ g[m] = Leave
  /\ \A i \in 1..m - 1 : g[i] = st[i]
  /\ \A i \in 1..k : g[m + i] = q[i]

\* The stack after Push: without its top, with a marker and what is to be visited.
LEMMA StackIs ==
  ASSUME NEW N, NEW st \in Seq(N), st # <<>>, Leave \in N, NEW q \in Seq(N), NEW g, g = Front(st) \o <<Leave>> \o q,
         NEW m, NEW n, m = Len(st), n = Len(q)
  PROVE  g \in Seq(N) /\ Stacked(g, st, q, m, n)
<1>1. PICK f : m = Len(st) /\ f = Front(st) /\ n = Len(q)
  OBVIOUS
<1>2. m \in Nat \ {0} /\ f \in Seq(N) /\ Len(f) = m - 1 /\ \A i \in 1..m - 1 : f[i] = st[i]
  BY <1>1, FrontIs
<1>3. PICK h : h = f \o <<Leave>>
  OBVIOUS
<1>4. h \in Seq(N) /\ Len(h) = m /\ h[m] = Leave /\ \A i \in 1..m - 1 : h[i] = st[i]
  <2>1. <<Leave>> \in Seq(N) /\ Len(<<Leave>>) = 1 /\ <<Leave>>[1] = Leave
    OBVIOUS
  <2>2. h \in Seq(N) /\ Len(h) = Len(f) + 1
    BY <1>2, <1>3, <2>1
  <2>3. \A i \in 1..Len(f) : h[i] = f[i]
    BY <1>2, <1>3, <2>1
  <2>4. h[Len(f) + 1] = Leave
    BY <1>2, <1>3, <2>1
  <2> QED
    BY <1>2, <2>2, <2>3, <2>4
<1>5. g = h \o q /\ n \in Nat
  BY <1>1, <1>3
<1>6. g \in Seq(N) /\ Len(g) = m + n
  <2>1. h \in Seq(N) /\ q \in Seq(N) /\ g = h \o q /\ Len(h) = m /\ Len(q) = n
    BY <1>1, <1>4, <1>5
  <2> QED
    BY ONLY <2>1, ConcatProperties
<1>7. \A i \in 1..m : g[i] = h[i]
  BY <1>1, <1>2, <1>4, <1>5
<1>8. \A i \in 1..n : g[m + i] = q[i]
  BY <1>1, <1>2, <1>4, <1>5
<1>9. \A i \in 1..m - 1 : g[i] = st[i]
  <2>1. \A i \in 1..m - 1 : i \in 1..m
    BY <1>2
  <2> QED
    BY ONLY <1>4, <1>7, <2>1
<1>10. g[m] = Leave
  <2>1. m \in 1..m
    BY <1>2
  <2> QED
    BY ONLY <1>4, <1>7, <2>1
<1> QED
  BY <1>1, <1>6, <1>8, <1>9, <1>10 DEF Stacked

Begins(path, st, x) == path = <<>> => st = <<x>>
Fresh(st, v, q) == \A i \in 1..Len(q) : q[i] \in Out(v) /\ ~Waits(st, q[i])
Pushing(st, path, L, v, q, g, pa, K) ==
  /\ st # <<>> /\ v = Last(st) /\ v # Leave
  /\ g = Front(st) \o <<Leave>> \o q /\ pa = Append(path, v) /\ K = Append(L, Len(st))
NowWait(g, st, v, q) ==
  \A w : w # Leave => (Waits(g, w) <=> (Waits(st, w) /\ w # v) \/ \E i \in 1..Len(q) : q[i] = w)

\* A node is visited.
LEMMA PushMark ==
  ASSUME Leave \notin Indices, NEW st \in Seq(Indices \cup {Leave}), NEW path \in Seq(Indices), NEW L, NEW x,
         Marked(st, path, L), Children(st, path, L), PathIs(path, x), OneEach(st), Begins(path, st, x),
         NEW v, NEW q \in Seq(Indices), IsInjective(q), Fresh(st, v, q),
         NEW g, NEW pa, NEW K, Pushing(st, path, L, v, q, g, pa, K)
  PROVE  /\ g \in Seq(Indices \cup {Leave}) /\ pa \in Seq(Indices) /\ v \in Indices /\ Waits(st, v)
         /\ Len(pa) = Len(path) + 1 /\ pa # <<>> /\ Last(pa) = v
         /\ Marked(g, pa, K) /\ Children(g, pa, K) /\ PathIs(pa, x) /\ OneEach(g) /\ NowWait(g, st, v, q)
<1> USE DEF Begins, Fresh, Pushing
<1>1. PICK m, n, k : m = Len(st) /\ n = Len(L) /\ k = Len(q)
  OBVIOUS
<1>2. m \in Nat \ {0} /\ st[m] = v /\ v \in Indices
  <2>1. Len(st) \in Nat \ {0} /\ Last(st) = st[Len(st)] /\ Last(st) \in Indices \cup {Leave}
    BY FrontIs
  <2> QED
    BY <1>1, <2>1
<1>3. k \in Nat /\ \A i \in 1..k : q[i] \in Indices /\ q[i] # Leave
  BY <1>1
<1>4. g \in Seq(Indices \cup {Leave}) /\ Len(g) = m + k /\ g[m] = Leave
      /\ (\A i \in 1..m - 1 : g[i] = st[i]) /\ \A i \in 1..k : g[m + i] = q[i]
  <2>1. q \in Seq(Indices \cup {Leave}) /\ Leave \in Indices \cup {Leave}
    OBVIOUS
  <2>2. g \in Seq(Indices \cup {Leave}) /\ Stacked(g, st, q, m, k)
    BY <1>1, <2>1, StackIs
  <2> QED
    BY <2>2 DEF Stacked
<1>5. L \in Seq(Nat) /\ n = Len(path) /\ n \in Nat
  BY <1>1 DEF Marked
<1>6. K \in Seq(Nat) /\ Len(K) = n + 1 /\ K[n + 1] = m /\ \A d \in 1..n : K[d] = L[d]
  <2>1. L \in Seq(Nat) /\ m \in Nat /\ K = Append(L, m) /\ Len(L) = n
    BY <1>1, <1>2, <1>5
  <2> QED
    BY ONLY <2>1, AppendProperties
<1>7. pa \in Seq(Indices) /\ Len(pa) = n + 1 /\ pa[n + 1] = v /\ \A d \in 1..n : pa[d] = path[d]
  <2>1. path \in Seq(Indices) /\ v \in Indices /\ pa = Append(path, v) /\ Len(path) = n
    BY <1>2, <1>5
  <2> QED
    BY ONLY <2>1, AppendProperties
<1>8. pa # <<>> /\ Last(pa) = v
  <2>1. Len(pa) # 0
    BY <1>5, <1>7
  <2> QED
    BY <1>7, <2>1 DEF Last
<1>9. \A d \in 1..n : L[d] \in 1..m - 1 /\ st[L[d]] = Leave
  <2>1. \A d \in 1..n : L[d] \in 1..m /\ st[L[d]] = Leave
    BY <1>1 DEF Marked
  <2>2. \A d \in 1..n : L[d] # m
    BY <1>2, <2>1
  <2> QED
    BY <1>2, <2>1, <2>2
<1>10. n = 0 => m = 1 /\ v = x
  <2>1. n = 0 => path = <<>>
    BY <1>5, EmptySeq
  <2>2. n = 0 => st = <<x>>
    BY <2>1
  <2>3. n = 0 => Len(st) = 1 /\ st[1] = x
    BY <2>2
  <2> QED
    BY <1>1, <1>2, <2>3
<1>11. \A i \in 1..m + k : \/ i \in 1..m - 1 /\ g[i] = st[i]
                           \/ i = m /\ g[i] = Leave
                           \/ i - m \in 1..k /\ g[i] = q[i - m] /\ i > m
  <2>1. \A i \in 1..m + k : i \in 1..m - 1 \/ i = m \/ (i - m \in 1..k /\ i > m /\ i = m + (i - m))
    BY <1>2, <1>3
  <2> QED
    BY <1>4, <2>1
<1>12. Marked(g, pa, K)
  <2>1. Len(K) = Len(pa)
    BY <1>6, <1>7
  <2>2. K[1] = 1
    <3>1. CASE n = 0
      BY <1>6, <1>10, <3>1
    <3>2. CASE n # 0
      <4>1. L[1] = 1 /\ 1 \in 1..n
        BY <1>1, <1>5, <3>2 DEF Marked
      <4> QED
        BY <1>6, <4>1
    <3> QED
      BY <3>1, <3>2
  <2>3. ASSUME NEW d \in 1..Len(K) PROVE K[d] \in 1..Len(g) /\ g[K[d]] = Leave
    <3>1. CASE d = n + 1
      <4>1. K[d] = m /\ m \in 1..m + k
        BY <1>2, <1>3, <1>6, <3>1
      <4> QED
        BY <1>4, <4>1
    <3>2. CASE d # n + 1
      <4>1. d \in 1..n /\ K[d] = L[d]
        BY <1>5, <1>6, <3>2
      <4>2. L[d] \in 1..m - 1 /\ st[L[d]] = Leave /\ L[d] \in 1..m + k
        BY <1>2, <1>3, <1>9, <4>1
      <4> QED
        BY <1>4, <4>1, <4>2
    <3> QED
      BY <3>1, <3>2
  <2>4. ASSUME NEW d \in 1..Len(K), NEW e \in 1..Len(K), d < e PROVE K[d] < K[e]
    <3>1. d \in 1..n /\ K[d] = L[d]
      BY <1>5, <1>6, <2>4
    <3>2. CASE e = n + 1
      <4>1. L[d] \in 1..m - 1 /\ K[e] = m
        BY <1>6, <1>9, <3>1, <3>2
      <4> QED
        BY <1>2, <3>1, <4>1
    <3>3. CASE e # n + 1
      <4>1. e \in 1..n /\ K[e] = L[e]
        BY <1>5, <1>6, <3>3
      <4>2. L[d] < L[e]
        BY <1>1, <2>4, <3>1, <4>1 DEF Marked
      <4> QED
        BY <3>1, <4>1, <4>2
    <3> QED
      BY <3>2, <3>3
  <2>5. ASSUME NEW i \in 1..Len(g), g[i] = Leave PROVE \E d \in 1..Len(K) : K[d] = i
    <3>1. i \in 1..m + k
      BY <1>4
    <3>2. CASE i \in 1..m - 1 /\ g[i] = st[i]
      <4>1. i \in 1..Len(st) /\ st[i] = Leave
        BY <1>1, <1>2, <2>5, <3>2
      <4>2. PICK d \in 1..n : L[d] = i
        BY <1>1, <4>1 DEF Marked
      <4>3. d \in 1..Len(K) /\ K[d] = i
        BY <1>5, <1>6, <4>2
      <4> QED
        BY <4>3
    <3>3. CASE i = m
      <4>1. n + 1 \in 1..Len(K) /\ K[n + 1] = i
        BY <1>5, <1>6, <3>3
      <4> QED
        BY <4>1
    <3>4. ~(i - m \in 1..k /\ g[i] = q[i - m])
      BY <1>3, <2>5
    <3> QED
      BY <1>11, <3>1, <3>2, <3>3, <3>4
  <2> QED
    BY <1>6, <2>1, <2>2, <2>3, <2>4, <2>5 DEF Marked
<1>13. Children(g, pa, K)
  <2> SUFFICES ASSUME NEW d \in 1..Len(K), NEW i \in 1..Len(g), Between(K, d, i), g[i] # Leave
               PROVE  g[i] \in Out(pa[d])
    BY DEF Children
  <2>1. d \in 1..n + 1 /\ i \in 1..m + k /\ K[d] < i /\ \A e \in d + 1..n + 1 : i < K[e]
    BY <1>4, <1>6 DEF Between
  <2>2. CASE i \in 1..m - 1 /\ g[i] = st[i]
    <3>1. d # n + 1
      BY <1>2, <1>6, <2>1, <2>2
    <3>2. d \in 1..n /\ K[d] = L[d] /\ pa[d] = path[d] /\ i \in 1..Len(st)
      <4>1. d \in 1..n /\ i \in 1..Len(st)
        BY ONLY <1>1, <1>2, <1>5, <2>1, <2>2, <3>1
      <4> QED
        BY <1>6, <1>7, <4>1
    <3>3. \A e \in d + 1..n : i < L[e]
      <4>1. \A e \in d + 1..n : e \in d + 1..n + 1 /\ e \in 1..n
        BY <1>5, <3>2
      <4> QED
        BY <1>6, <2>1, <4>1
    <3>4. Between(L, d, i)
      BY <1>1, <2>1, <3>2, <3>3 DEF Between
    <3> QED
      BY <1>1, <2>2, <3>2, <3>4 DEF Children
  <2>3. CASE i > m /\ i - m \in 1..k /\ g[i] = q[i - m]
    <3>1. d = n + 1
      <4>1. SUFFICES ASSUME d # n + 1 PROVE FALSE
        OBVIOUS
      <4>2. n + 1 \in d + 1..n + 1
        BY <1>5, <2>1, <4>1
      <4>3. i < m
        BY <1>6, <2>1, <4>2
      <4> QED
        BY <1>2, <2>1, <2>3, <4>3
    <3>2. pa[d] = v
      BY <1>7, <3>1
    <3> QED
      BY <1>1, <2>3, <3>2
  <2> QED
    BY <1>11, <2>1, <2>2, <2>3
<1>14. PathIs(pa, x)
  <2>1. ASSUME NEW i \in 1..Len(pa) - 1 PROVE pa[i + 1] \in Out(pa[i])
    <3>1. i \in 1..n /\ pa[i] = path[i] /\ n \in 1..n
      BY <1>5, <1>7
    <3>2. CASE i = n
      <4>1. L[n] < m /\ L[n] \in Nat
        BY <1>2, <1>9, <3>1
      <4>2. Between(L, n, m)
        <5>1. \A e \in n + 1..n : FALSE
          BY <1>5
        <5> QED
          BY <1>1, <4>1, <5>1 DEF Between
      <4>3. m \in 1..Len(st) /\ st[m] # Leave
        BY <1>1, <1>2
      <4>4. st[m] \in Out(path[n])
        BY <1>1, <3>1, <4>2, <4>3 DEF Children
      <4> QED
        BY <1>2, <1>7, <3>1, <3>2, <4>4
    <3>3. CASE i # n
      <4>1. i \in 1..Len(path) - 1 /\ i + 1 \in 1..n
        BY <1>5, <3>1, <3>3
      <4>2. path[i + 1] \in Out(path[i])
        BY <4>1 DEF PathIs
      <4> QED
        BY <1>7, <3>1, <4>1, <4>2
    <3> QED
      BY <3>2, <3>3
  <2>2. pa[1] = x
    <3>1. CASE n = 0
      BY <1>7, <1>10, <3>1
    <3>2. CASE n # 0
      <4>1. path # <<>> /\ 1 \in 1..n
        BY <1>5, <3>2
      <4> QED
        BY <1>7, <4>1 DEF PathIs
    <3> QED
      BY <3>1, <3>2
  <2> QED
    BY <2>1, <2>2 DEF PathIs
<1>15. OneEach(g)
  <2> SUFFICES ASSUME NEW i \in 1..m + k, NEW j \in 1..m + k, g[i] = g[j], g[i] # Leave PROVE i = j
    BY <1>4 DEF OneEach
  <2>1. \A a \in 1..m - 1 : \A b \in 1..k : st[a] # q[b]
    <3>1. \A a \in 1..m - 1 : a \in 1..Len(st)
      BY <1>1, <1>2
    <3> QED
      BY <1>1, <3>1 DEF Waits
  <2>2. \A a, b \in 1..k : q[a] = q[b] => a = b
    <3>1. DOMAIN q = 1..k
      BY <1>1
    <3> QED
      BY <3>1 DEF IsInjective
  <2>3. \A a, b \in 1..m - 1 : st[a] = st[b] /\ st[a] # Leave => a = b
    <3>1. \A a \in 1..m - 1 : a \in 1..Len(st)
      BY <1>1, <1>2
    <3> QED
      BY <3>1 DEF OneEach
  <2>4. (i \in 1..m - 1 /\ g[i] = st[i]) \/ (i - m \in 1..k /\ g[i] = q[i - m])
    BY <1>11
  <2>5. (j \in 1..m - 1 /\ g[j] = st[j]) \/ (j - m \in 1..k /\ g[j] = q[j - m])
    BY <1>11
  <2>6. CASE i \in 1..m - 1 /\ g[i] = st[i]
    BY <2>1, <2>3, <2>5, <2>6
  <2>7. CASE i - m \in 1..k /\ g[i] = q[i - m]
    <3>1. j - m \in 1..k /\ g[j] = q[j - m]
      BY <2>1, <2>5, <2>7
    <3>2. i - m = j - m
      BY <2>2, <2>7, <3>1
    <3> QED
      BY <1>2, <3>2
  <2> QED
    BY <2>4, <2>6, <2>7
<1>16. ASSUME NEW w, w # Leave
       PROVE  Waits(g, w) <=> (Waits(st, w) /\ w # v) \/ \E i \in 1..Len(q) : q[i] = w
  <2>1. ASSUME Waits(g, w) PROVE (Waits(st, w) /\ w # v) \/ \E i \in 1..Len(q) : q[i] = w
    <3>1. PICK i \in 1..m + k : g[i] = w
      BY <1>4, <2>1 DEF Waits
    <3>2. CASE i \in 1..m - 1 /\ g[i] = st[i]
      <4>1. i \in 1..Len(st) /\ m \in 1..Len(st) /\ i # m
        BY <1>1, <1>2, <3>2
      <4>2. st[i] = w
        BY <3>1, <3>2
      <4>3. w # v
        BY <1>2, <1>16, <4>1, <4>2 DEF OneEach
      <4> QED
        BY <4>1, <4>2, <4>3 DEF Waits
    <3>3. CASE i - m \in 1..k /\ g[i] = q[i - m]
      BY <1>1, <3>1, <3>3
    <3> QED
      BY <1>11, <1>16, <3>1, <3>2, <3>3
  <2>2. ASSUME Waits(st, w), w # v PROVE Waits(g, w)
    <3>1. PICK i \in 1..m : st[i] = w
      BY <1>1, <2>2 DEF Waits
    <3>2. i \in 1..m - 1 /\ i \in 1..m + k
      BY <1>2, <1>3, <2>2, <3>1
    <3> QED
      BY <1>4, <3>1, <3>2 DEF Waits
  <2>3. ASSUME NEW i \in 1..k, q[i] = w PROVE Waits(g, w)
    <3>1. m + i \in 1..m + k
      BY <1>2, <1>3
    <3> QED
      BY <1>4, <2>3, <3>1 DEF Waits
  <2> QED
    BY <1>1, <2>1, <2>2, <2>3
<1>17. Waits(st, v)
  <2>1. m \in 1..Len(st)
    BY <1>1, <1>2
  <2> QED
    BY <1>2, <2>1 DEF Waits
<1>18. NowWait(g, st, v, q)
  BY <1>16 DEF NowWait
<1> QED
  BY <1>2, <1>4, <1>5, <1>7, <1>8, <1>12, <1>13, <1>14, <1>15, <1>17, <1>18

\* A state of the search is the record of its fields.
LEMMA SearchesAre ==
  ASSUME NEW s \in SearchSet
  PROVE  /\ s.stack \in Seq(Indices \cup {Leave}) /\ s.seen \subseteq Indices /\ s.path \in Seq(Indices)
         /\ s = [stack |-> s.stack, seen |-> s.seen, path |-> s.path]
BY DEF SearchSet

\* To leave a node keeps what is said of the search.
LEMMA LeaveKeeps ==
  ASSUME GraphInv, NEW x \in Indices, NEW y \in Indices, NEW j \in Nat, NEW s, NEW X, NEW L,
         Searching(s, j, x, y, X, L), ~Stopped(s, y), Last(s.stack) = Leave
  PROVE  Searching(Descend(s), j + 1, x, y, X, Front(L))
<1>1. PICK st, path : st = s.stack /\ path = s.path
  OBVIOUS
<1>2. s \in SearchSet /\ st \in Seq(Indices \cup {Leave}) /\ path \in Seq(Indices) /\ st # <<>> /\ Last(st) = Leave
  BY <1>1, SearchesAre DEF Searching, Stopped
<1>3. PICK g : g = Descend(s)
  OBVIOUS
<1>4. g = [s EXCEPT !.stack = Front(@), !.path = Front(@)]
  BY <1>1, <1>2, <1>3 DEF Descend
<1>5. g.stack = Front(st) /\ g.path = Front(path) /\ g.seen = s.seen /\ g = [stack |-> g.stack, seen |-> g.seen, path |-> g.path]
  BY <1>1, <1>2, <1>4 DEF SearchSet
<1>6. Marked(st, path, L) /\ Children(st, path, L) /\ PathIs(path, x) /\ OneEach(st)
  BY <1>1 DEF Searching
<1>7. /\ path # <<>> /\ Marked(Front(st), Front(path), Front(L)) /\ Children(Front(st), Front(path), Front(L))
      /\ PathIs(Front(path), x) /\ OneEach(Front(st)) /\ (Front(path) = <<>> => Front(st) = <<>>)
      /\ \A v : v # Leave => (Waits(Front(st), v) <=> Waits(st, v))
  BY <1>2, <1>6, LeaveMark
<1>8. g \in SearchSet
  <2>1. Front(st) \in Seq(Indices \cup {Leave}) /\ Front(path) \in Seq(Indices)
    BY <1>2, <1>7, FrontIs
  <2> QED
    BY <1>2, <1>5, <2>1, SearchesAre DEF SearchSet
<1>9. Popped(g, x, X)
  <2>1. Leave \notin Indices
    BY DEF Leave, Indices
  <2>2. X \subseteq Indices
    BY DEF Searching, Popped
  <2>3. \A v \in Indices : Waits(g.stack, v) <=> Waits(st, v)
    BY <1>5, <1>7, <2>1
  <2>4. Popped(s, x, X)
    BY DEF Searching
  <2> QED
    BY <1>1, <1>5, <2>2, <2>3, <2>4 DEF Popped
<1>10. (j + 1) + Len(g.path) = 2 * Cardinality(X)
  <2>1. j + Len(path) = 2 * Cardinality(X)
    BY <1>1 DEF Searching
  <2>2. Len(g.path) = Len(path) - 1 /\ Len(path) \in Nat
    BY <1>2, <1>5, <1>7, FrontIs
  <2> QED
    BY <2>1, <2>2
<1>11. y \notin X
  BY <1>1, <1>2 DEF Searching, Stopped
<1>12. SeenFrom(g.seen, x)
  BY <1>5 DEF Searching
<1> QED
  BY <1>3, <1>5, <1>7, <1>8, <1>9, <1>10, <1>11, <1>12 DEF Searching

\* To visit a node keeps what is said of the search.
LEMMA PushKeeps ==
  ASSUME GraphInv, NEW x \in Indices, NEW y \in Indices, NEW j \in Nat, NEW s, NEW X, NEW L,
         Searching(s, j, x, y, X, L), ~Stopped(s, y), Last(s.stack) # Leave
  PROVE  Searching(Descend(s), j + 1, x, y, X \cup {Last(s.stack)}, Append(L, Len(s.stack)))
<1>1. PICK st, path, seen, v : st = s.stack /\ path = s.path /\ seen = s.seen /\ v = Last(st)
  OBVIOUS
<1>2. /\ s \in SearchSet /\ st \in Seq(Indices \cup {Leave}) /\ path \in Seq(Indices) /\ seen \subseteq Indices
      /\ st # <<>> /\ v # Leave
  BY <1>1, SearchesAre DEF Searching, Stopped
<1>3. PICK D, q : D = Out(v) \ seen /\ q = SetToSeq(D)
  OBVIOUS
<1>4. PICK h, g, pa, K : h = Descend(s) /\ g = Front(st) \o <<Leave>> \o q /\ pa = Append(path, v) /\ K = Append(L, Len(st))
  OBVIOUS
<1>5. h = [s EXCEPT !.stack = Front(@) \o <<Leave>> \o SetToSeq(Out(v) \ s.seen), !.seen = @ \cup Out(v), !.path = Append(@, v)]
  BY <1>1, <1>2, <1>4 DEF Descend, Push
<1>6. h.stack = g /\ h.path = pa /\ h.seen = seen \cup Out(v) /\ h = [stack |-> h.stack, seen |-> h.seen, path |-> h.path]
  BY <1>1, <1>2, <1>3, <1>4, <1>5 DEF SearchSet
<1>7. Marked(st, path, L) /\ Children(st, path, L) /\ PathIs(path, x) /\ OneEach(st) /\ Begins(path, st, x)
  BY <1>1, <1>2 DEF Searching, Begins
<1>8. Leave \notin Indices
  BY DEF Leave, Indices
<1>9. v \in Indices /\ Waits(st, v)
  <2>1. Len(st) \in Nat \ {0} /\ Last(st) = st[Len(st)] /\ Last(st) \in Indices \cup {Leave}
    BY <1>2, FrontIs
  <2>2. Len(st) \in 1..Len(st)
    BY <2>1
  <2> QED
    BY <1>1, <1>2, <2>1, <2>2 DEF Waits
<1>10. /\ X \subseteq Indices /\ \A w \in X : ~Waits(st, w) /\ Out(w) \subseteq seen
       /\ \A w \in Indices : (w \in seen \/ w = x) <=> (w \in X \/ Waits(st, w))
  BY <1>1 DEF Searching, Popped
<1>11. v \notin X /\ (v \in seen \/ v = x)
  BY <1>9, <1>10
<1>12. seen \subseteq Visited(x, Edges) /\ \A w \in seen : Rank(x) < Rank(w)
  BY <1>1 DEF Searching, SeenFrom
<1>13. Out(v) \subseteq Indices /\ (\A w \in Out(v) : Rank(v) < Rank(w)) /\ \A w \in Indices : Rank(w) \in Nat
  BY <1>9 DEF GraphInv, RanksRise, GraphTypes, Indices
<1>14. \A w \in Out(v) : Rank(x) < Rank(w) /\ w # v
  <2>1. Rank(x) =< Rank(v)
    BY <1>9, <1>11, <1>12, <1>13
  <2> QED
    BY <1>9, <1>13, <2>1
<1>15. x \notin Out(v)
  BY <1>13, <1>14
<1>16. q \in Seq(D) /\ IsInjective(q) /\ \A w \in D : \E i \in 1..Len(q) : q[i] = w
  <2>1. IsFiniteSet(Indices)
    BY IndicesAreFinite DEF GraphInv, GraphTypes
  <2>2. IsFiniteSet(D)
    BY <1>3, <1>13, <2>1, FS_Subset
  <2> QED
    BY <1>3, <2>2, SetToSeqIs
<1>17. D \subseteq Indices /\ \A i \in 1..Len(q) : q[i] \in D
  BY <1>3, <1>13, <1>16
<1>18. q \in Seq(Indices) /\ Fresh(st, v, q)
  <2>1. \A w \in D : w \in Out(v) /\ ~Waits(st, w)
    BY <1>3, <1>10, <1>13, <1>15
  <2> QED
    BY <1>16, <1>17, <2>1 DEF Fresh
<1>19. /\ g \in Seq(Indices \cup {Leave}) /\ pa \in Seq(Indices)
       /\ Len(pa) = Len(path) + 1 /\ pa # <<>> /\ Last(pa) = v
       /\ Marked(g, pa, K) /\ Children(g, pa, K) /\ PathIs(pa, x) /\ OneEach(g) /\ NowWait(g, st, v, q)
  <2>1. Pushing(st, path, L, v, q, g, pa, K)
    BY <1>1, <1>2, <1>4 DEF Pushing
  <2>2. /\ st \in Seq(Indices \cup {Leave}) /\ path \in Seq(Indices) /\ q \in Seq(Indices)
        /\ IsInjective(q) /\ Fresh(st, v, q)
    BY <1>2, <1>16, <1>18
  <2> QED
    BY ONLY <1>7, <1>8, <2>1, <2>2, PushMark
<1>20. \A w \in Indices : Waits(g, w) <=> (Waits(st, w) /\ w # v) \/ w \in D
  BY <1>8, <1>16, <1>17, <1>19 DEF NowWait
<1>21. h \in SearchSet
  BY <1>2, <1>6, <1>13, <1>19 DEF SearchSet
<1>22. Popped(h, x, X \cup {v})
  <2>1. X \cup {v} \subseteq Indices
    BY <1>9, <1>10
  <2>2. \A w \in Indices : (w \in seen \cup Out(v) \/ w = x) <=> (w \in X \cup {v} \/ Waits(g, w))
    BY <1>3, <1>9, <1>10, <1>11, <1>20
  <2>3. ASSUME NEW w \in X \cup {v} PROVE ~Waits(g, w) /\ Out(w) \subseteq seen \cup Out(v)
    <3>1. CASE w = v
      BY <1>3, <1>9, <1>14, <1>20, <3>1
    <3>2. CASE w # v
      <4>1. w \in X /\ ~Waits(st, w) /\ Out(w) \subseteq seen
        BY <1>10, <2>3, <3>2
      <4>2. w \in seen \/ w = x
        BY <1>10, <4>1
      <4>3. w \notin D
        BY <1>3, <1>15, <4>2
      <4> QED
        BY <1>10, <1>20, <4>1, <4>3
    <3> QED
      BY <3>1, <3>2
  <2> QED
    BY <1>6, <2>1, <2>2, <2>3 DEF Popped
<1>23. SeenFrom(h.seen, x)
  <2>1. v \in Visited(x, Edges) /\ \A w \in Out(v) : w \in Indices /\ <<v, w>> \in Edges
    <3>1. x \in Visited(x, Edges)
      BY VisitedIs DEF GraphInv, GraphTypes
    <3> QED
      BY <1>9, <1>11, <1>12, <1>13, <3>1 DEF Edges
  <2>2. PICK E : E = Edges
    OBVIOUS
  <2>3. \A u \in Visited(x, E) : \A w \in Indices : <<u, w>> \in E => w \in Visited(x, E)
    BY VisitedIs DEF GraphInv, GraphTypes
  <2>4. \A w \in Out(v) : w \in Visited(x, Edges)
    BY ONLY <2>1, <2>2, <2>3
  <2> QED
    BY <1>6, <1>12, <1>14, <2>4 DEF SeenFrom
<1>24. (j + 1) + Len(pa) = 2 * Cardinality(X \cup {v})
  <2>1. j + Len(path) = 2 * Cardinality(X) /\ Len(path) \in Nat
    BY <1>1, <1>2 DEF Searching
  <2>2. IsFiniteSet(X) /\ Cardinality(X) \in Nat
    <3>1. IsFiniteSet(Indices)
      BY IndicesAreFinite DEF GraphInv, GraphTypes
    <3> QED
      BY <1>10, <3>1, FS_Subset, FS_CardinalityType
  <2>3. Cardinality(X \cup {v}) = Cardinality(X) + 1
    BY <1>11, <2>2, FS_AddElement
  <2> QED
    BY <1>19, <2>1, <2>2, <2>3
<1>25. y \notin X
  BY <1>1, <1>2 DEF Searching, Stopped
<1>26. Searching(h, j + 1, x, y, X \cup {v}, K)
  BY <1>6, <1>19, <1>21, <1>22, <1>23, <1>24, <1>25 DEF Searching
<1> QED
  BY <1>1, <1>4, <1>26

\* After k steps the search is at its k-th state, or it has stopped before.
Runs(s, k, x, y) ==
  \E j, X, L : j \in Nat /\ Searching(s, j, x, y, X, L) /\ j =< k /\ (j = k \/ Stopped(s, y))

Start(x) == [stack |-> <<x>>, seen |-> {}, path |-> <<>>]
After(s, y) == IF Stopped(s, y) THEN s ELSE Descend(s)

\* The search at its start.
LEMMA StartRuns ==
  ASSUME GraphInv, NEW x \in Indices, NEW y \in Indices
  PROVE  Start(x) \in SearchSet /\ Runs(Start(x), 0, x, y)
<1>1. PICK s : s = Start(x)
  OBVIOUS
<1>2. s.stack = <<x>> /\ s.seen = {} /\ s.path = <<>> /\ s = [stack |-> <<x>>, seen |-> {}, path |-> <<>>]
  BY <1>1 DEF Start
<1>3. <<x>> \in Seq(Indices \cup {Leave}) /\ Len(<<x>>) = 1 /\ <<x>>[1] = x /\ <<>> \in Seq(Indices) /\ Len(<<>>) = 0
  OBVIOUS
<1>4. s \in SearchSet
  BY <1>2, <1>3 DEF SearchSet
<1>5. x # Leave
  BY DEF Indices, Leave
<1>6. \A v : Waits(<<x>>, v) <=> v = x
  BY <1>3 DEF Waits
<1>7. OneEach(s.stack) /\ Popped(s, x, {}) /\ SeenFrom(s.seen, x)
  <2>1. OneEach(<<x>>)
    BY <1>3 DEF OneEach
  <2>2. Popped(s, x, {})
    BY <1>2, <1>6 DEF Popped
  <2>3. SeenFrom({}, x)
    BY DEF SeenFrom
  <2> QED
    BY <1>2, <2>1, <2>2, <2>3
<1>8. Marked(s.stack, s.path, <<>>) /\ Children(s.stack, s.path, <<>>) /\ PathIs(s.path, x)
  <2>1. Marked(<<x>>, <<>>, <<>>)
    BY <1>3, <1>5 DEF Marked
  <2>2. Children(<<x>>, <<>>, <<>>)
    BY <1>3 DEF Children
  <2>3. PathIs(<<>>, x)
    BY <1>3 DEF PathIs
  <2> QED
    BY <1>2, <2>1, <2>2, <2>3
<1>9. 0 + Len(s.path) = 2 * Cardinality({})
  BY <1>2, <1>3, FS_EmptySet
<1>10. Searching(s, 0, x, y, {}, <<>>)
  BY <1>2, <1>4, <1>7, <1>8, <1>9 DEF Searching
<1> QED
  BY <1>1, <1>4, <1>10 DEF Runs

\* The search after one more step.
LEMMA AfterRuns ==
  ASSUME GraphInv, NEW x \in Indices, NEW y \in Indices, NEW k \in Nat, NEW s, Runs(s, k, x, y)
  PROVE  After(s, y) \in SearchSet /\ Runs(After(s, y), k + 1, x, y)
<1>1. PICK j, X, L : j \in Nat /\ Searching(s, j, x, y, X, L) /\ j =< k /\ (j = k \/ Stopped(s, y))
  BY DEF Runs
<1>2. CASE Stopped(s, y)
  <2>1. After(s, y) = s /\ s \in SearchSet /\ j =< k + 1
    BY <1>1, <1>2 DEF After, Searching
  <2>2. Runs(s, k + 1, x, y)
    BY <1>1, <1>2, <2>1 DEF Runs
  <2> QED
    BY <2>1, <2>2
<1>3. CASE ~Stopped(s, y)
  <2>1. After(s, y) = Descend(s) /\ j = k
    BY <1>1, <1>3 DEF After
  <2>2. PICK Y, M : Searching(Descend(s), j + 1, x, y, Y, M)
    BY <1>1, <1>3, LeaveKeeps, PushKeeps
  <2>3. Descend(s) \in SearchSet
    BY <2>2 DEF Searching
  <2>4. Runs(Descend(s), k + 1, x, y)
    BY <2>1, <2>2 DEF Runs
  <2> QED
    BY <2>1, <2>3, <2>4
<1> QED
  BY <1>2, <1>3

\* FindPath is the path of a state in which the search has run for long enough.
LEMMA FindPathIs ==
  ASSUME GraphInv, NEW x \in Indices, NEW y \in Indices
  PROVE  \E s : FindPath(x, y) = s.path /\ Runs(s, 2 * Len(nodes_), x, y)
<1> DEFINE N == 2 * Len(nodes_)
           Is(g) == g = [k \in 0..N |->
                           IF k = 0 THEN [stack |-> <<x>>, seen |-> {}, path |-> <<>>]
                           ELSE LET s == g[k - 1]
                                IN  IF s.stack = <<>> \/ (s.path # <<>> /\ Last(s.path) = y) THEN s ELSE Descend(s)]
           search == CHOOSE g : Is(g)
           F == [s \in SearchSet |-> IF After(s, y) \in SearchSet THEN After(s, y) ELSE s]
<1>1. FindPath(x, y) = search[N].path /\ N \in Nat
  <2>1. FindPath(x, y) = search[N].path
    BY DEF FindPath
  <2>2. N \in Nat
    BY DEF GraphInv, GraphTypes
  <2> QED
    BY <2>1, <2>2
<1>2. F \in [SearchSet -> SearchSet] /\ \A s \in SearchSet : After(s, y) \in SearchSet => F[s] = After(s, y)
  OBVIOUS
<1> HIDE DEF F, N
<1>3. Start(x) \in SearchSet /\ Runs(Start(x), 0, x, y)
  BY StartRuns
<1>4. PICK h : Iterates(h, SearchSet, F, Start(x), N)
  BY ONLY <1>1, <1>2, <1>3, CanIterate
<1>5. h \in [0..N -> SearchSet] /\ h[0] = Start(x) /\ \A k \in 1..N : h[k] = F[h[k - 1]]
  BY <1>4 DEF Iterates
<1>6. \A k \in Nat : k \in 0..N => Runs(h[k], k, x, y)
  <2> DEFINE K == {k \in Nat : k \in 0..N => Runs(h[k], k, x, y)}
  <2>1. 0 \in K
    BY <1>3, <1>5
  <2>2. ASSUME NEW k \in Nat, k \in K PROVE k + 1 \in K
    <3> SUFFICES ASSUME k + 1 \in 0..N PROVE Runs(h[k + 1], k + 1, x, y)
      OBVIOUS
    <3>1. k \in 0..N /\ k + 1 \in 1..N /\ (k + 1) - 1 = k
      BY <1>1
    <3>2. Runs(h[k], k, x, y) /\ h[k + 1] = F[h[k]] /\ h[k] \in SearchSet
      BY <1>5, <2>2, <3>1
    <3>3. After(h[k], y) \in SearchSet /\ Runs(After(h[k], y), k + 1, x, y)
      BY <3>2, AfterRuns
    <3>4. h[k + 1] = After(h[k], y)
      BY <1>2, <3>2, <3>3
    <3> QED
      BY <3>3, <3>4
  <2> HIDE DEF K
  <2>3. K = Nat
    BY <2>1, <2>2, Induction DEF K
  <2> QED
    BY <2>3 DEF K
<1>7. \A k \in 1..N : h[k] = After(h[k - 1], y)
  <2> SUFFICES ASSUME NEW k \in 1..N PROVE h[k] = After(h[k - 1], y)
    OBVIOUS
  <2>1. k - 1 \in 0..N /\ k - 1 \in Nat
    BY <1>1
  <2>2. Runs(h[k - 1], k - 1, x, y) /\ h[k] = F[h[k - 1]] /\ h[k - 1] \in SearchSet
    BY <1>5, <1>6, <2>1
  <2>3. After(h[k - 1], y) \in SearchSet
    BY <2>1, <2>2, AfterRuns
  <2> QED
    BY <1>2, <2>2, <2>3
<1>8. \A g : Is(g) <=> g = [k \in 0..N |-> IF k = 0 THEN Start(x) ELSE After(g[k - 1], y)]
  BY DEF Start, After, Stopped
<1> HIDE DEF Is
<1>9. Is(h)
  <2>1. h = [k \in 0..N |-> IF k = 0 THEN Start(x) ELSE After(h[k - 1], y)]
    <3>1. \A k \in 0..N : h[k] = IF k = 0 THEN Start(x) ELSE After(h[k - 1], y)
      <4> SUFFICES ASSUME NEW k \in 0..N PROVE h[k] = IF k = 0 THEN Start(x) ELSE After(h[k - 1], y)
        OBVIOUS
      <4>1. k # 0 => k \in 1..N
        BY <1>1
      <4> QED
        BY <1>5, <1>7, <4>1
    <3> QED
      BY ONLY <1>5, <3>1
  <2> QED
    BY <1>8, <2>1
<1>10. Is(search)
  BY <1>9
<1> HIDE DEF search
<1>11. \A k \in 0..N : search[k] = IF k = 0 THEN Start(x) ELSE After(search[k - 1], y)
  <2>1. search = [k \in 0..N |-> IF k = 0 THEN Start(x) ELSE After(search[k - 1], y)]
    BY <1>8, <1>10
  <2> QED
    BY ONLY <2>1
<1>12. \A k \in Nat : k \in 0..N => search[k] = h[k]
  <2> DEFINE K == {k \in Nat : k \in 0..N => search[k] = h[k]}
  <2>1. 0 \in K
    BY <1>1, <1>5, <1>11
  <2>2. ASSUME NEW k \in Nat, k \in K PROVE k + 1 \in K
    <3> SUFFICES ASSUME k + 1 \in 0..N PROVE search[k + 1] = h[k + 1]
      OBVIOUS
    <3>1. k \in 0..N /\ k + 1 \in 1..N /\ (k + 1) - 1 = k /\ k + 1 # 0
      BY <1>1
    <3> QED
      BY <1>7, <1>11, <2>2, <3>1
  <2> HIDE DEF K
  <2>3. K = Nat
    BY <2>1, <2>2, Induction DEF K
  <2> QED
    BY <2>3 DEF K
<1>13. search[N] = h[N] /\ Runs(h[N], N, x, y)
  <2>1. N \in 0..N
    BY <1>1
  <2> QED
    BY <1>1, <1>6, <1>12, <2>1
<1>14. FindPath(x, y) = h[N].path
  BY <1>1, <1>13
<1> QED
  BY <1>13, <1>14 DEF N

\* A path whose ranks rise has no node twice.
LEMMA PathRises ==
  ASSUME GraphInv, NEW path \in Seq(Indices), NEW x, PathIs(path, x)
  PROVE  IsInjective(path)
<1>1. PICK n : n = Len(path)
  OBVIOUS
<1>2. n \in Nat /\ DOMAIN path = 1..n /\ \A i \in 1..n : path[i] \in Indices /\ Rank(path[i]) \in Nat
  BY <1>1 DEF GraphInv, GraphTypes, Indices
<1>3. \A i \in 1..n - 1 : Rank(path[i]) < Rank(path[i + 1])
  <2> SUFFICES ASSUME NEW i \in 1..n - 1 PROVE Rank(path[i]) < Rank(path[i + 1])
    OBVIOUS
  <2>1. path[i + 1] \in Out(path[i])
    BY <1>1 DEF PathIs
  <2>2. path[i] \in Indices
    BY <1>2
  <2> QED
    BY <2>1, <2>2 DEF GraphInv, RanksRise
<1> DEFINE K == {k \in Nat : \A i \in 1..n : i + k + 1 \in 1..n => Rank(path[i]) < Rank(path[i + k + 1])}
<1>4. 0 \in K
  <2> SUFFICES ASSUME NEW i \in 1..n, i + 0 + 1 \in 1..n PROVE Rank(path[i]) < Rank(path[i + 0 + 1])
    OBVIOUS
  <2>1. i \in 1..n - 1 /\ i + 0 + 1 = i + 1
    BY <1>2
  <2> QED
    BY <1>3, <2>1
<1>5. ASSUME NEW k \in Nat, k \in K PROVE k + 1 \in K
  <2> SUFFICES ASSUME NEW i \in 1..n, i + (k + 1) + 1 \in 1..n PROVE Rank(path[i]) < Rank(path[i + (k + 1) + 1])
    OBVIOUS
  <2>1. PICK a, b : a = i + k + 1 /\ b = i + (k + 1) + 1
    OBVIOUS
  <2>2. a \in 1..n - 1 /\ b = a + 1 /\ a \in 1..n /\ b \in 1..n
    BY <1>2, <2>1
  <2>3. Rank(path[i]) < Rank(path[a])
    BY <1>5, <2>1, <2>2
  <2>4. Rank(path[a]) < Rank(path[b])
    BY <1>3, <2>2
  <2>5. Rank(path[i]) \in Nat /\ Rank(path[a]) \in Nat /\ Rank(path[b]) \in Nat
    BY <1>2, <2>2
  <2>6. Rank(path[i]) < Rank(path[b])
    BY <2>3, <2>4, <2>5
  <2> QED
    BY <2>1, <2>6
<1> HIDE DEF K
<1>6. K = Nat
  BY <1>4, <1>5, Induction DEF K
<1>7. \A i, j \in 1..n : i < j => Rank(path[i]) < Rank(path[j])
  <2> SUFFICES ASSUME NEW i \in 1..n, NEW j \in 1..n, i < j PROVE Rank(path[i]) < Rank(path[j])
    OBVIOUS
  <2>1. PICK k : k = j - i - 1
    OBVIOUS
  <2>2. k \in Nat /\ i + k + 1 = j
    BY <1>2, <2>1
  <2>3. k \in K
    BY <1>6, <2>2
  <2> QED
    BY <2>2, <2>3 DEF K
<1>8. ASSUME NEW i \in 1..n, NEW j \in 1..n, path[i] = path[j] PROVE i = j
  <2>1. Rank(path[i]) = Rank(path[j]) /\ Rank(path[i]) \in Nat
    BY <1>2, <1>8
  <2>2. ~(i < j) /\ ~(j < i)
    BY <1>7, <2>1
  <2> QED
    BY <1>2, <2>2
<1> QED
  BY <1>2, <1>8 DEF IsInjective

\* When it was there as often as there may be steps, the search has stopped.
LEMMA RunsStops ==
  ASSUME GraphInv, NEW x \in Indices, NEW y \in Indices, NEW s, Runs(s, 2 * Len(nodes_), x, y)
  PROVE  \E j, X, L : j \in Nat /\ Searching(s, j, x, y, X, L) /\ Stopped(s, y)
<1>1. PICK j, X, L : j \in Nat /\ Searching(s, j, x, y, X, L) /\ (j = 2 * Len(nodes_) \/ Stopped(s, y))
  BY DEF Runs
<1>2. CASE j = 2 * Len(nodes_)
  <2>1. IsFiniteSet(Indices) /\ Cardinality(Indices) = Len(nodes_) /\ Len(nodes_) \in Nat
    BY IndicesAreFinite DEF GraphInv, GraphTypes
  <2>2. X \subseteq Indices /\ j + Len(s.path) = 2 * Cardinality(X) /\ s.path \in Seq(Indices)
    BY <1>1, SearchesAre DEF Searching, Popped
  <2>3. IsFiniteSet(X) /\ Cardinality(X) \in Nat /\ Cardinality(X) =< Len(nodes_)
    <3>1. IsFiniteSet(X) /\ Cardinality(X) =< Cardinality(Indices)
      BY <2>1, <2>2, FS_Subset
    <3>2. Cardinality(X) \in Nat
      BY <3>1, FS_CardinalityType
    <3> QED
      BY <2>1, <3>1, <3>2
  <2>4. Len(s.path) \in Nat
    BY <2>2
  <2>5. Cardinality(X) = Len(nodes_) /\ Len(s.path) = 0
    <3>1. PICK c, n, p : c = Cardinality(X) /\ n = Len(nodes_) /\ p = Len(s.path)
      OBVIOUS
    <3>2. c \in Nat /\ n \in Nat /\ p \in Nat /\ c =< n /\ 2 * n + p = 2 * c
      BY <1>2, <2>1, <2>2, <2>3, <2>4, <3>1
    <3>3. c = n /\ p = 0
      BY ONLY <3>2
    <3> QED
      BY <3>1, <3>3
  <2>6. X = Indices
    <3>1. Cardinality(Indices) = Cardinality(X)
      BY <2>1, <2>5
    <3> QED
      BY ONLY <2>1, <2>2, <3>1, FS_Subset
  <2>7. s.path = <<>>
    BY <2>2, <2>5, EmptySeq
  <2>8. s.stack = <<>> \/ s.stack = <<x>>
    BY <1>1, <2>7 DEF Searching
  <2>9. ~Waits(s.stack, x)
    BY <1>1, <2>6 DEF Searching, Popped
  <2>10. s.stack # <<x>>
    <3>1. Waits(<<x>>, x)
      <4>1. Len(<<x>>) = 1 /\ <<x>>[1] = x
        OBVIOUS
      <4> QED
        BY <4>1 DEF Waits
    <3> QED
      BY <2>9, <3>1
  <2> QED
    BY <1>1, <2>8, <2>10 DEF Stopped
<1> QED
  BY <1>1, <1>2

\* What the search finds when it stops.
LEMMA StoppedFinds ==
  ASSUME GraphInv, NEW x \in Indices, NEW y \in Indices, NEW s, NEW j, NEW X, NEW L,
         Searching(s, j, x, y, X, L), Stopped(s, y)
  PROVE  /\ s.path # <<>> <=> y \in Visited(x, Edges)
         /\ s.path # <<>> => Last(s.path) = y
         /\ PathIs(s.path, x) /\ s.path \in Seq(Indices)
<1>1. PICK path, E, V : path = s.path /\ E = Edges /\ V = Visited(x, E)
  OBVIOUS
<1>2. path \in Seq(Indices) /\ PathIs(path, x)
  BY <1>1, SearchesAre DEF Searching
<1>3. /\ x \in V /\ V \subseteq Indices /\ \A v \in V : \A w \in Indices : <<v, w>> \in E => w \in V
      /\ \A T : x \in T /\ (\A v \in T : \A w \in Indices : <<v, w>> \in E => w \in T) => V \subseteq T
  <2>1. Len(nodes_) \in Nat
    BY DEF GraphInv, GraphTypes
  <2> QED
    BY <1>1, <2>1, VisitedIs
<1>4. \A v, w \in Indices : <<v, w>> \in E <=> w \in Out(v)
  BY <1>1 DEF Edges
<1>5. path # <<>> => Last(path) = y
  <2>1. s.stack = <<>> => path = <<>>
    <3>1. Marked(s.stack, path, L)
      BY <1>1 DEF Searching
    <3>2. s.stack = <<>> => Len(s.stack) = 0
      OBVIOUS
    <3>3. s.stack = <<>> => Len(L) = 0
      <4>1. Len(L) \in Nat /\ \A d \in 1..Len(L) : L[d] \in 1..Len(s.stack)
        BY <3>1 DEF Marked
      <4>2. Len(L) # 0 => 1 \in 1..Len(L)
        BY <4>1
      <4> QED
        BY <3>2, <4>1, <4>2
    <3>4. Len(L) = Len(path)
      BY <3>1 DEF Marked
    <3> QED
      BY <1>2, <3>3, <3>4, EmptySeq
  <2> QED
    BY <1>1, <2>1 DEF Stopped
<1>6. path # <<>> => y \in V
  <2> SUFFICES ASSUME path # <<>> PROVE y \in V
    OBVIOUS
  <2> DEFINE n == Len(path)
             K == {k \in Nat : k + 1 \in 1..n => path[k + 1] \in V}
  <2>1. n \in Nat \ {0} /\ \A i \in 1..n : path[i] \in Indices
    BY <1>2, EmptySeq
  <2>2. 0 \in K
    BY <1>2, <1>3 DEF PathIs
  <2>3. ASSUME NEW k \in Nat, k \in K PROVE k + 1 \in K
    <3> SUFFICES ASSUME (k + 1) + 1 \in 1..n PROVE path[(k + 1) + 1] \in V
      OBVIOUS
    <3>1. PICK i : i = k + 1
      OBVIOUS
    <3>2. i \in 1..n - 1 /\ i \in 1..n /\ i + 1 \in 1..n
      BY <2>1, <3>1
    <3>3. path[i + 1] \in Out(path[i]) /\ path[i] \in V
      BY <1>2, <2>3, <3>1, <3>2 DEF PathIs
    <3>4. path[i + 1] \in Indices /\ path[i] \in Indices
      BY <2>1, <3>2
    <3>5. \A v \in V : \A w \in Indices : <<v, w>> \in E => w \in V
      BY <1>3
    <3>6. <<path[i], path[i + 1]>> \in E
      BY ONLY <1>4, <3>3, <3>4
    <3>7. path[i + 1] \in V
      BY ONLY <3>3, <3>4, <3>5, <3>6
    <3> QED
      BY <3>1, <3>7
  <2> HIDE DEF K
  <2>4. K = Nat
    BY <2>2, <2>3, Induction DEF K
  <2>5. n - 1 \in K /\ (n - 1) + 1 = n /\ n \in 1..n
    BY <2>1, <2>4
  <2>6. path[n] \in V
    BY <2>5 DEF K
  <2> QED
    BY <1>5, <2>6 DEF Last
<1>7. path = <<>> => y \notin V
  <2> SUFFICES ASSUME path = <<>> PROVE y \notin V
    OBVIOUS
  <2>1. s.stack = <<>>
    BY <1>1 DEF Stopped
  <2>2. \A v : ~Waits(s.stack, v)
    BY <2>1 DEF Waits
  <2>3. /\ \A v \in Indices : (v \in s.seen \/ v = x) <=> v \in X
        /\ X \subseteq Indices /\ \A v \in X : Out(v) \subseteq s.seen
    BY <2>2 DEF Searching, Popped
  <2>4. x \in X
    BY <2>3
  <2>5. \A v \in X : \A w \in Indices : <<v, w>> \in E => w \in X
    BY <1>4, <2>3
  <2>6. V \subseteq X
    BY ONLY <1>3, <2>4, <2>5
  <2>7. y \notin X
    BY <1>1 DEF Searching
  <2> QED
    BY <2>6, <2>7
<1> QED
  BY <1>1, <1>2, <1>5, <1>6, <1>7

\* FindPath finds a path exactly if there is one.
LEMMA PathsAreFound ==
  ASSUME GraphInv PROVE PathsFound
<1> SUFFICES ASSUME NEW x \in Indices, NEW y \in Indices, NEW path, path = FindPath(x, y)
             PROVE  /\ path # <<>> <=> y \in Visited(x, Edges)
                    /\ path # <<>> => path[1] = x /\ Last(path) = y /\ IsInjective(path)
                    /\ \A i \in 1..Len(path) - 1 : path[i + 1] \in Out(path[i])
  BY DEF PathsFound
<1>1. PICK s : path = s.path /\ Runs(s, 2 * Len(nodes_), x, y)
  BY FindPathIs
<1>2. PICK j, X, L : j \in Nat /\ Searching(s, j, x, y, X, L) /\ Stopped(s, y)
  BY <1>1, RunsStops
<1>3. /\ path # <<>> <=> y \in Visited(x, Edges)
      /\ path # <<>> => Last(path) = y
      /\ PathIs(path, x) /\ path \in Seq(Indices)
  BY <1>1, <1>2, StoppedFinds
<1>4. IsInjective(path)
  BY <1>3, PathRises
<1> QED
  BY <1>3, <1>4 DEF PathIs

-----------------------------------------------------------------------------
(* The theorems.                                                           *)

\* What in and out say, and which nodes are in use.
LEMMA EdgesAgree ==
  ASSUME GraphInv PROVE EdgesMirrored
BY DEF GraphInv, Mirrored, InUse, EdgesMirrored

\* An id that was handed out has a node in use, or is out of date.
LEMMA IdsAreHanded ==
  ASSUME GraphInv, NEW id \in Ids PROVE Handed(id)
<1>1. PICK i : i = id.index
  OBVIOUS
<1>2. i \in Indices /\ (Valid(id) => ~Contains(free_nodes_, i))
  BY <1>1 DEF Ids
<1>3. Node(i).ptr = NullPtr => Contains(free_nodes_, i)
  BY <1>2 DEF GraphInv, InUse
<1> QED
  BY <1>1, <1>2, <1>3 DEF Handed

\* Every step of the graph keeps its invariant.
LEMMA GraphSteps ==
  ASSUME GraphCyclesAssumption, GraphInv, [Next]_graph PROVE GraphInv'
<1>1. CASE UNCHANGED graph
  BY <1>1, GraphUnchanged
<1>2. ASSUME NEW p \in Ptrs, GetId(p) PROVE GraphInv'
  BY <1>2, GetIdKeeps
<1>3. ASSUME NEW p \in Ptrs, HasPtr(p) => Node(Find(p)).version < MaxVersion, RemoveNode(p)
      PROVE  GraphInv'
  <2>1. Node(Find(p)).version < MaxVersion
    BY <1>3 DEF RemoveNode
  <2> QED
    BY <1>3, <2>1, RemoveNodeKeeps
<1>4. ASSUME NEW idx \in Ids, NEW idy \in Ids, InsertEdge(idx, idy) PROVE GraphInv'
  <2>1. Handed(idx) /\ Handed(idy)
    BY IdsAreHanded
  <2> QED
    BY <1>4, <2>1, InsertEdgeKeeps
<1>5. ASSUME NEW idx \in Ids, NEW idy \in Ids, RemoveEdge(idx, idy) PROVE GraphInv'
  <2>1. idx.index \in Indices /\ idy.index \in Indices
    BY IdsAreHanded DEF Handed
  <2> QED
    BY <1>5, <2>1, RemoveEdgeKeeps
<1> QED
  BY <1>1, <1>2, <1>3, <1>4, <1>5 DEF Next

-----------------------------------------------------------------------------
(* Every step of the graph is one of AcyclicGraph.                         *)

\* Nothing is there in the beginning.
LEMMA BeginsEmpty ==
  ASSUME Init PROVE Live = {} /\ PtrEdges = {} /\ res = TRUE
<1>1. Indices = {} /\ res = TRUE
  BY DEF Init, Indices
<1> QED
  BY <1>1, LiveIs, PtrEdgesAre

\* What leaves the graph alone.
LEMMA GraphStays ==
  ASSUME UNCHANGED graph PROVE AcyclicStep
<1>1. nodes_' = nodes_ /\ res' = res
  BY DEF graph
<1>2. NothingDone
  BY <1>1 DEF NothingDone, Live, PtrEdges, Edges, Indices, Out, Node
<1> QED
  BY <1>2 DEF AcyclicStep

\* GetGraphId adds a node or does nothing.
LEMMA GetGraphIdAdds ==
  ASSUME GraphCyclesAssumption, GraphInv, NEW mu \in Ptrs, GetGraphId(mu) PROVE AcyclicStep
<1>1. CASE UNCHANGED graph
  BY <1>1, GraphStays
<1>2. CASE GetId(mu)
  BY <1>2, GetIdAdds DEF AcyclicStep
<1> QED
  BY <1>1, <1>2 DEF GetGraphId

\* Every step of the graph.
LEMMA GraphStepsAreAcyclic ==
  ASSUME GraphCyclesAssumption, GraphInv, [Next]_graph PROVE AcyclicStep
<1>1. CASE UNCHANGED graph
  BY <1>1, GraphStays
<1>2. ASSUME NEW p \in Ptrs, GetId(p) PROVE AcyclicStep
  BY <1>2, GetIdAdds DEF AcyclicStep
<1>3. ASSUME NEW p \in Ptrs, HasPtr(p) => Node(Find(p)).version < MaxVersion, RemoveNode(p)
      PROVE  AcyclicStep
  <2>1. Node(Find(p)).version < MaxVersion
    BY <1>3 DEF RemoveNode
  <2> QED
    BY <1>3, <2>1, RemoveNodeTakes DEF AcyclicStep
<1>4. ASSUME NEW idx \in Ids, NEW idy \in Ids, InsertEdge(idx, idy) PROVE AcyclicStep
  <2>1. Handed(idx) /\ Handed(idy)
    BY IdsAreHanded
  <2> QED
    BY <1>4, <2>1, InsertEdgeAsks DEF AcyclicStep
<1>5. ASSUME NEW idx \in Ids, NEW idy \in Ids, RemoveEdge(idx, idy) PROVE AcyclicStep
  <2>1. Handed(idx) /\ Handed(idy)
    BY IdsAreHanded
  <2> QED
    BY <1>5, <2>1, RemoveEdgeTakes DEF AcyclicStep
<1> QED
  BY <1>1, <1>2, <1>3, <1>4, <1>5 DEF Next

\* Every step of the detector.
LEMMA DetectorStepsAreAcyclic ==
  ASSUME DeadlockDetectorAssumption, DetectorInv, [DNext]_vars PROVE AcyclicStep
<1>1. GraphCyclesAssumption /\ GraphInv /\ NullPtr \notin Ptrs
  BY DEF DeadlockDetectorAssumption, DetectorInv, GraphCyclesAssumption
<1>2. CASE UNCHANGED graph
  BY <1>2, GraphStays
<1>3. ASSUME NEW mu \in Forgotten, ForgetDeadlockInfo(mu) PROVE AcyclicStep
  <2>1. mu \in Ptrs
    BY DEF DeadlockDetectorAssumption
  <2>2. RemoveNode(mu) /\ Node(Find(mu)).version < MaxVersion
    BY <1>3 DEF ForgetDeadlockInfo
  <2> QED
    BY <1>1, <2>1, <2>2, RemoveNodeTakes DEF AcyclicStep
<1>4. ASSUME NEW t \in Threads, CheckLock(t) PROVE AcyclicStep
  <2>1. PICK a, h, l : a = acquiring[t] /\ h = all_locks[t] /\ l = h.locks[a.next]
    OBVIOUS
  <2>2. /\ graph_mu = t
        /\ IF Ptr(l.id) = NullPtr THEN UNCHANGED graph ELSE InsertEdge(l.id, a.id)
    BY <1>4, <2>1 DEF CheckLock
  <2>3. Handed(l.id) /\ Handed(a.id)
    BY <2>1, <2>2, CheckedIds
  <2>4. CASE UNCHANGED graph
    BY <2>4, GraphStays
  <2>5. CASE InsertEdge(l.id, a.id)
    BY <1>1, <2>3, <2>5, InsertEdgeAsks DEF AcyclicStep
  <2> QED
    BY <2>2, <2>4, <2>5
<1>5. ASSUME NEW mu \in Ptrs, GetGraphId(mu) PROVE AcyclicStep
  BY <1>1, <1>5, GetGraphIdAdds
<1>6. ASSUME NEW t \in Threads,
             \/ CheckLock(t) \/ Acquire(t)
             \/ \E mu \in Ptrs : \/ \E shared \in Modes : StartCheck(t, mu, shared) \/ TryLock(t, mu, shared)
                                 \/ Unlock(t, mu)
      PROVE  AcyclicStep
  <2>1. Acquire(t) => UNCHANGED graph
    BY DEF Acquire
  <2>2. ASSUME NEW mu \in Ptrs, NEW shared \in Modes, StartCheck(t, mu, shared) \/ TryLock(t, mu, shared)
        PROVE  GetGraphId(mu)
    BY <2>2 DEF StartCheck, TryLock
  <2>3. ASSUME NEW mu \in Ptrs, Unlock(t, mu) PROVE GetGraphId(mu)
    BY <2>3 DEF Unlock
  <2> QED
    BY <1>2, <1>4, <1>5, <1>6, <2>1, <2>2, <2>3
<1>7. UNCHANGED vars => UNCHANGED graph
  BY DEF vars
<1> QED
  BY <1>2, <1>3, <1>6, <1>7 DEF DNext

\* GraphCycles::CheckInvariants holds after every operation, in any order and with ids that
\* have expired: the ranks are a permutation that every edge goes up, so that the graph has
\* no cycle; in and out agree; and FindPath finds a path exactly if there is one.
THEOREM GraphIsSound ==
  ASSUME GraphCyclesAssumption
  PROVE  Spec => [](RanksOrderEdges /\ EdgesMirrored /\ PathsFound)
<1>1. Init => GraphInv
  BY InitGraph
<1>2. GraphInv /\ [Next]_graph => GraphInv'
  BY GraphSteps
<1>3. GraphInv => RanksOrderEdges /\ EdgesMirrored /\ PathsFound
  BY RanksAreAll, EdgesAgree, PathsAreFound
<1> QED
  BY <1>1, <1>2, <1>3, PTL DEF Spec

\* Threads that lock, share, try, release and forget mutexes: a ring of threads that wait for
\* each other was reported by one of them before it blocked, for as long as none of them has
\* lost track; a list names what its thread holds; and LockLeave never finds a fault in a
\* correct program.
THEOREM DetectorIsSound ==
  ASSUME DeadlockDetectorAssumption
  PROVE  DInit /\ [][DNext]_vars => [](DeadlocksReported /\ HeldIsListed /\ NeverDies)
<1>1. DInit => DetectorInv
  BY InitDetector
<1>2. DetectorInv /\ [DNext]_vars => DetectorInv'
  BY StepsKeepInvariant
<1>3. DetectorInv => DeadlocksReported /\ HeldIsListed /\ NeverDies
  <2>1. DetectorInv => DeadlocksReported
    BY NoRing
  <2>2. DetectorInv => HeldIsListed
    BY ListIsComplete
  <2>3. DetectorInv => NeverDies
    BY DEF DetectorInv, DetectorTypes, NeverDies
  <2> QED
    BY <2>1, <2>2, <2>3
<1> QED
  BY <1>1, <1>2, <1>3, PTL
=============================================================================
