------------------------------- MODULE Btree -------------------------------
(***************************************************************************)
(* The B-tree of absl/container/internal/btree.h, on which btree_set,      *)
(* btree_map and the multi- containers are built. A node knows its parent  *)
(* and its position there; the parent of the root is the leftmost leaf.    *)
(*                                                                         *)
(* Only the order of values matters. The values of a tree are the numbers  *)
(* 2, 4, ... 2 * size, and the odd ones are the keys between them: when    *)
(* one is inserted those behind it move up.                                *)
(***************************************************************************)
EXTENDS Integers, Sequences, FiniteSets, SequencesExt

CONSTANTS kNodeSlots, MaxValues, Multi

BtreeAssumption == kNodeSlots \in Nat /\ kNodeSlots >= 3 /\ MaxValues \in Nat /\ Multi \in BOOLEAN

VARIABLES tree,   \* nodes by their addresses, root_, rightmost_ and size_
          ret     \* the value that the last call's iterator points to, and history: the
                  \* one that it is to point to

vars == <<tree, ret>>

kMinNodeValues == kNodeSlots \div 2
EmptyNode == 0
Hole == -1     \* what is at a place that is not set

Leaf(position, max_count, parent) ==
  [internal |-> FALSE, parent |-> parent, position |-> position, max_count |-> max_count,
   slots |-> <<>>, children |-> <<>>]
Empty == [nodes |-> (EmptyNode :> Leaf(0, 0, EmptyNode)), root |-> EmptyNode,
          rightmost |-> EmptyNode, size |-> 0]

Count(ns, n) == Len(ns[n].slots)
Child(ns, n, i) == ns[n].children[i + 1]
Children(ns, n) == Range(ns[n].children)
IsRoot(ns, n) == ~ns[ns[n].parent].internal
Smaller(a, b) == IF a < b THEN a ELSE b
Larger(a, b) == IF a > b THEN a ELSE b
NewNode(ns) == CHOOSE n \in 1 .. Cardinality(DOMAIN ns) : n \notin DOMAIN ns
Without(ns, gone) == [n \in DOMAIN ns \ gone |-> ns[n]]

\* Of children: a leaf has none.
Part(ch, i, j) == SubSeq(ch, i, Smaller(j, Len(ch)))

\* The one element, evaluated once.
Only(S) == CHOOSE x \in S : TRUE

\* set_child, for the children of p at positions is; init_child sets the parent too.
Placed(ns, p, is, c) == CHOOSE i \in is : Child(ns, p, i) = c
SetChildren(ns, p, is) ==
  [c \in DOMAIN ns |-> IF \E i \in is : Child(ns, p, i) = c
                         THEN [ns[c] EXCEPT !.position = Placed(ns, p, is, c)] ELSE ns[c]]
InitChildren(ns, p, is) ==
  [c \in DOMAIN ns |-> IF \E i \in is : Child(ns, p, i) = c
                         THEN [ns[c] EXCEPT !.position = Placed(ns, p, is, c), !.parent = p]
                         ELSE ns[c]]

-----------------------------------------------------------------------------
(* Nodes.                                                                  *)

emplace_value(ns, n, i, v) ==
  LET ch == ns[n].children
      shifted == [ns EXCEPT ![n].slots = InsertAt(@, i + 1, v),
                            ![n].children = IF ns[n].internal THEN InsertAt(@, i + 2, Hole) ELSE @]
  IN  IF ns[n].internal THEN SetChildren(shifted, n, i + 2 .. Len(ch)) ELSE shifted

RECURSIVE Subtree(_, _)
Subtree(ns, n) == {n} \cup UNION {Subtree(ns, c) : c \in Children(ns, n)}

\* A node without values has given away its children.
clear_and_delete(ns, n) ==
  Without(ns, IF ns[n].internal /\ Count(ns, n) = 0 THEN {n} ELSE Subtree(ns, n))

\* With the values of an inner node go the children between them.
remove_values(ns, n, i, to_erase) ==
  LET fewer == [ns EXCEPT ![n].slots = SubSeq(@, 1, i) \o SubSeq(@, i + to_erase + 1, Len(@))]
      gone == {Child(ns, n, j) : j \in i + 1 .. i + to_erase}
      cleared == FoldSet(LAMBDA c, u : clear_and_delete(u, c), fewer, gone)
      moved == [cleared EXCEPT ![n].children = SubSeq(@, 1, i + 1) \o SubSeq(@, i + to_erase + 2, Len(@))]
  IN  IF ns[n].internal THEN SetChildren(moved, n, i + 1 .. Count(ns, n) - to_erase) ELSE fewer

rebalance_right_to_left(ns, left, to_move, right) ==
  LET p == ns[left].parent
      at == ns[left].position + 1
      r == ns[right].slots
      ch == ns[right].children
      moved == [ns EXCEPT ![left].slots = @ \o <<ns[p].slots[at]>> \o SubSeq(r, 1, to_move - 1),
                          ![p].slots[at] = r[to_move],
                          ![right].slots = SubSeq(r, to_move + 1, Len(r)),
                          ![left].children = @ \o Part(ch, 1, to_move),
                          ![right].children = Part(ch, to_move + 1, Len(ch))]
  IN  IF ns[left].internal
        THEN InitChildren(InitChildren(moved, left, Count(ns, left) + 1 .. Count(ns, left) + to_move),
                          right, 0 .. Len(r) - to_move)
        ELSE moved

rebalance_left_to_right(ns, left, to_move, right) ==
  LET p == ns[left].parent
      at == ns[left].position + 1
      l == ns[left].slots
      ch == ns[left].children
      c == Len(l) - to_move
      moved == [ns EXCEPT ![right].slots = SubSeq(l, c + 2, Len(l)) \o <<ns[p].slots[at]>> \o @,
                          ![p].slots[at] = l[c + 1],
                          ![left].slots = SubSeq(l, 1, c),
                          ![right].children = Part(ch, c + 2, Len(ch)) \o @,
                          ![left].children = Part(ch, 1, c + 1)]
  IN  IF ns[left].internal
        THEN InitChildren(moved, right, 0 .. Count(ns, right) + to_move)
        ELSE moved

\* The largest value that stays on the left goes up between the two.
split(ns, n, insert_position, dest) ==
  LET p == ns[n].parent
      s == ns[n].slots
      ch == ns[n].children
      moving == IF insert_position = 0 THEN Len(s) - 1
                ELSE IF insert_position = kNodeSlots THEN 0 ELSE Len(s) \div 2
      l == Len(s) - moving
      parted == [ns EXCEPT ![dest].slots = SubSeq(s, l + 1, Len(s)),
                           ![n].slots = SubSeq(s, 1, l - 1)]
      linked == [emplace_value(parted, p, ns[n].position, s[l])
                   EXCEPT ![p].children[ns[n].position + 2] = dest]
  IN  IF ns[n].internal
        THEN InitChildren([linked EXCEPT ![dest].children = Part(ch, l + 1, Len(ch)),
                                         ![n].children = Part(ch, 1, l)],
                          dest, 0 .. moving)
        ELSE linked

merge(ns, left, src) ==
  LET p == ns[left].parent
      at == ns[left].position
      c == Count(ns, left)
      joined == [ns EXCEPT ![left].slots = @ \o <<ns[p].slots[at + 1]>> \o ns[src].slots,
                           ![left].children = @ \o ns[src].children,
                           ![src].slots = <<>>, ![src].children = <<>>]
  IN  remove_values(IF ns[left].internal
                      THEN InitChildren(joined, left, c + 1 .. c + 1 + Count(ns, src)) ELSE joined,
                    p, at, 1)

-----------------------------------------------------------------------------
(* Iterators.                                                              *)

At(node, position) == [node |-> node, position |-> position]
NoNode == At(Hole, 0)
Key(ns, it) == IF it.position + 1 \in DOMAIN ns[it.node].slots
                 THEN ns[it.node].slots[it.position + 1] ELSE Hole
leftmost(t) == t.nodes[t.root].parent
begin(t) == At(leftmost(t), 0)
end(t) == At(t.rightmost, Count(t.nodes, t.rightmost))

RECURSIVE Up(_, _), Down(_, _), UpBack(_, _), DownBack(_, _), internal_last(_, _)
\* Off the end of a node: to the value behind it in an ancestor.
Up(ns, it) ==
  IF it.position = Count(ns, it.node) /\ ~IsRoot(ns, it.node)
    THEN Up(ns, At(ns[it.node].parent, ns[it.node].position)) ELSE it
Down(ns, n) == IF ns[n].internal THEN Down(ns, Child(ns, n, 0)) ELSE n
UpBack(ns, it) ==
  IF it.position < 0 /\ ~IsRoot(ns, it.node)
    THEN UpBack(ns, At(ns[it.node].parent, ns[it.node].position - 1)) ELSE it
DownBack(ns, n) == IF ns[n].internal THEN DownBack(ns, Child(ns, n, Count(ns, n))) ELSE n

\* increment, increment_slow.
Increment(ns, it) ==
  IF ns[it.node].internal THEN At(Down(ns, Child(ns, it.node, it.position + 1)), 0)
  ELSE LET next == At(it.node, it.position + 1)
           up == Up(ns, next)
       IN  IF up.position = Count(ns, up.node) THEN next ELSE up

Decrement(ns, it) ==
  IF ns[it.node].internal
    THEN LET n == DownBack(ns, Child(ns, it.node, it.position)) IN At(n, Count(ns, n) - 1)
  ELSE LET prev == At(it.node, it.position - 1)
           up == UpBack(ns, prev)
       IN  IF up.position < 0 THEN prev ELSE up

internal_last(ns, it) ==
  IF it.position # Count(ns, it.node) THEN it
  ELSE IF IsRoot(ns, it.node) THEN NoNode
  ELSE internal_last(ns, At(ns[it.node].parent, ns[it.node].position))

lower_bound(ns, n, k) == Cardinality({i \in 1 .. Count(ns, n) : ns[n].slots[i] < k})
upper_bound(ns, n, k) == Cardinality({i \in 1 .. Count(ns, n) : ns[n].slots[i] <= k})

\* With a comparison that only says less or not, the search ends at a leaf.
RECURSIVE internal_locate(_, _, _), UpperBoundFrom(_, _, _)
internal_locate(ns, n, k) ==
  LET i == lower_bound(ns, n, k) IN
  IF ns[n].internal THEN internal_locate(ns, Child(ns, n, i), k) ELSE At(n, i)
UpperBoundFrom(ns, n, k) ==
  LET i == upper_bound(ns, n, k) IN
  IF ns[n].internal THEN UpperBoundFrom(ns, Child(ns, n, i), k) ELSE At(n, i)

internal_end(t, it) == IF it = NoNode THEN end(t) ELSE it
internal_upper_bound(t, k) == internal_last(t.nodes, UpperBoundFrom(t.nodes, t.root, k))
LowerBound(t, k) == internal_end(t, internal_last(t.nodes, internal_locate(t.nodes, t.root, k)))

-----------------------------------------------------------------------------
(* Insertion.                                                              *)

\* The values to move when the left or the right sibling has room, or none.
FromLeft(ns, it) ==
  LET left == Child(ns, ns[it.node].parent, ns[it.node].position - 1)
      to_move == Larger(1, (kNodeSlots - Count(ns, left))
                             \div (IF it.position < kNodeSlots THEN 2 ELSE 1))
  IN  IF /\ ns[it.node].position > 0 /\ Count(ns, left) < kNodeSlots
         /\ it.position - to_move >= 0 \/ Count(ns, left) + to_move < kNodeSlots
        THEN to_move ELSE 0
FromRight(ns, it) ==
  LET p == ns[it.node].parent
      right == Child(ns, p, ns[it.node].position + 1)
      to_move == Larger(1, (kNodeSlots - Count(ns, right)) \div (IF it.position > 0 THEN 2 ELSE 1))
  IN  IF /\ ns[it.node].position < Count(ns, p) /\ Count(ns, right) < kNodeSlots
         /\ it.position <= Count(ns, it.node) - to_move \/ Count(ns, right) + to_move < kNodeSlots
        THEN to_move ELSE 0

MoveLeft(t, it, to_move) ==
  LET left == Child(t.nodes, t.nodes[it.node].parent, t.nodes[it.node].position - 1)
      ns == rebalance_right_to_left(t.nodes, left, to_move, it.node)
      i == it.position - to_move
  IN  [t |-> [t EXCEPT !.nodes = ns],
       it |-> IF i < 0 THEN At(left, i + Count(ns, left) + 1) ELSE At(it.node, i)]
MoveRight(t, it, to_move) ==
  LET right == Child(t.nodes, t.nodes[it.node].parent, t.nodes[it.node].position + 1)
      ns == rebalance_left_to_right(t.nodes, it.node, to_move, right)
  IN  [t |-> [t EXCEPT !.nodes = ns],
       it |-> IF it.position > Count(ns, it.node)
                THEN At(right, it.position - Count(ns, it.node) - 1) ELSE it]

NewRoot(t) ==
  LET n == NewNode(t.nodes) IN
  [t EXCEPT !.nodes = [n1 \in DOMAIN t.nodes \cup {n} |->
                         IF n1 = n THEN [Leaf(0, kNodeSlots, leftmost(t)) EXCEPT !.internal = TRUE,
                                           !.children = <<t.root>>]
                         ELSE IF n1 = t.root THEN [t.nodes[n1] EXCEPT !.parent = n, !.position = 0]
                         ELSE t.nodes[n1]],
            !.root = n]

SplitNode(t, it) ==
  LET n == it.node
      d == NewNode(t.nodes)
      dest == [Leaf(t.nodes[n].position + 1, kNodeSlots, t.nodes[n].parent)
                 EXCEPT !.internal = t.nodes[n].internal]
      ns == split([c \in DOMAIN t.nodes \cup {d} |-> IF c = d THEN dest ELSE t.nodes[c]],
                  n, it.position, d)
  IN  [t |-> [t EXCEPT !.nodes = ns, !.rightmost = IF n = t.rightmost THEN d ELSE @],
       it |-> IF it.position > Count(ns, n) THEN At(d, it.position - Count(ns, n) - 1) ELSE it]

RECURSIVE rebalance_or_split(_, _)
rebalance_or_split(t, it) ==
  LET ns == t.nodes
      p == ns[it.node].parent
      left == IF it.node = t.root THEN 0 ELSE FromLeft(ns, it)
      right == IF it.node = t.root THEN 0 ELSE FromRight(ns, it)
      room == IF it.node = t.root THEN NewRoot(t)
              ELSE IF Count(ns, p) < kNodeSlots THEN t
              ELSE rebalance_or_split(t, At(p, ns[it.node].position)).t
  IN  IF left > 0 THEN MoveLeft(t, it, left)
      ELSE IF right > 0 THEN MoveRight(t, it, right)
      ELSE Only({SplitNode(u, it) : u \in {room}})

\* A root that is a leaf may be smaller than other nodes; it is replaced by a larger one.
Grown(t, max_count) ==
  LET n == NewNode(t.nodes)
      new == [Leaf(0, max_count, n) EXCEPT !.slots = t.nodes[t.root].slots]
      ns == [c \in DOMAIN t.nodes \cup {n} |-> IF c = n THEN new ELSE t.nodes[c]]
  IN  [t EXCEPT !.nodes = Without(ns, {t.root} \ {EmptyNode}), !.root = n, !.rightmost = n]

\* The values behind the new one move up.
Renumber(t, k) ==
  [t EXCEPT !.nodes = [n \in DOMAIN t.nodes |-> [t.nodes[n] EXCEPT
                         !.slots = [i \in DOMAIN @ |-> IF @[i] > k THEN @[i] + 2 ELSE @[i]]]]]

internal_emplace(t, iter, k) ==
  LET it == IF t.nodes[iter.node].internal
              THEN LET prev == Decrement(t.nodes, iter) IN At(prev.node, prev.position + 1)
              ELSE iter
      n == t.nodes[it.node]
      room == IF Len(n.slots) < n.max_count THEN [t |-> t, it |-> it]
              ELSE IF n.max_count < kNodeSlots
              THEN LET u == Grown(t, Smaller(kNodeSlots, 2 * n.max_count))
                   IN  [t |-> u, it |-> At(u.root, it.position)]
              ELSE rebalance_or_split(t, it)
  IN  Only({[t |-> [Renumber(r.t, k) EXCEPT
                      !.nodes = emplace_value(@, r.it.node, r.it.position, k + 1),
                      !.size = @ + 1],
             it |-> r.it] : r \in {room}})

NonEmpty(t) == IF t.size = 0 THEN Grown(t, 1) ELSE t

-----------------------------------------------------------------------------
(* Deletion.                                                               *)

merge_nodes(t, left, right) ==
  [t EXCEPT !.nodes = merge(t.nodes, left, right),
            !.rightmost = IF @ = right THEN left ELSE @]

try_merge_or_rebalance(t, it) ==
  LET ns == t.nodes
      n == it.node
      p == ns[n].parent
      c == Count(ns, n)
      pos == ns[n].position
      left == Child(ns, p, pos - 1)
      right == Child(ns, p, pos + 1)
      from_right == Smaller((Count(ns, right) - c) \div 2, Count(ns, right) - 1)
      from_left == Smaller((Count(ns, left) - c) \div 2, Count(ns, left) - 1)
      result(u, i, merged) == [t |-> u, it |-> i, merged |-> merged]
  IN  IF pos > 0 /\ 1 + Count(ns, left) + c <= kNodeSlots
        THEN result(merge_nodes(t, left, n), At(left, it.position + 1 + Count(ns, left)), TRUE)
      ELSE IF pos < Count(ns, p) /\ 1 + c + Count(ns, right) <= kNodeSlots
        THEN result(merge_nodes(t, n, right), it, TRUE)
      ELSE IF pos < Count(ns, p) /\ Count(ns, right) > kMinNodeValues /\ (c = 0 \/ it.position > 0)
        THEN result([t EXCEPT !.nodes = rebalance_right_to_left(ns, n, from_right, right)], it, FALSE)
      ELSE IF pos > 0 /\ Count(ns, left) > kMinNodeValues /\ (c = 0 \/ it.position < c)
        THEN result([t EXCEPT !.nodes = rebalance_left_to_right(ns, left, from_left, n)],
                    At(n, it.position + from_left), FALSE)
      ELSE result(t, it, FALSE)

\* make_root: a new root takes over the pointer to the leftmost leaf.
try_shrink(t) ==
  LET r == t.nodes[t.root]
      child == r.children[1]
  IN  IF Len(r.slots) > 0 THEN t
      ELSE IF ~r.internal THEN Empty
      ELSE [t EXCEPT !.root = child,
                     !.nodes = clear_and_delete([@ EXCEPT ![child].parent = r.parent], t.root)]

\* The loop of rebalance_after_delete; res is found on its first iteration.
RECURSIVE Rebalanced(_, _, _, _)
Rebalanced(t, it, res, first) ==
  IF it.node = t.root THEN [t |-> try_shrink(t), res |-> res]
  ELSE IF Count(t.nodes, it.node) >= kMinNodeValues THEN [t |-> t, res |-> res]
  ELSE Only({LET res1 == IF first THEN m.it ELSE res IN
             IF m.merged THEN Rebalanced(m.t, At(m.t.nodes[m.it.node].parent,
                                                 m.t.nodes[m.it.node].position), res1, FALSE)
             ELSE [t |-> m.t, res |-> res1] : m \in {try_merge_or_rebalance(t, it)}})

\* Mutant: an iterator at the end of a node is returned.
rebalance_after_delete_AtEnd(t, it) ==
  Only({[t |-> r.t, it |-> IF r.t.size = 0 THEN end(r.t) ELSE r.res] :
          r \in {Rebalanced(t, it, it, TRUE)}})

rebalance_after_delete(t, it) ==
  Only({[t |-> r.t,
         it |-> IF r.t.size = 0 THEN end(r.t)
                ELSE IF r.res.position = Count(r.t.nodes, r.res.node)
                THEN Increment(r.t.nodes, At(r.res.node, r.res.position - 1))
                ELSE r.res] : r \in {Rebalanced(t, it, it, TRUE)}})

\* erase.
Erased(t, it) ==
  LET ns == t.nodes
      internal == ns[it.node].internal
      last == Decrement(ns, it)
      leaf == IF internal THEN last ELSE it
      moved == IF internal
                 THEN [ns EXCEPT ![it.node].slots[it.position + 1] = Key(ns, last),
                                 ![last.node].slots = Front(@)]
                 ELSE [ns EXCEPT ![it.node].slots = RemoveAt(@, it.position + 1)]
  IN  Only({[t |-> r.t, it |-> IF internal THEN Increment(r.t.nodes, r.it) ELSE r.it] :
              r \in {rebalance_after_delete([t EXCEPT !.nodes = moved, !.size = @ - 1], leaf)}})

\* erase_range, when its ends are in different nodes: as much as can be at a time.
RECURSIVE EraseUntil(_, _, _)
EraseUntil(t, it, target_size) ==
  IF t.size = target_size THEN [t |-> t, it |-> it]
  ELSE LET n == Smaller(t.size - target_size, Count(t.nodes, it.node) - it.position)
           one == IF t.nodes[it.node].internal THEN Erased(t, it)
                  ELSE rebalance_after_delete(
                         [t EXCEPT !.nodes = remove_values(@, it.node, it.position, n),
                                   !.size = @ - n], it)
       IN  Only({EraseUntil(u.t, u.it, target_size) : u \in {one}})

erase_range(t, b, e, count) ==
  IF count = t.size THEN [t |-> Empty, it |-> end(Empty)]
  ELSE IF b.node = e.node
  THEN rebalance_after_delete([t EXCEPT !.nodes = remove_values(@, b.node, b.position, e.position - b.position),
                                        !.size = @ - count], b)
  ELSE EraseUntil(t, b, t.size - count)

-----------------------------------------------------------------------------
(* The containers' calls.                                                  *)

Compact(t, k, n) ==
  [t EXCEPT !.nodes = [c \in DOMAIN t.nodes |-> [t.nodes[c] EXCEPT
                         !.slots = [i \in DOMAIN @ |-> IF @[i] > k THEN @[i] - 2 * n ELSE @[i]]]]]

Returned(t, it, k) == ret' = [at |-> IF it = end(t) THEN 2 * (t.size + 1) ELSE Key(t.nodes, it), want |-> k]

Init == tree = Empty /\ ret = [at |-> 0, want |-> 0]

\* insert_unique of a key that is between two values, or that is there.
InsertUnique(k) ==
  LET t == NonEmpty(tree)
      it == internal_locate(t.nodes, t.root, k)
      last == internal_last(t.nodes, it)
  IN  IF last # NoNode /\ Key(t.nodes, last) = k
        THEN Returned(t, last, k) /\ UNCHANGED tree
        ELSE \E r \in {internal_emplace(t, it, k)} : tree' = r.t /\ Returned(r.t, r.it, k + 1)

\* insert_multi: a key that is there goes behind its equal.
InsertMulti(k) ==
  LET t == NonEmpty(tree)
      new == IF k % 2 = 0 THEN k + 1 ELSE k
  IN  \E r \in {internal_emplace(t, internal_end(t, internal_upper_bound(t, k)), new)} :
        tree' = r.t /\ Returned(r.t, r.it, new + 1)

\* insert_hint_unique at the end, as insert_iterator_unique and copy_or_move_values_in_order do.
InsertAtEnd ==
  LET t == NonEmpty(tree) IN
  \E r \in {internal_emplace(t, end(t), 2 * tree.size + 1)} :
    tree' = r.t /\ Returned(r.t, r.it, 2 * (tree.size + 1))

Insert ==
  /\ tree.size < MaxValues
  /\ \/ \E k \in 1 .. 2 * tree.size + 1 : IF Multi THEN InsertMulti(k) ELSE InsertUnique(k)
     \/ InsertAtEnd

Erase ==
  \E k \in {2 * i : i \in 1 .. tree.size} :
    \E r \in {Erased(tree, LowerBound(tree, k))} :
      \E t \in {Compact(r.t, k, 1)} : tree' = t /\ Returned(t, r.it, k)

EraseRange ==
  \E i \in 1 .. tree.size : \E n \in 1 .. tree.size + 1 - i :
    \E r \in {erase_range(tree, LowerBound(tree, 2 * i), LowerBound(tree, 2 * (i + n)), n)} :
      \E t \in {Compact(r.t, 2 * i, n)} : tree' = t /\ Returned(t, r.it, 2 * i)

Clear == tree' = Empty /\ Returned(Empty, end(Empty), 2)

Next == Insert \/ Erase \/ EraseRange \/ Clear

Spec == Init /\ [][Next]_vars

-----------------------------------------------------------------------------
RECURSIVE Values(_, _), Shape(_, _), Depths(_, _)
Values(ns, n) ==
  IF ns[n].internal
    THEN FlattenSeq([i \in 1 .. 2 * Count(ns, n) + 1 |->
                       IF i % 2 = 0 THEN <<ns[n].slots[i \div 2]>>
                       ELSE Values(ns, Child(ns, n, i \div 2))])
    ELSE ns[n].slots
Depths(ns, n) == IF ns[n].internal THEN {d + 1 : d \in UNION {Depths(ns, c) : c \in Children(ns, n)}}
                 ELSE {0}
Shape(ns, n) == <<Count(ns, n), ns[n].max_count,
                  [i \in DOMAIN ns[n].children |-> Shape(ns, ns[n].children[i])]>>

\* The values are there, once each and in order, after any insertion or deletion.
InOrder == Values(tree.nodes, tree.root) = [i \in 1 .. tree.size |-> 2 * i]

\* What verify() looks for: every child knows its parent and position, nodes hold a value and
\* no more than they can, leaves are at one depth, the first and the last leaf are known, and
\* there is no other node.
Verifies ==
  LET ns == tree.nodes
      there == Subtree(ns, tree.root)
  IN  /\ DOMAIN ns = there \cup {EmptyNode}
      /\ Cardinality(Depths(ns, tree.root)) = 1
      /\ leftmost(tree) = Down(ns, tree.root) /\ tree.rightmost = DownBack(ns, tree.root)
      /\ tree.root # EmptyNode => \A n \in there :
           /\ Count(ns, n) \in 1 .. ns[n].max_count
           /\ ns[n].internal => /\ Len(ns[n].children) = Count(ns, n) + 1
                                /\ \A i \in 0 .. Count(ns, n) :
                                     LET c == Child(ns, n, i)
                                     IN  ns[c].parent = n /\ ns[c].position = i

RECURSIVE Walk(_, _, _, _)
Walk(t, it, n, forward) ==
  IF n = 0 THEN <<>>
  ELSE LET v == IF forward THEN it ELSE Decrement(t.nodes, it)
           w == IF forward THEN Increment(t.nodes, it) ELSE v
       IN  <<Key(t.nodes, v)>> \o Only({Walk(t, x, n - 1, forward) : x \in {w}})

\* Iterators go from begin to end and back over every value.
IteratorsVisitAll ==
  /\ Walk(tree, begin(tree), tree.size, TRUE) = [i \in 1 .. tree.size |-> 2 * i]
  /\ Walk(tree, end(tree), tree.size, FALSE) = [i \in 1 .. tree.size |-> 2 * (tree.size + 1 - i)]

\* Every value is found, wherever it is; of a key that is not there, the next one.
LookupFinds == \A k \in 1 .. 2 * tree.size + 1 : 
  LET it == LowerBound(tree, k)
  IN  (IF it = end(tree) THEN 2 * (tree.size + 1) ELSE Key(tree.nodes, it)) = k + (k % 2)

\* An iterator that comes back from an insertion is at the new value, or at the one that was
\* there; from a deletion, at the value that followed, which may have moved to another node.
ReturnsItsPlace == ret.at = ret.want

\* The addresses of nodes do not matter. What the properties look at besides the shape is kept.
View == <<Shape(tree.nodes, tree.root), InOrder /\ Verifies, ReturnsItsPlace>>
=============================================================================
