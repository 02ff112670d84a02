---------------------------- MODULE CordRepBtree ----------------------------
(***************************************************************************)
(* The representation of a cord: reference-counted flat, external,         *)
(* substring and checksum nodes (absl/strings/internal/cord_internal.h,    *)
(* cord_rep_crc.h) and the B-tree of cord_rep_btree.h over them.           *)
(*                                                                         *)
(* Everything is an operator from a heap, a function from the addresses in *)
(* use to nodes, to the heap after the call; where the call returns a node *)
(* as well the result has the fields h and rep. The edges of a node are a  *)
(* sequence: where they lie in its array is left out.                      *)
(***************************************************************************)
EXTENDS Integers, Sequences, FiniteSets, SequencesExt

CONSTANTS kMaxCapacity, kMaxHeight,         \* of a B-tree node, of a tree
          kMinFlatLength, kMaxFlatLength    \* what a flat has room for

CordRepAssumption ==
  /\ kMaxCapacity \in Nat \ {0, 1} /\ kMaxHeight \in Nat
  /\ kMinFlatLength \in Nat \ {0} /\ kMaxFlatLength \in Nat /\ kMaxFlatLength >= kMinFlatLength

Null == 0
Garbage == -1     \* a byte that nobody wrote

Only(S) == CHOOSE x \in S : TRUE
Smaller(a, b) == IF a < b THEN a ELSE b
Larger(a, b) == IF a > b THEN a ELSE b

FlatRep(data, capacity) ==
  [tag |-> "FLAT", rc |-> 1, length |-> Len(data), data |-> data, capacity |-> capacity]
ExternalRep(data) == [tag |-> "EXTERNAL", rc |-> 1, length |-> Len(data), data |-> data]
SubstringRep(child, start, n) ==
  [tag |-> "SUBSTRING", rc |-> 1, length |-> n, child |-> child, start |-> start]
CrcRep(child, length, state) ==
  [tag |-> "CRC", rc |-> 1, length |-> length, child |-> child, state |-> state]
BtreeRep(height, edges, length) ==
  [tag |-> "BTREE", rc |-> 1, length |-> length, height |-> height, edges |-> edges]

Is(h, e, tag) == h[e].tag = tag
IsOne(h, e) == h[e].rc = 1
Refs(rep) == IF rep.tag = "BTREE" THEN rep.edges
             ELSE IF rep.tag \in {"SUBSTRING", "CRC"} /\ rep.child # Null THEN <<rep.child>> ELSE <<>>

Result(h, rep) == [h |-> h, rep |-> rep]
Alloc(h, rep) ==
  Only({Result((a :> rep) @@ h, a) : a \in {CHOOSE a \in 1 .. Cardinality(DOMAIN h) + 1 : a \notin DOMAIN h}})
\* f, evaluated at once.
Table(f) == f @@ <<>>
Delete(h, e) == Table([a \in DOMAIN h \ {e} |-> h[a]])

Longer(h, nodes, n) ==
  Table([a \in DOMAIN h |-> IF a \in nodes THEN [h[a] EXCEPT !.length = @ + n] ELSE h[a]])

Occurrences(es, e) == Cardinality({i \in DOMAIN es : es[i] = e})
Ref(h, e) == [h EXCEPT ![e].rc = @ + 1]
RefAll(h, es) == Table([a \in DOMAIN h |-> [h[a] EXCEPT !.rc = @ + Occurrences(es, a)]])

\* The last reference destroys the node, and drops those that it holds.
RECURSIVE Unref(_, _), UnrefAll(_, _)
Unref(h, e) == IF IsOne(h, e) THEN UnrefAll(Delete(h, e), Refs(h[e]))
               ELSE [h EXCEPT ![e].rc = @ - 1]
UnrefAll(h, es) ==
  IF es = <<>> THEN h ELSE Only({UnrefAll(g, Tail(es)) : g \in {Unref(h, es[1])}})

\* The bytes of a data edge, of a tree.
Bytes(data, start, n) ==
  SubSeq([i \in 1 .. start + n |-> IF i <= Len(data) THEN data[i] ELSE Garbage], start + 1, start + n)
EdgeData(h, e) == IF Is(h, e, "SUBSTRING") THEN Bytes(h[h[e].child].data, h[e].start, h[e].length)
                  ELSE Bytes(h[e].data, 0, h[e].length)
RECURSIVE Chars(_, _)
Chars(h, e) == IF h[e].tag \in {"BTREE", "CRC"}
                 THEN FlattenSeq([i \in DOMAIN Refs(h[e]) |-> Chars(h, Refs(h[e])[i])])
                 ELSE EdgeData(h, e)

-----------------------------------------------------------------------------
(* Data edges.                                                             *)

FlatCapacity(n) == Smaller(Larger(n, kMinFlatLength), kMaxFlatLength)

CreateSubstring(h, rep, offset, n) ==
  IF Is(h, rep, "SUBSTRING")
    THEN Alloc(Unref(Ref(h, h[rep].child), rep), SubstringRep(h[rep].child, offset + h[rep].start, n))
    ELSE Alloc(h, SubstringRep(rep, offset, n))

MakeSubstring(h, rep, offset, n) ==
  IF n = h[rep].length THEN Result(h, rep)
  ELSE IF n = 0 THEN Result(Unref(h, rep), Null)
  ELSE CreateSubstring(h, rep, offset, n)

Shorten(h, e, n) ==
  IF Is(h, e, "FLAT") THEN [h EXCEPT ![e].length = n, ![e].data = SubSeq(@, 1, n)] ELSE [h EXCEPT ![e].length = n]

ResizeEdge(h, e, length, is_mutable) ==
  IF length >= h[e].length THEN Result(h, e)
  ELSE IF is_mutable /\ h[e].tag \in {"FLAT", "SUBSTRING"} THEN Result(Shorten(h, e, length), e)
  ELSE CreateSubstring(h, e, 0, length)

\* CordRepSubstring::Substring: the caller keeps its reference.
Substring(h, rep, pos, n) ==
  IF n = h[rep].length THEN Result(Ref(h, rep), rep)
  ELSE IF Is(h, rep, "SUBSTRING")
    THEN Alloc(Ref(h, h[rep].child), SubstringRep(h[rep].child, pos + h[rep].start, n))
    ELSE Alloc(Ref(h, rep), SubstringRep(rep, pos, n))

-----------------------------------------------------------------------------
(* Checksum nodes.                                                         *)


NewCrc(h, child, length, state) ==
  IF child = Null \/ ~Is(h, child, "CRC") THEN Alloc(h, CrcRep(child, length, state))
  ELSE IF IsOne(h, child) THEN Result([h EXCEPT ![child].state = state], child)
  ELSE Alloc(Unref(Ref(h, h[child].child), child), CrcRep(h[child].child, length, state))

RemoveCrcNode(h, rep) ==
  IF ~Is(h, rep, "CRC") THEN Result(h, rep)
  ELSE IF IsOne(h, rep) THEN Result(Delete(h, rep), h[rep].child)
  ELSE Result(Unref(Ref(h, h[rep].child), rep), h[rep].child)

SkipCrcNode(h, rep) == IF Is(h, rep, "CRC") THEN h[rep].child ELSE rep

-----------------------------------------------------------------------------
(* Nodes of the B-tree.                                                    *)

EdgeOf(h, n, side) == IF side = "front" THEN h[n].edges[1] ELSE Last(h[n].edges)
Joined(es, more, side) == IF side = "front" THEN more \o es ELSE es \o more
HeightOver(h, e) == IF Is(h, e, "BTREE") THEN h[e].height + 1 ELSE 0

New(h, e) == Alloc(h, BtreeRep(HeightOver(h, e), <<e>>, h[e].length))
NewOver(h, front, back) ==
  Alloc(h, BtreeRep(h[front].height + 1, <<front, back>>, h[front].length + h[back].length))
\* Create, of a tree without checksum.
Create(h, rep) == IF Is(h, rep, "BTREE") THEN Result(h, rep) ELSE New(h, rep)

\* CopyToEndFrom and CopyBeginTo: a copy with the edges from i to j.
CopyOf(h, n, i, j, length) ==
  LET es == SubSeq(h[n].edges, i, j) IN Alloc(RefAll(h, es), BtreeRep(h[n].height, es, length))

\* A result of a step at a node: kSelf, kCopied or kPopped.
OpResult(h, rep, action) == [h |-> h, rep |-> rep, action |-> action]

ToOpResult(h, n, owned) ==
  IF owned THEN OpResult(h, n, "kSelf")
  ELSE LET c == CopyOf(h, n, 1, Len(h[n].edges), h[n].length) IN OpResult(c.h, c.rep, "kCopied")

WithEdges(r, more, delta, side) ==
  [r EXCEPT !.h[r.rep].edges = Joined(@, more, side), !.h[r.rep].length = @ + delta]

\* Mutant: an edge too many.
AddEdge_Over(h, n, owned, e, delta, side) ==
  IF Len(h[n].edges) > kMaxCapacity THEN LET p == New(h, e) IN OpResult(p.h, p.rep, "kPopped")
  ELSE Only({WithEdges(r, <<e>>, delta, side) : r \in {ToOpResult(h, n, owned)}})

AddEdge(h, n, owned, e, delta, side) ==
  IF Len(h[n].edges) >= kMaxCapacity THEN LET p == New(h, e) IN OpResult(p.h, p.rep, "kPopped")
  ELSE Only({WithEdges(r, <<e>>, delta, side) : r \in {ToOpResult(h, n, owned)}})

\* Mutant: the edges that stay get no reference from the copy.
SetEdge_NoRefs(h, n, owned, e, delta, side) ==
  LET at == IF side = "front" THEN 1 ELSE Len(h[n].edges)
  IN  Only({OpResult([r.h EXCEPT ![r.rep] = [@ EXCEPT !.edges[at] = e, !.length = @ + delta, !.rc = 1]],
                     r.rep, IF owned THEN "kSelf" ELSE "kCopied")
             : r \in {IF owned THEN Result(Unref(h, h[n].edges[at]), n)
                      ELSE Alloc(h, h[n])}})

SetEdge(h, n, owned, e, delta, side) ==
  LET at == IF side = "front" THEN 1 ELSE Len(h[n].edges)
  IN  Only({OpResult([r.h EXCEPT ![r.rep] = [@ EXCEPT !.edges[at] = e, !.length = @ + delta, !.rc = 1]],
                     r.rep, IF owned THEN "kSelf" ELSE "kCopied")
             : r \in {IF owned THEN Result(Unref(h, h[n].edges[at]), n)
                      ELSE Alloc(RefAll(h, RemoveAt(h[n].edges, at)), h[n])}})

-----------------------------------------------------------------------------
(* Rebuild: a tree that is too high becomes one whose nodes are full.      *)

RECURSIVE DataEdges(_, _)
DataEdges(h, e) == IF Is(h, e, "BTREE")
                     THEN FlattenSeq([i \in DOMAIN h[e].edges |-> DataEdges(h, h[e].edges[i])])
                     ELSE <<e>>

TotalLength(h, es) == FoldLeft(LAMBDA sum, e : sum + h[e].length, 0, es)

RECURSIVE Grouped(_, _, _, _), Pack(_, _, _)
\* One level of the tree: nodes of kMaxCapacity edges each.
Grouped(h, es, height, nodes) ==
  IF es = <<>> THEN [h |-> h, nodes |-> nodes]
  ELSE LET k == Smaller(kMaxCapacity, Len(es))
           group == SubSeq(es, 1, k)
       IN  Only({Grouped(r.h, SubSeq(es, k + 1, Len(es)), height, Append(nodes, r.rep))
                  : r \in {Alloc(h, BtreeRep(height, group, TotalLength(h, group)))}})
Pack(h, es, height) ==
  Only({IF Len(g.nodes) = 1 THEN Result(g.h, g.nodes[1]) ELSE Pack(g.h, g.nodes, height + 1)
         : g \in {Grouped(h, es, height, <<>>)}})

Rebuild(h, tree) ==
  LET es == DataEdges(h, tree)
  IN  Only({Result(Unref(r.h, tree), r.rep) : r \in {Pack(RefAll(h, es), es, 0)}})

-----------------------------------------------------------------------------
(* StackOperations: a leg of the tree from its root down to some depth.    *)

Leg(h, tree, depth, side) ==
  LET leg[d \in 0 .. depth] == IF d = 0 THEN tree ELSE EdgeOf(h, leg[d - 1], side) IN leg

\* owned(depth), of the whole leg.
Owned(h, leg) == [d \in DOMAIN leg |-> \A up \in 0 .. d : IsOne(h, leg[up])]

Finalize(tree, r, side) ==
  CASE r.action = "kPopped" ->
         Only({IF t.h[t.rep].height > kMaxHeight THEN Rebuild(t.h, t.rep) ELSE t
                : t \in {IF side = "back" THEN NewOver(r.h, tree, r.rep) ELSE NewOver(r.h, r.rep, tree)}})
    [] r.action = "kCopied" -> Result(Unref(r.h, tree), r.rep)
    [] r.action = "kSelf" -> Result(r.h, r.rep)

RECURSIVE Unwind(_, _, _, _, _, _)
Unwind(leg, owned, depth, delta, r, side) ==
  IF depth = 0 THEN Finalize(leg[0], r, side)
  ELSE LET up == depth - 1
       IN  CASE r.action = "kPopped" ->
                  Only({Unwind(leg, owned, up, delta, q, side)
                         : q \in {AddEdge(r.h, leg[up], owned[up], r.rep, delta, side)}})
             [] r.action = "kCopied" ->
                  Only({Unwind(leg, owned, up, delta, q, side)
                         : q \in {SetEdge(r.h, leg[up], owned[up], r.rep, delta, side)}})
             [] r.action = "kSelf" ->
                  Result(Longer(r.h, {leg[d] : d \in 0 .. up}, delta), leg[0])

AddCordRep(h, tree, rep, side) ==
  LET depth == h[tree].height
  IN  Only({Only({Unwind(leg, owned, depth, h[rep].length,
                         AddEdge(h, leg[depth], owned[depth], rep, h[rep].length, side), side)
                   : owned \in {Owned(h, leg)}})
             : leg \in {Leg(h, tree, depth, side)}})

-----------------------------------------------------------------------------
(* Append and prepend of bytes.                                            *)

\* Flats for as much of data as finds room, and the rest.
RECURSIVE AddFlats(_, _, _, _)
AddFlats(h, es, data, side) ==
  IF data = <<>> \/ Len(es) = kMaxCapacity THEN [h |-> h, edges |-> es, rest |-> data]
  ELSE LET n == Smaller(Len(data), FlatCapacity(Len(data)))
           taken == IF side = "back" THEN SubSeq(data, 1, n) ELSE SubSeq(data, Len(data) - n + 1, Len(data))
           rest == IF side = "back" THEN SubSeq(data, n + 1, Len(data)) ELSE SubSeq(data, 1, Len(data) - n)
       IN  Only({AddFlats(f.h, Joined(es, <<f.rep>>, side), rest, side)
                  : f \in {Alloc(h, FlatRep(taken, FlatCapacity(Len(data))))}})

\* A leaf of new flats is popped up the leg to the first node with room.
AddLeaf(tree, f, n, side) ==
  Only({Unwind(leg, Owned(f.h, leg), f.h[tree].height, n, OpResult(l.h, l.rep, "kPopped"), side)
         : leg \in {Leg(f.h, tree, f.h[tree].height, side)}, l \in {Alloc(f.h, BtreeRep(0, f.edges, n))}})

RECURSIVE AddLeaves(_, _, _, _)
AddLeaves(h, tree, data, side) ==
  IF data = <<>> THEN Result(h, tree)
  ELSE Only({Only({AddLeaves(r.h, r.rep, f.rest, side)
                    : r \in {AddLeaf(tree, f, Len(data) - Len(f.rest), side)}})
              : f \in {AddFlats(h, <<>>, data, side)}})

AddToLeaf(r, f, delta) ==
  OpResult([f.h EXCEPT ![r.rep].edges = f.edges, ![r.rep].length = @ + delta], r.rep, r.action)

AddDataAt(leg, owned, r, data, side) ==
  Only({Only({AddLeaves(t.h, t.rep, f.rest, side)
               : t \in {Unwind(leg, owned, r.h[leg[0]].height, delta, AddToLeaf(r, f, delta), side)
                          : delta \in {Len(data) - Len(f.rest)}}})
         : f \in {AddFlats(r.h, r.h[r.rep].edges, data, side)}})

AddData(h, tree, data, side) ==
  LET depth == h[tree].height
  IN  Only({IF Len(h[leg[depth]].edges) = kMaxCapacity THEN AddLeaves(h, tree, data, side)
            ELSE Only({AddDataAt(leg, owned, ToOpResult(h, leg[depth], owned[depth]), data, side)
                        : owned \in {Owned(h, leg)}})
             : leg \in {Leg(h, tree, depth, side)}})

-----------------------------------------------------------------------------
(* Merge.                                                                  *)

DropMerged(r, src) ==
  OpResult(IF IsOne(r.h, src) THEN Delete(r.h, src) ELSE Unref(RefAll(r.h, r.h[src].edges), src),
           r.rep, r.action)

MergeAt(h, node, owned, src, side) ==
  IF Len(h[node].edges) + Len(h[src].edges) <= kMaxCapacity
    THEN Only({DropMerged(WithEdges(r, h[src].edges, h[src].length, side), src) : r \in {ToOpResult(h, node, owned)}})
    ELSE OpResult(h, src, "kPopped")

Merge(h, dst, src, side) ==
  LET depth == h[dst].height - h[src].height
  IN  Only({Only({Unwind(leg, owned, depth, h[src].length, MergeAt(h, leg[depth], owned[depth], src, side), side)
                   : owned \in {Owned(h, leg)}})
             : leg \in {Leg(h, dst, depth, side)}})

MergeTrees(h, left, right) ==
  IF h[left].height >= h[right].height THEN Merge(h, left, right, "back") ELSE Merge(h, right, left, "front")

\* Append and Prepend of a representation: of a tree or of a data edge.
AddRep(h, tree, rep, side) ==
  IF ~Is(h, rep, "BTREE") THEN AddCordRep(h, tree, rep, side)
  ELSE IF side = "back" THEN MergeTrees(h, tree, rep) ELSE MergeTrees(h, rep, tree)

-----------------------------------------------------------------------------
(* Positions: the edge (from 1) of a byte, and the place there.            *)

Before(h, n, i) == TotalLength(h, SubSeq(h[n].edges, 1, i - 1))
Pos(index, n) == [index |-> index, n |-> n]

\* The first edge that the condition on what lies before its end holds of.
FirstEdge(h, n, from, P(_)) ==
  CHOOSE i \in from .. Len(h[n].edges) :
    P(Before(h, n, i + 1)) /\ \A j \in from .. i - 1 : ~P(Before(h, n, j + 1))

IndexOf(h, n, offset) ==
  LET i == FirstEdge(h, n, 1, LAMBDA end : offset < end) IN Pos(i, offset - Before(h, n, i))

IndexBefore(h, n, front, length) ==
  LET offset == length + front.n + Before(h, n, front.index)
      i == FirstEdge(h, n, front.index, LAMBDA end : offset <= end)
  IN  Pos(i, offset - Before(h, n, i))

\* The edge beyond the one that offset lies in, unless it is the start of an edge.
IndexBeyond(h, n, offset) ==
  IF offset = 0 THEN Pos(1, 0)
  ELSE LET i == FirstEdge(h, n, 1, LAMBDA end : offset <= end) IN Pos(i + 1, Before(h, n, i + 1) - offset)

IndexOfLength(h, n, length) ==
  LET i == FirstEdge(h, n, 1, LAMBDA end : length <= end) IN Pos(i, length - Before(h, n, i))

-----------------------------------------------------------------------------
(* Copies of a part. A copy has the height of its root, -1 for a data edge.*)

PushEdge(r, q, side, length) ==
  Result([q.h EXCEPT ![r.rep].edges = Joined(@, <<q.rep>>, side), ![r.rep].length = length], r.rep)

\* The first n bytes below e: copies down to the edge that n cuts.
RECURSIVE CutPrefix(_, _, _), CutSuffix(_, _, _)
CutPrefix(h, e, n) ==
  IF ~Is(h, e, "BTREE") THEN MakeSubstring(Ref(h, e), e, 0, n)
  ELSE Only({Only({IF pos.n = 0 THEN r ELSE PushEdge(r, CutPrefix(r.h, h[e].edges[pos.index], pos.n), "back", n)
                    : r \in {CopyOf(h, e, 1, pos.index - 1, n)}})
              : pos \in {IndexOf(h, e, n)}})

\* The last n bytes below e.
CutSuffix(h, e, n) ==
  IF ~Is(h, e, "BTREE") THEN MakeSubstring(Ref(h, e), e, h[e].length - n, n)
  ELSE Only({Only({IF pos.n = 0 THEN r ELSE PushEdge(r, CutSuffix(r.h, h[e].edges[pos.index - 1], pos.n), "front", n)
                    : r \in {CopyOf(h, e, pos.index, Len(h[e].edges), n)}})
              : pos \in {IndexBeyond(h, e, h[e].length - n)}})

\* The lowest node below e whose first (last) edge does not have all n bytes.
RECURSIVE Folded(_, _, _, _)
Folded(h, e, n, side) ==
  IF Is(h, e, "BTREE") /\ h[EdgeOf(h, e, side)].length >= n THEN Folded(h, EdgeOf(h, e, side), n, side) ELSE e

CopyPrefix(h, node, n, allow_folding) ==
  LET e == IF allow_folding THEN Folded(h, node, n, "front") ELSE node
  IN  IF Is(h, e, "BTREE") /\ h[e].length = n THEN Result(Ref(h, e), e) ELSE CutPrefix(h, e, n)

CopySuffix(h, node, offset) ==
  LET n == h[node].length - offset
      e == Folded(h, node, n, "back")
  IN  IF Is(h, e, "BTREE") /\ h[e].length = n THEN Result(Ref(h, e), e) ELSE CutSuffix(h, e, n)

RECURSIVE Raised(_, _)
Raised(r, height) ==
  IF HeightOver(r.h, r.rep) >= height THEN r ELSE Only({Raised(up, height) : up \in {New(r.h, r.rep)}})

\* The lowest node below node that has the bytes offset .. offset + n in one edge.
RECURSIVE Within(_, _, _, _)
Within(h, node, offset, n) ==
  IF ~Is(h, node, "BTREE") THEN [rep |-> node, offset |-> offset]
  ELSE Only({IF pos.n + n > h[h[node].edges[pos.index]].length THEN [rep |-> node, offset |-> offset]
             ELSE Within(h, h[node].edges[pos.index], pos.n, n)
              : pos \in {IndexOf(h, node, offset)}})

\* The parts at both ends are raised to one height.
Composed(h, prefix, mid, suffix, height, n) ==
  Only({Only({Alloc(RefAll(s.h, mid), BtreeRep(height, <<p.rep>> \o mid \o <<s.rep>>, n))
               : s \in {Raised(Result(p.h, suffix), height)}})
         : p \in {Raised(Result(h, prefix), height)}})

\* Between two edges of node; without an edge between them the tree gets lower.
Between(h, node, front, back, n) ==
  Only({Only({Composed(s.h, p.rep, SubSeq(h[node].edges, front.index + 1, back.index - 1), s.rep,
                       IF front.index + 1 < back.index THEN h[node].height
                       ELSE Larger(HeightOver(s.h, p.rep), HeightOver(s.h, s.rep)), n)
               : s \in {CopyPrefix(p.h, h[node].edges[back.index], back.n, TRUE)}})
         : p \in {CopySuffix(h, h[node].edges[front.index], front.n)}})

SubTree(h, tree, offset, n) ==
  Only({IF ~Is(h, w.rep, "BTREE") THEN MakeSubstring(Ref(h, w.rep), w.rep, w.offset, n)
        ELSE Only({Between(h, w.rep, front, IndexBefore(h, w.rep, front, n), n)
                    : front \in {IndexOf(h, w.rep, w.offset)}})
         : w \in {Within(h, tree, offset, n)}})

-----------------------------------------------------------------------------
(* RemoveSuffix: in place where nobody else holds a reference.             *)

ExtractFront(h, tree) ==
  LET front == h[tree].edges[1]
  IN  IF IsOne(h, tree) THEN Result(Delete(UnrefAll(h, Tail(h[tree].edges)), tree), front)
      ELSE Result(Unref(Ref(h, front), tree), front)

ConsumeBeginTo(h, tree, end, new_length) ==
  LET es == h[tree].edges
  IN  IF IsOne(h, tree)
        THEN Only({Result([g EXCEPT ![tree].edges = SubSeq(@, 1, end), ![tree].length = new_length], tree)
                    : g \in {UnrefAll(h, SubSeq(es, end + 1, Len(es)))}})
        ELSE LET c == CopyOf(h, tree, 1, end, new_length) IN Result(Unref(c.h, tree), c.rep)

\* The last edge of tree, which only the caller holds, is cut to length.
RECURSIVE CutLast(_, _, _)
CutLast(h, tree, length) ==
  LET edge == Last(h[tree].edges)
      at == Len(h[tree].edges)
  IN  IF length = h[edge].length THEN h
      ELSE IF ~Is(h, edge, "BTREE")
        THEN Only({[r.h EXCEPT ![tree].edges[at] = r.rep] : r \in {ResizeEdge(h, edge, length, IsOne(h, edge))}})
      ELSE IF ~IsOne(h, edge)
        THEN Only({Unref([r.h EXCEPT ![tree].edges[at] = r.rep], edge) : r \in {CopyPrefix(h, edge, length, FALSE)}})
      ELSE Only({Only({CutLast(r.h, r.rep, pos.n) : r \in {ConsumeBeginTo(h, edge, pos.index, length)}})
                  : pos \in {IndexOfLength(h, edge, length)}})

TakeFront(h, tree, length, is_mutable) ==
  Only({[r |-> r, is_mutable |-> is_mutable /\ IsOne(r.h, r.rep)] : r \in {ExtractFront(h, tree)}})

RECURSIVE RemoveTo(_, _, _, _)
RemoveTo(h, tree, length, is_mutable) ==
  LET pos == IndexOfLength(h, tree, length)
  IN  IF pos.index = 1
        THEN Only({IF Is(f.r.h, f.r.rep, "BTREE") THEN RemoveTo(f.r.h, f.r.rep, length, f.is_mutable)
                   ELSE ResizeEdge(f.r.h, f.r.rep, length, f.is_mutable)
                    : f \in {TakeFront(h, tree, length, is_mutable)}})
        ELSE Only({Result(CutLast(r.h, r.rep, pos.n), r.rep) : r \in {ConsumeBeginTo(h, tree, pos.index, length)}})

RemoveSuffix(h, tree, n) ==
  IF n = 0 THEN Result(h, tree)
  ELSE IF n >= h[tree].length THEN Result(Unref(h, tree), Null)
  ELSE RemoveTo(h, tree, h[tree].length - n, IsOne(h, tree))

-----------------------------------------------------------------------------
(* Append buffers: the room at the end of the last flat.                   *)

\* The nodes from tree to its last data edge.
RECURSIVE BackLeg(_, _)
BackLeg(h, e) == IF Is(h, e, "BTREE") THEN <<e>> \o BackLeg(h, EdgeOf(h, e, "back")) ELSE <<e>>

\* What the last flat has room for, when nobody else can see it.
AppendRoom(h, tree) ==
  LET leg == BackLeg(h, tree)
      e == Last(leg)
  IN  IF (\A i \in DOMAIN leg : IsOne(h, leg[i])) /\ Is(h, e, "FLAT") THEN h[e].capacity - h[e].length ELSE 0

\* GetAppendBuffer, and the caller's copy of data there.
GetAppendBuffer(h, tree, data) ==
  LET leg == BackLeg(h, tree)
  IN  Longer([h EXCEPT ![Last(leg)].data = @ \o data], Range(leg), Len(data))

\* Nodes that lose their only edge go, from the leaf up.
RECURSIVE DropLast(_, _, _)
DropLast(h, leg, length) ==
  IF leg = <<>> THEN Result(h, Null)
  ELSE LET tree == Last(leg)
       IN  IF Len(h[tree].edges) = 1 THEN DropLast(Delete(h, tree), Front(leg), length)
           ELSE Result(Longer(h, Range(leg), -length), tree)

\* Top nodes with one edge are not needed: they go, whoever refers to them.
RECURSIVE TrimTop(_, _)
TrimTop(h, tree) ==
  IF tree # Null /\ Is(h, tree, "BTREE") /\ Len(h[tree].edges) = 1
    THEN TrimTop(Delete(h, tree), h[tree].edges[1]) ELSE Result(h, tree)

\* The last flat is taken out of a tree: [h, rep] without it, and extracted.
ExtractAppendBuffer(h, tree, extra_capacity) ==
  LET leg == BackLeg(h, tree)
      flat == Last(leg)
  IN  IF AppendRoom(h, tree) < extra_capacity \/ ~(\A i \in DOMAIN leg : IsOne(h, leg[i])) \/ ~Is(h, flat, "FLAT")
        THEN [h |-> h, rep |-> tree, extracted |-> Null]
        ELSE Only({Only({[h |-> t.h, rep |-> t.rep, extracted |-> flat]
                          : t \in {IF r.rep = Null THEN r
                                   ELSE TrimTop([r.h EXCEPT ![r.rep].edges = Front(@)], leg[1])}})
                    : r \in {DropLast(h, Front(leg), h[flat].length)}})
=============================================================================
