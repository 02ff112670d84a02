-------------------------------- MODULE Cord --------------------------------
(***************************************************************************)
(* absl::Cord (absl/strings/cord.cc): a string whose copies and parts      *)
(* share what they have in common. A cord holds its bytes itself, up to    *)
(* kMaxInline of them, or a reference to a representation; one that nobody *)
(* else refers to is changed in place.                                     *)
(*                                                                         *)
(* A byte is a number that no other written byte has, so that every byte   *)
(* that goes astray is seen. contents and sums are history: what the calls *)
(* should have left in each cord. The cordz calls are left out, see        *)
(* CordzInfo.                                                              *)
(***************************************************************************)
EXTENDS CordRepBtree

CONSTANTS Cords, kMaxInline, kMaxBytesToCopy,
          MaxAppend, MaxLength,     \* bytes of a call, of all the cords together
          Calls                     \* the calls that the callers make

CordAssumption ==
  /\ CordRepAssumption /\ Cords \subseteq Nat
  /\ {kMaxInline, kMaxBytesToCopy, MaxAppend, MaxLength} \subseteq Nat

VARIABLES heap, cords, contents, sums, written

vars == <<heap, cords, contents, sums, written>>

NoSum == 0
Inline(data) == [tree |-> Null, data |-> data]
Tree(rep) == [tree |-> rep, data |-> <<>>]
Out(h, cord) == [h |-> h, cord |-> cord]
OutTree(r) == Out(r.h, Tree(r.rep))

IsTree(cord) == cord.tree # Null
Size(h, cord) == IF IsTree(cord) THEN h[cord.tree].length ELSE Len(cord.data)
CharsOf(h, cord) == IF IsTree(cord) THEN Chars(h, cord.tree) ELSE cord.data
Parts(h, cord) == LET e == SkipCrcNode(h, cord.tree) IN IF e = Null THEN <<>> ELSE DataEdges(h, e)

UnrefTree(h, cord) == IF IsTree(cord) THEN Unref(h, cord.tree) ELSE h

MaybeRemoveEmptyCrcNode(h, cord) ==
  IF IsTree(cord) /\ h[cord.tree].length = 0 THEN Out(Unref(h, cord.tree), Inline(<<>>)) ELSE Out(h, cord)

-----------------------------------------------------------------------------
(* Append and prepend.                                                     *)

CreateFlat(h, data) == Alloc(h, FlatRep(data, FlatCapacity(Len(data))))

\* Of bytes that are there.
NewTree(h, data) ==
  LET n == Smaller(Len(data), kMaxFlatLength)
      flat == CreateFlat(h, SubSeq(data, 1, n))
  IN  IF n = Len(data) THEN flat
      ELSE Only({AddData(root.h, root.rep, SubSeq(data, n + 1, Len(data)), "back")
                  : root \in {Create(flat.h, flat.rep)}})

ForceBtree(h, rep) == Only({Create(r.h, r.rep) : r \in {RemoveCrcNode(h, rep)}})

AddTree(h, cord, rep, side) ==
  IF IsTree(cord)
    THEN Only({OutTree(AddRep(t.h, t.rep, rep, side)) : t \in {ForceBtree(h, cord.tree)}})
  ELSE IF cord.data # <<>>
    THEN Only({Only({OutTree(AddRep(t.h, t.rep, rep, side)) : t \in {Create(f.h, f.rep)}})
                : f \in {CreateFlat(h, cord.data)}})
  ELSE Out(h, Tree(rep))

\* First into the room of the last flat, the rest into new ones.
AppendToRep(h, rep, src) ==
  LET n == Smaller(AppendRoom(h, rep), Len(src))
      g == IF n = 0 THEN h ELSE GetAppendBuffer(h, rep, SubSeq(src, 1, n))
  IN  IF n = Len(src) THEN Out(g, Tree(rep))
      ELSE Only({OutTree(AddData(t.h, t.rep, SubSeq(src, n + 1, Len(src)), "back"))
                  : t \in {ForceBtree(g, rep)}})

AppendInlined(h, cord, src) ==
  LET data == cord.data \o src
      n == Smaller(FlatCapacity(Len(data)), Len(data))
  IN  IF Len(data) <= kMaxInline THEN Out(h, Inline(data))
      ELSE Only({IF n = Len(data) THEN OutTree(f)
                 ELSE Only({OutTree(AddData(t.h, t.rep, SubSeq(data, n + 1, Len(data)), "back"))
                             : t \in {Create(f.h, f.rep)}})
                  : f \in {CreateFlat(h, SubSeq(data, 1, n))}})

AppendArray(h, cord, src) ==
  Only({IF IsTree(c.cord)
          THEN Only({AppendToRep(r.h, r.rep, src) : r \in {RemoveCrcNode(c.h, c.cord.tree)}})
          ELSE AppendInlined(c.h, c.cord, src)
         : c \in {MaybeRemoveEmptyCrcNode(h, cord)}})

PrependArray(h, cord, src) ==
  Only({IF ~IsTree(c.cord) /\ Len(c.cord.data \o src) <= kMaxInline
          THEN Out(c.h, Inline(src \o c.cord.data))
          ELSE Only({AddTree(t.h, c.cord, t.rep, "front") : t \in {NewTree(c.h, src)}})
         : c \in {MaybeRemoveEmptyCrcNode(h, cord)}})

RECURSIVE AppendAll(_, _, _)
AppendAll(h, cord, chunks) ==
  IF chunks = <<>> THEN Out(h, cord)
  ELSE Only({AppendAll(r.h, r.cord, Tail(chunks)) : r \in {AppendArray(h, cord, chunks[1])}})

ChunksOf(h, cord) == LET es == Parts(h, cord) IN [i \in DOMAIN es |-> EdgeData(h, es[i])]

\* TakeRep and RemoveCrcNode: the source keeps its reference, or it is moved from.
Taken(h, src, moved) == RemoveCrcNode(IF moved THEN h ELSE Ref(h, src.tree), src.tree)

\* Appended to itself a cord is copied first, unless its bytes are in one place.
AppendChunks(h, cord, src, self) ==
  IF ~IsTree(src) THEN AppendArray(h, cord, src.data)
  ELSE IF ~self \/ Is(h, src.tree, "FLAT") THEN AppendAll(h, cord, ChunksOf(h, src))
  ELSE Only({Out(Unref(r.h, src.tree), r.cord) : r \in {AppendAll(Ref(h, src.tree), cord, ChunksOf(h, src))}})

AppendImpl(h, cord, src, self, moved) ==
  Only({IF Size(h, src) = 0 THEN c
        ELSE IF Size(c.h, c.cord) = 0
          THEN (IF IsTree(src) THEN OutTree(Taken(c.h, src, moved)) ELSE Out(c.h, Inline(src.data)))
        ELSE IF Size(h, src) <= kMaxBytesToCopy THEN AppendChunks(c.h, c.cord, src, self)
        ELSE Only({AddTree(r.h, c.cord, r.rep, "back") : r \in {Taken(c.h, src, moved)}})
         : c \in {MaybeRemoveEmptyCrcNode(h, cord)}})

PrependCord(h, cord, src) ==
  Only({IF Size(h, src) = 0 THEN c
        ELSE IF IsTree(src) THEN Only({AddTree(r.h, c.cord, r.rep, "front") : r \in {Taken(c.h, src, FALSE)}})
        ELSE PrependArray(c.h, c.cord, src.data)
         : c \in {MaybeRemoveEmptyCrcNode(h, cord)}})

\* GetAppendBuffer, which takes the last flat out or makes a buffer, and Append of the buffer.
AppendPrecise(h, cord, data) ==
  IF ~IsTree(cord) /\ Len(cord.data \o data) <= kMaxInline THEN Out(h, Inline(cord.data \o data))
  ELSE Only({AddTree(f.h, cord, f.rep, "back") : f \in {CreateFlat(h, data)}})

AppendViaBuffer(h, cord, data, min_capacity) ==
  IF ~IsTree(cord) THEN AppendPrecise(h, Inline(<<>>), cord.data \o data)
  ELSE Only({IF x.extracted = Null
               THEN (IF data = <<>> THEN Out(h, cord)
                     ELSE Only({AppendPrecise(c.h, c.cord, data) : c \in {MaybeRemoveEmptyCrcNode(x.h, cord)}}))
               ELSE AddTree(GetAppendBuffer(x.h, x.extracted, data), Tree(x.rep), x.extracted, "back")
              : x \in {IF Is(h, cord.tree, "CRC") THEN [h |-> h, rep |-> cord.tree, extracted |-> Null]
                       ELSE ExtractAppendBuffer(h, cord.tree, min_capacity)}})

-----------------------------------------------------------------------------
(* Removal, parts, assignment.                                             *)

TreeOrEmpty(r) == Out(r.h, IF r.rep = Null THEN Inline(<<>>) ELSE Tree(r.rep))

CutFront(h, rep, n) ==
  LET length == h[rep].length - n
  IN  IF n >= h[rep].length THEN Result(Unref(h, rep), Null)
      ELSE IF Is(h, rep, "BTREE")
        THEN LET s == SubTree(h, rep, n, length) IN Result(Unref(s.h, rep), s.rep)
      ELSE IF Is(h, rep, "SUBSTRING") /\ IsOne(h, rep)
        THEN Result([h EXCEPT ![rep].start = @ + n, ![rep].length = length], rep)
      ELSE LET s == Substring(h, rep, n, length) IN Result(Unref(s.h, rep), s.rep)

CutBack(h, rep, n) ==
  LET length == h[rep].length - n
  IN  IF n >= h[rep].length THEN Result(Unref(h, rep), Null)
      ELSE IF Is(h, rep, "BTREE") THEN RemoveSuffix(h, rep, n)
      ELSE IF ~Is(h, rep, "EXTERNAL") /\ IsOne(h, rep) THEN Result(Shorten(h, rep, length), rep)
      ELSE LET s == Substring(h, rep, 0, length) IN Result(Unref(s.h, rep), s.rep)

Cut(h, cord, n, side) ==
  Only({IF ~IsTree(c.cord)
          THEN Out(c.h, Inline(IF side = "front" THEN SubSeq(c.cord.data, n + 1, Len(c.cord.data))
                               ELSE SubSeq(c.cord.data, 1, Len(c.cord.data) - n)))
          ELSE Only({TreeOrEmpty(IF side = "front" THEN CutFront(r.h, r.rep, n) ELSE CutBack(r.h, r.rep, n))
                      : r \in {RemoveCrcNode(c.h, c.cord.tree)}})
         : c \in {MaybeRemoveEmptyCrcNode(h, cord)}})

Subcord(h, cord, pos, n) ==
  IF n = 0 THEN Out(h, Inline(<<>>))
  ELSE IF ~IsTree(cord) \/ n <= kMaxInline THEN Out(h, Inline(SubSeq(CharsOf(h, cord), pos + 1, pos + n)))
  ELSE LET e == SkipCrcNode(h, cord.tree)
       IN  OutTree(IF Is(h, e, "BTREE") THEN SubTree(h, e, pos, n) ELSE Substring(h, e, pos, n))

\* Move assignment.
Replace(h, old, r) == Out(UnrefTree(r.h, old), r.cord)

\* Copy assignment.
AssignSlow(h, cord, src) ==
  Out(UnrefTree(IF IsTree(src) THEN Ref(h, src.tree) ELSE h, cord), src)

\* operator=(string_view)
AssignArray(h, cord, data) ==
  IF Len(data) <= kMaxInline THEN Out(UnrefTree(h, cord), Inline(data))
  ELSE IF /\ IsTree(cord) /\ Is(h, cord.tree, "FLAT")
          /\ h[cord.tree].capacity >= Len(data) /\ IsOne(h, cord.tree)
    THEN Out([h EXCEPT ![cord.tree].data = data, ![cord.tree].length = Len(data)], cord)
    ELSE Only({Out(UnrefTree(r.h, cord), Tree(r.rep)) : r \in {NewTree(h, data)}})

SetCrcCordState(h, cord, state) ==
  IF Size(h, cord) = 0
    THEN Only({OutTree(NewCrc(c.h, Null, 0, state)) : c \in {MaybeRemoveEmptyCrcNode(h, cord)}})
  ELSE IF ~IsTree(cord)
    THEN Only({OutTree(NewCrc(f.h, f.rep, Len(cord.data), state)) : f \in {CreateFlat(h, cord.data)}})
  ELSE OutTree(NewCrc(h, cord.tree, h[cord.tree].length, state))

ExpectedChecksum(h, cord) ==
  IF IsTree(cord) /\ Is(h, cord.tree, "CRC") THEN h[cord.tree].state ELSE NoSum

\* GetFlatAux
IsFlat(h, cord) ==
  IF ~IsTree(cord) THEN TRUE
  ELSE LET e == SkipCrcNode(h, cord.tree)
       IN  e = Null \/ ~Is(h, e, "BTREE") \/ (h[e].height = 0 /\ Len(h[e].edges) = 1)

Flatten(h, cord) ==
  IF IsFlat(h, cord) THEN Out(h, cord)
  ELSE LET data == CharsOf(h, cord)
           r == IF Len(data) <= kMaxFlatLength THEN CreateFlat(h, data) ELSE Alloc(h, ExternalRep(data))
       IN  Out(Unref(r.h, cord.tree), Tree(r.rep))

-----------------------------------------------------------------------------
(* Calls.                                                                  *)

Init == /\ heap = <<>> /\ cords = [c \in Cords |-> Inline(<<>>)] /\ contents = [c \in Cords |-> <<>>]
        /\ sums = [c \in Cords |-> NoSum] /\ written = 0

Total == FoldFunction(LAMBDA x, n : n + Len(x), 0, contents)
Fresh(n) == SubSeq([i \in 1 .. written + n |-> i], written + 1, written + n)

\* A call on cord c leaves r there, and should leave bytes in it, with checksum sum.
Leaves(c, r, bytes, sum) ==
  /\ heap' = r.h /\ cords' = [cords EXCEPT ![c] = r.cord]
  /\ contents' = [contents EXCEPT ![c] = bytes] /\ sums' = [sums EXCEPT ![c] = sum]

Sizes == {n \in 1 .. MaxAppend : Total + n <= MaxLength}

Append_(c) == "Append" \in Calls /\ \E n \in Sizes : \E r \in {AppendArray(heap, cords[c], Fresh(n))} :
  Leaves(c, r, contents[c] \o Fresh(n), NoSum) /\ written' = written + n

Prepend_(c) == "Prepend" \in Calls /\ \E n \in Sizes : \E r \in {PrependArray(heap, cords[c], Fresh(n))} :
  Leaves(c, r, Fresh(n) \o contents[c], NoSum) /\ written' = written + n

Assign(c) == "Assign" \in Calls /\ \E n \in Sizes : \E r \in {AssignArray(heap, cords[c], Fresh(n))} :
  Leaves(c, r, Fresh(n), NoSum) /\ written' = written + n

\* c = MakeCordFromExternal(...)
External(c) == "External" \in Calls /\ \E n \in Sizes :
  \E r \in {Replace(heap, cords[c], OutTree(Alloc(heap, ExternalRep(Fresh(n)))))} :
    Leaves(c, r, Fresh(n), NoSum) /\ written' = written + n

\* A buffer that is asked for n bytes, which are all written.
Buffer(c) == "Buffer" \in Calls /\ \E n \in Sizes \cup {0} :
  /\ n <= kMaxFlatLength - Len(cords[c].data)
  /\ \E r \in {AppendViaBuffer(heap, cords[c], Fresh(n), n)} :
       Leaves(c, r, contents[c] \o Fresh(n), IF n = 0 THEN sums[c] ELSE NoSum) /\ written' = written + n

\* An empty cord is not appended, but an empty checksum node goes.
SumAfter(c, d) == IF contents[d] = <<>> /\ contents[c] # <<>> THEN sums[c] ELSE NoSum

AppendCord(c, d) ==
  /\ "AppendCord" \in Calls /\ Total + Len(contents[d]) <= MaxLength
  /\ \E r \in {AppendImpl(heap, cords[c], cords[d], c = d, FALSE)} :
       Leaves(c, r, contents[c] \o contents[d], SumAfter(c, d))
  /\ UNCHANGED written

\* Append(Cord&&): what is taken is no longer there.
AppendMoved(c, d) ==
  /\ "AppendCord" \in Calls /\ c # d /\ IsTree(cords[d]) /\ contents[d] # <<>>
  /\ contents[c] = <<>> \/ Len(contents[d]) > kMaxBytesToCopy
  /\ \E r \in {AppendImpl(heap, cords[c], cords[d], FALSE, TRUE)} :
       /\ heap' = r.h /\ cords' = [cords EXCEPT ![c] = r.cord, ![d] = Inline(<<>>)]
       /\ contents' = [contents EXCEPT ![c] = @ \o contents[d], ![d] = <<>>]
       /\ sums' = [sums EXCEPT ![c] = NoSum, ![d] = NoSum]
  /\ UNCHANGED written

PrependCord_(c, d) ==
  /\ "PrependCord" \in Calls /\ Total + Len(contents[d]) <= MaxLength
  /\ \E r \in {PrependCord(heap, cords[c], cords[d])} :
       Leaves(c, r, contents[d] \o contents[c], SumAfter(c, d))
  /\ UNCHANGED written

AssignCord(c, d) ==
  /\ "AssignCord" \in Calls /\ c # d /\ Total - Len(contents[c]) + Len(contents[d]) <= MaxLength
  /\ \E r \in {AssignSlow(heap, cords[c], cords[d])} : Leaves(c, r, contents[d], sums[d])
  /\ UNCHANGED written

\* c = d.Subcord(pos, n)
Subcord_(c, d) == "Subcord" \in Calls /\ \E pos \in 0 .. Len(contents[d]) :
  \E n \in 0 .. Len(contents[d]) - pos :
    /\ Total - Len(contents[c]) + n <= MaxLength
    /\ \E r \in {Subcord(heap, cords[d], pos, n)} :
         Leaves(c, Replace(r.h, cords[c], r), SubSeq(contents[d], pos + 1, pos + n), NoSum)
    /\ UNCHANGED written

\* RemovePrefix: nothing to remove still takes a checksum off.
CutPrefix_(c) == "RemovePrefix" \in Calls /\ \E n \in 0 .. Len(contents[c]) :
  \E r \in {Cut(heap, cords[c], n, "front")} :
    Leaves(c, r, SubSeq(contents[c], n + 1, Len(contents[c])), NoSum) /\ UNCHANGED written

CutSuffix_(c) == "RemoveSuffix" \in Calls /\ \E n \in 0 .. Len(contents[c]) :
  \E r \in {Cut(heap, cords[c], n, "back")} :
    Leaves(c, r, SubSeq(contents[c], 1, Len(contents[c]) - n), NoSum) /\ UNCHANGED written

Clear(c) == Leaves(c, Out(UnrefTree(heap, cords[c]), Inline(<<>>)), <<>>, NoSum) /\ UNCHANGED written

\* The cord gives the number no meaning: one of two.
SetExpectedChecksum(c) == "Checksum" \in Calls /\ \E crc \in {1, 2} :
  \E r \in {SetCrcCordState(heap, cords[c], crc)} :
    Leaves(c, r, contents[c], crc) /\ UNCHANGED written

Flatten_(c) == "Flatten" \in Calls /\ \E r \in {Flatten(heap, cords[c])} :
  Leaves(c, r, contents[c], IF IsFlat(heap, cords[c]) THEN sums[c] ELSE NoSum) /\ UNCHANGED written

Next == \E c \in Cords :
  \/ Append_(c) \/ Prepend_(c) \/ Assign(c) \/ External(c) \/ Buffer(c)
  \/ CutPrefix_(c) \/ CutSuffix_(c) \/ Clear(c) \/ SetExpectedChecksum(c) \/ Flatten_(c)
  \/ \E d \in Cords : \/ AppendCord(c, d) \/ AppendMoved(c, d) \/ PrependCord_(c, d)
                      \/ AssignCord(c, d) \/ Subcord_(c, d)

Spec == Init /\ [][Next]_vars

-----------------------------------------------------------------------------
(* Properties.                                                             *)

Holders(e) == Cardinality({c \in Cords : cords[c].tree = e})
              + FoldFunction(LAMBDA rep, n : n + Occurrences(Refs(rep), e), 0, heap)

\* cord_rep_btree.h:586: "multiple trees / parents can reference the same shared child
\* edge". A node that a cord or another node refers to is there.
SharedEdgesRemain ==
  {cords[c].tree : c \in Cords} \cup UNION {Range(Refs(heap[e])) : e \in DOMAIN heap}
    \subseteq DOMAIN heap \cup {Null}

\* A node's count is the number of cords and nodes that refer to it, and every
\* reference is to a node that is still there: nothing is deleted while in use, nothing
\* is left behind.
CountsAreReferences ==
  SharedEdgesRemain /\ \A e \in DOMAIN heap : heap[e].rc = Holders(e)

\* Every cord has the bytes that the calls on it left there: what is done to one cord in
\* place is never seen in another that shares a node with it.
ContentsAreRight == \A c \in Cords : CharsOf(heap, cords[c]) = contents[c]

\* CordRepBtree::IsValid and VerifyNode: lengths are sums, edges of a node have one
\* height, a node has room for its edges, a part is within what it is part of, and a
\* checksum is at the root only.
NodeIsValid(rep) ==
  CASE rep.tag = "BTREE" ->
         /\ rep.height <= kMaxHeight /\ Len(rep.edges) \in 1 .. kMaxCapacity
         /\ rep.length = TotalLength(heap, rep.edges)
         /\ \A e \in Range(rep.edges) : /\ heap[e].length > 0 /\ HeightOver(heap, e) = rep.height
                                        /\ ~Is(heap, e, "CRC")
    [] rep.tag = "CRC" -> /\ rep.length = (IF rep.child = Null THEN 0 ELSE heap[rep.child].length)
                          /\ rep.child # Null => ~Is(heap, rep.child, "CRC")
    [] rep.tag = "SUBSTRING" -> /\ heap[rep.child].tag \in {"FLAT", "EXTERNAL"} /\ rep.length > 0
                                /\ rep.start + rep.length <= heap[rep.child].length
    [] rep.tag = "FLAT" -> rep.length = Len(rep.data) /\ rep.length \in 1 .. rep.capacity
    [] rep.tag = "EXTERNAL" -> rep.length > 0
NodesAreValid == \A e \in DOMAIN heap : NodeIsValid(heap[e])

\* A cord has the checksum that was last set on it, or on the cord it is a copy of, and
\* none after a change: a checksum never ends up on other bytes, nor on another cord
\* that shares the node.
ChecksumIsTheLastSet == \A c \in Cords : ExpectedChecksum(heap, cords[c]) = sums[c]

-----------------------------------------------------------------------------
(* States are told apart by their shape: the nodes in the order of a walk  *)
(* from the cords, without their addresses and bytes.                      *)

RECURSIVE Walk(_, _)
Walk(seen, todo) ==
  IF todo = <<>> THEN seen
  ELSE LET e == todo[1]
       IN  IF e = Null \/ e \in Range(seen) THEN Walk(seen, Tail(todo))
           ELSE Walk(Append(seen, e), Refs(heap[e]) \o Tail(todo))

Shape(e, order) ==
  LET At(x) == IF x = Null THEN 0 ELSE CHOOSE i \in DOMAIN order : order[i] = x
      rep == heap[e]
  IN  <<rep.tag, rep.rc, rep.length, [i \in DOMAIN Refs(rep) |-> At(Refs(rep)[i])],
        CASE rep.tag = "SUBSTRING" -> rep.start [] rep.tag = "FLAT" -> rep.capacity
          [] rep.tag = "CRC" -> rep.state [] OTHER -> 0>>

View ==
  IF ~CountsAreReferences THEN <<heap, cords, contents, sums>>
  ELSE LET roots == [i \in 1 .. Cardinality(Cords) |-> cords[i].tree]
           order == Only({Walk(<<>>, r) : r \in {roots}})
       IN  <<[i \in DOMAIN order |-> Shape(order[i], order)],
             [i \in DOMAIN roots |-> IF roots[i] = Null THEN 0 ELSE CHOOSE k \in DOMAIN order : order[k] = roots[i]],
             [i \in DOMAIN roots |-> Len(cords[i].data)], ContentsAreRight /\ ChecksumIsTheLastSet>>
=============================================================================
