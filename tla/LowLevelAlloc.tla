--------------------------- MODULE LowLevelAlloc ---------------------------
(***************************************************************************)
(* An arena (absl/base/internal/low_level_alloc.cc): first fit, in a skip  *)
(* list of the free blocks. Sizes and addresses are counted in units of    *)
(* round_up = 32 bytes, which is also the size of a header. The arena's    *)
(* lock is held all through an operation except around mmap.               *)
(***************************************************************************)
EXTENDS Integers, Sequences, FiniteSets

CONSTANTS Threads,
          Requests,     \* sizes that are asked for, with the header
          Memory,       \* bound: units of address space
          Page,         \* units of a page
          ChunkPages,   \* pages that are mapped at a time: 16 in the code
          kMaxLevel,    \* 30 in the code
          MaxRandom     \* bound: what Random returns at most

LowLevelAllocAssumption ==
  /\ {Memory, Page, ChunkPages, kMaxLevel, MaxRandom} \subseteq Nat \ {0}
  /\ \A r \in Requests : r \in Nat /\ r >= 2

VARIABLES heap,     \* [size, magic: of each address; next: of each free block and freelist;
                    \*  allocation_count]
          mapped,   \* the units that are mapped
          op        \* of each thread: where it is

vars == <<heap, mapped, op>>

Units == Page .. Page + Memory - 1
freelist == 0
Null == -1
min_size == 2

Idle == [pc |-> "idle"]
Empty == [size |-> [a \in Units \cup {freelist} |-> 0], magic |-> [a \in Units |-> "none"],
          next |-> [a \in Units \cup {freelist} |-> <<>>], allocation_count |-> 0]
Init == heap = Empty /\ mapped = {} /\ op = [t \in Threads |-> Idle]

Smaller(a, b) == IF a <= b THEN a ELSE b
Larger(a, b) == IF a <= b THEN b ELSE a
RoundUp(n, align) == ((n + align - 1) \div align) * align

-----------------------------------------------------------------------------
(* The skip list. next[a][i] is the successor of a at level i - 1.         *)

IntLog2[bytes \in Nat] == IF bytes <= 32 * min_size THEN 0 ELSE 1 + IntLog2[bytes \div 2]

\* LLA_SkiplistLevels, of a block of n units. There are 40 bytes before its array next.
SkiplistLevels(n, random) ==
  Smaller(Smaller(IntLog2[32 * n] + random, (32 * n - 40) \div 8), kMaxLevel - 1)

\* The last element before e at level i, as LLA_SkiplistSearch finds it from above.
Prev(next, i, e) ==
  LET height == Len(next[freelist])
      forward[l \in 1 .. height, p \in DOMAIN next] ==
        LET n == next[p][l] IN IF n # Null /\ n < e THEN forward[l, n] ELSE p
      prev[l \in 1 .. height] == forward[l, IF l = height THEN freelist ELSE prev[l + 1]] IN
  IF i > height THEN freelist ELSE prev[i]

SkiplistInsert(next, e, levels) ==
  LET height == Larger(levels, Len(next[freelist]))
      head == [i \in 1 .. height |-> IF i <= Len(next[freelist]) THEN next[freelist][i] ELSE Null]
      extended == [next EXCEPT ![freelist] = head]
      prev == [i \in 1 .. levels |-> Prev(next, i, e)] IN
  [p \in DOMAIN next |->
    IF p = e THEN [i \in 1 .. levels |-> extended[prev[i]][i]]
    ELSE [i \in DOMAIN extended[p] |-> IF i <= levels /\ prev[i] = p THEN e ELSE extended[p][i]]]

\* Without the levels that are not used.
Trimmed(head) ==
  SubSeq(head, 1, Cardinality({i \in DOMAIN head : \E j \in DOMAIN head : j >= i /\ head[j] # Null}))

SkiplistDelete(next, e) ==
  LET prev == [i \in 1 .. Len(next[e]) |-> Prev(next, i, e)]
      rest == [p \in DOMAIN next |->
                IF p = e THEN <<>>
                ELSE [i \in DOMAIN next[p] |->
                       IF i <= Len(next[e]) /\ prev[i] = p /\ next[p][i] = e THEN next[e][i]
                       ELSE next[p][i]]] IN
  [rest EXCEPT ![freelist] = Trimmed(@)]

First(next, p) == IF next[p] = <<>> THEN Null ELSE next[p][1]

-----------------------------------------------------------------------------
(* Blocks. What is random gives a set of results.                          *)

Randoms == 1 .. MaxRandom

\* Coalesce: a is joined with its successor if there is nothing between.
Coalesce(h, a) ==
  LET n == First(h.next, a)
      size == h.size[a] + h.size[n]
      without == SkiplistDelete(SkiplistDelete(h.next, n), a) IN
  IF n # Null /\ a + h.size[a] = n
    THEN {[h EXCEPT !.size = [@ EXCEPT ![a] = size, ![n] = 0], !.magic = [@ EXCEPT ![n] = "none"],
                    !.next = SkiplistInsert(without, a, SkiplistLevels(size, r))] : r \in Randoms}
    ELSE {h}

\* Mutant: the predecessor is left alone.
AddToFreelist_NoPredecessor(h, f) ==
  UNION {Coalesce([h EXCEPT !.next = SkiplistInsert(@, f, SkiplistLevels(h.size[f], r)),
                            !.magic[f] = "free"], f) : r \in Randoms}

AddToFreelist(h, f) ==
  LET before == Prev(h.next, 1, f)
      inserted(r) == [h EXCEPT !.next = SkiplistInsert(@, f, SkiplistLevels(h.size[f], r)),
                               !.magic[f] = "free"] IN
  UNION {Coalesce(g, before) : g \in UNION {Coalesce(inserted(r), f) : r \in Randoms}}

\* The first region that is big enough, or Null. Only the levels that it must have are looked at.
Region(h, request) ==
  LET i == SkiplistLevels(request, 1)
      from[p \in Units \cup {freelist}] ==
        LET s == h.next[p][i] IN IF s = Null \/ h.size[s] >= request THEN s ELSE from[s] IN
  IF i <= Len(h.next[freelist]) THEN from[freelist] ELSE Null

\* The block s is taken off the list, and split if it is big enough.
Allocated(h, s, request) ==
  LET n == s + request
      taken == [h EXCEPT !.next = SkiplistDelete(@, s), !.magic[s] = "allocated",
                         !.allocation_count = @ + 1] IN
  IF request + min_size <= h.size[s]
    THEN AddToFreelist([taken EXCEPT !.size = [@ EXCEPT ![n] = h.size[s] - request, ![s] = request],
                                     !.magic[n] = "allocated"], n)
    ELSE {taken}

-----------------------------------------------------------------------------
(* Operations.                                                             *)

\* DoAllocWithArena: if there is no region the lock is released,
Alloc(t, request) ==
  /\ op[t] = Idle
  /\ LET s == Region(heap, request) IN
     IF s # Null THEN heap' \in Allocated(heap, s, request) /\ UNCHANGED op
     ELSE op' = [op EXCEPT ![t] = [pc |-> "mmap", request |-> request]] /\ UNCHANGED heap
  /\ UNCHANGED mapped

\* pages are mapped, wherever the system likes,
Mmap(t) ==
  /\ op[t].pc = "mmap"
  /\ LET size == RoundUp(op[t].request, Page * ChunkPages) IN
     \E a \in Units :
       /\ a % Page = 0 /\ a .. a + size - 1 \subseteq Units \ mapped
       /\ mapped' = mapped \cup (a .. a + size - 1)
       /\ op' = [op EXCEPT ![t] = [pc |-> "relock", request |-> op[t].request,
                                   pages |-> a, size |-> size]]
  /\ UNCHANGED heap

\* and the lock is taken again. The pages are put into the list, and a region is looked for.
AddPages(t) ==
  /\ op[t].pc = "relock"
  /\ \E h \in AddToFreelist([heap EXCEPT !.size[op[t].pages] = op[t].size,
                                         !.magic[op[t].pages] = "allocated"], op[t].pages) :
       LET s == Region(h, op[t].request) IN
       IF s # Null
         THEN heap' \in Allocated(h, s, op[t].request) /\ op' = [op EXCEPT ![t] = Idle]
         ELSE heap' = h /\ op' = [op EXCEPT ![t] = [pc |-> "mmap", request |-> op[t].request]]
  /\ UNCHANGED mapped

Free(t) ==
  /\ op[t] = Idle
  /\ \E a \in Units :
       /\ heap.magic[a] = "allocated"
       /\ heap' \in AddToFreelist([heap EXCEPT !.allocation_count = @ - 1], a)
  /\ UNCHANGED <<mapped, op>>

Block(a) == a .. a + heap.size[a] - 1
FreeBlocks == {a \in Units : heap.magic[a] = "free"}
AllocatedBlocks == {a \in Units : heap.magic[a] = "allocated"}

\* The elements at level i - 1, in order.
Level(i) ==
  LET from[p \in Units \cup {freelist}] ==
        LET n == heap.next[p][i] IN IF n = Null THEN <<>> ELSE <<n>> \o from[n] IN
  IF i <= Len(heap.next[freelist]) THEN from[freelist] ELSE <<>>

\* DeleteArena, and NewArena after it, when no thread uses the arena.
DeleteArena ==
  /\ \A t \in Threads : op[t] = Idle
  /\ heap.allocation_count = 0 /\ mapped # {}
  /\ mapped' = mapped \ UNION {Block(Level(1)[k]) : k \in DOMAIN Level(1)}
  /\ heap' = Empty
  /\ UNCHANGED op

Next ==
  \/ DeleteArena
  \/ \E t \in Threads : (\E r \in Requests : Alloc(t, r)) \/ Mmap(t) \/ AddPages(t) \/ Free(t)

Spec == Init /\ [][Next]_vars

-----------------------------------------------------------------------------
\* The blocks, free or allocated, lie side by side in the memory that is mapped: none
\* overlaps another and none is lost.
BlocksTile ==
  LET blocks == FreeBlocks \cup AllocatedBlocks
      underway == UNION {op[t].pages .. op[t].pages + op[t].size - 1 :
                           t \in {u \in Threads : op[u].pc = "relock"}} IN
  /\ UNION {Block(a) : a \in blocks} = mapped \ underway
  /\ \A a, b \in blocks : a # b => Block(a) \cap Block(b) = {}
  /\ heap.allocation_count = Cardinality(AllocatedBlocks)

\* Each level of the list has those free blocks that have so many levels, in order.
ListIsSorted ==
  \A i \in 1 .. kMaxLevel :
    LET s == Level(i) IN
    /\ \A j, k \in DOMAIN s : j < k => s[j] < s[k]
    /\ {s[k] : k \in DOMAIN s} = {a \in FreeBlocks : i <= Len(heap.next[a])}

\* "they should have been coalesced" (Next)
NoFreeNeighbours == \A a, b \in FreeBlocks : a + heap.size[a] # b

\* No pages are mapped while there is a free block that is big enough, and the first one that
\* is big enough is used.
FirstFit ==
  \A r \in Requests :
    LET fit == {a \in FreeBlocks : heap.size[a] >= r} IN
    IF fit = {} THEN Region(heap, r) = Null
    ELSE Region(heap, r) \in fit /\ \A a \in fit : Region(heap, r) <= a

\* "empty arena has non-page-aligned block": DeleteArena can give everything back.
EmptyArenaIsPages ==
  heap.allocation_count = 0 => \A a \in FreeBlocks : a % Page = 0 /\ heap.size[a] % Page = 0
=============================================================================
