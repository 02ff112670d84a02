----------------------------- MODULE RawHashSet -----------------------------
(***************************************************************************)
(* The table under all hash containers (absl/container/internal/           *)
(* raw_hash_set.h and .cc). A control byte tells of each slot whether it   *)
(* is empty, deleted or full, and has 7 bits of the hash if it is full.    *)
(* Lookups look at groups of Width control bytes at once and stop at a     *)
(* group with an empty one. The first bytes have clones behind the         *)
(* sentinel, so that groups may wrap around. The sizes of groups are       *)
(* parameters here, smaller in the runs than in the code. Sampling and     *)
(* the generations of sanitizer builds are left out.                       *)
(***************************************************************************)
EXTENDS Integers, FiniteSets, SequencesExt, Bitwise

CONSTANTS Keys, NoKey,
          Home,          \* the hash of each key but its last 7 bits
          Tag,           \* these 7 bits
          Seeds,         \* the seeds of tables
          Width,         \* Group::kWidth, 8 or 16
          LoadDiv,       \* a table is filled up to 1 - 1/LoadDiv, 1/8 in the code
          DropThreshold, \* tombstones are dropped up to size * 32 <= capacity * this, 25
          ReuseBelow,    \* clear keeps the array of a smaller table, 128
          SooEnabled,    \* whether a single slot is kept in the object itself
          Requests       \* bound: arguments of reserve and rehash

RawHashSetAssumption ==
  /\ Home \in [Keys -> Nat] /\ Tag \in [Keys -> 0..127] /\ NoKey \notin Keys
  /\ Seeds \subseteq Nat /\ Width \in Nat \ {0} /\ LoadDiv \in Nat \ {0}

VARIABLES t,        \* the table: capacity, seed, ctrl, slot, size, growth_left, deleted
          found,    \* the keys that lookups find in it
          promised  \* history: what reserve was last asked for, until a key is erased

\* ctrl_t; a full byte is the tag.
Empty == -128
Deleted == -2
Sentinel == -1
Unset == -3            \* memory that was allocated only

IsFull(c) == c >= 0
NonFull(c) == c < 0    \* so may be a byte that is not set

SooCapacity == IF SooEnabled THEN 1 ELSE 0
Cloned == Width - 1

\* The two kinds of tables without an array.
Soo(slot) == [capacity |-> SooCapacity, seed |-> 0, ctrl |-> <<>>, slot |-> slot,
              size |-> Len(slot), growth_left |-> 0, deleted |-> FALSE]
Init == t = Soo(<<>>) /\ found = {} /\ promised = 0

IsSoo(s) == SooEnabled /\ s.capacity = SooCapacity

-----------------------------------------------------------------------------
(* Capacities.                                                             *)

NextCapacity(n) == 2 * n + 1
IsSingleGroup(capacity) == capacity <= Width

\* The next number of the form 2^k - 1.
NormalizeCapacity(n) == CHOOSE c \in {2^k - 1 : k \in 1..8} : c >= n /\ (c = 1 \/ c \div 2 < n)

\* A table that just fits a group leaves one slot empty.
CapacityToGrowth(capacity) ==
  IF LoadDiv = Width /\ capacity = Width - 1 THEN capacity - 1
  ELSE capacity - capacity \div LoadDiv

SizeToCapacity(size) ==
  IF size = 0 THEN 0
  ELSE LET c == NormalizeCapacity(size)
       IN  IF size > CapacityToGrowth(c) THEN NextCapacity(c) ELSE c

-----------------------------------------------------------------------------
(* Control bytes and probing.                                              *)

SetCtrl(s, i, c) ==
  [s EXCEPT !.ctrl[i] = c,
            !.ctrl[((i - Cloned) % (s.capacity + 1)) + (Cloned % (s.capacity + 1))] = c]

H1(k, seed) == Home[k] ^^ seed

\* Where the j-th group of a probe sequence begins.
Offset(s, h1, j) == (h1 + Width * ((j * (j + 1)) \div 2)) % (s.capacity + 1)

Probes(s) == 0..(s.capacity \div Width)

\* Where the bytes that satisfy a predicate are in the group at offset.
Matches(s, offset, P(_)) == {i \in 0..Width - 1 : P(s.ctrl[offset + i])}

Slot(s, offset, i) == (offset + i) % (s.capacity + 1)

\* The first slot along the probe sequence whose byte satisfies a predicate.
FirstSlot(s, h1, P(_)) ==
  LET j == Min({g \in Probes(s) : Matches(s, Offset(s, h1, g), P) # {}})
  IN  Slot(s, Offset(s, h1, j), Min(Matches(s, Offset(s, h1, j), P)))

IsEmpty(c) == c = Empty
IsEmptyOrDeleted(c) == c \in {Empty, Deleted}

FindFirstNonFull(s, h1) == FirstSlot(s, h1, IsEmptyOrDeleted)

\* Where k is in the group at offset.
Candidates(s, k, offset) ==
  {Slot(s, offset, i) : i \in Matches(s, offset, LAMBDA c : c = Tag[k])}
Hits(s, k, offset) == {i \in Candidates(s, k, offset) : s.slot[i] = k}

\* find_large, or the loop of find_or_prepare_insert_non_soo: the groups up to the
\* first with k or an empty byte.
FindLarge(s, k) ==
  LET groups == {j \in Probes(s) : LET o == Offset(s, H1(k, s.seed), j)
                                   IN  Hits(s, k, o) # {} \/ Matches(s, o, IsEmpty) # {}}
  IN  IF groups = {} THEN {} ELSE Hits(s, k, Offset(s, H1(k, s.seed), Min(groups)))

\* find: the slot of k as a set.
FindSlot(s, k) ==
  IF s.capacity <= 1
    THEN IF s.size > 0 /\ s.slot[IF IsSoo(s) THEN 1 ELSE 0] = k THEN {0} ELSE {}
    ELSE FindLarge(s, k)

-----------------------------------------------------------------------------
(* Making and growing arrays.                                              *)

\* ResetCtrl for a new array.
Array(capacity, seed, size) ==
  [capacity |-> capacity, seed |-> seed,
   ctrl |-> [i \in 0..capacity + Cloned |-> IF i = capacity THEN Sentinel ELSE Empty],
   slot |-> [i \in 0..capacity - 1 |-> NoKey],
   size |-> size, growth_left |-> CapacityToGrowth(capacity) - size, deleted |-> FALSE]

Put(s, i, k) == [SetCtrl(s, i, Tag[k]) EXCEPT !.slot[i] = k]
PutFirst(s, k) == Put(s, FindFirstNonFull(s, H1(k, s.seed)), k)

Indices(s) == [i \in 1..s.capacity |-> i - 1]
FullSlots(s) == SelectSeq(Indices(s), LAMBDA i : IsFull(s.ctrl[i]))
FullKeys(s) ==
  IF IsSoo(s) THEN s.slot ELSE [j \in 1..Len(FullSlots(s)) |-> s.slot[FullSlots(s)[j]]]

\* ResizeNonSooImpl, ResizeFullSooTable: the keys are put into a new array.
Resized(s, capacity, seed) ==
  FoldLeft(PutFirst, Array(capacity, seed, s.size), FullKeys(s))

\* GrowIntoSingleGroupShuffleControlBytes: full slots move up by one.
Shuffled(s) ==
  FoldLeft(LAMBDA u, i : Put(u, i + 1, s.slot[i]),
           Array(NextCapacity(s.capacity), s.seed, s.size), Indices(s))

\* TryFindNewIndexWithoutProbing: an element in its first group finds its slot in the
\* first group of the new array; another one is put there if there is room and the
\* group is set already. Otherwise none is found.
NewIndex(s, old, i, h1) ==
  LET inGroup == (i - h1) % Width
      first == h1 % (s.capacity + 1)
      free == Matches(s, first, NonFull)
  IN  IF (i - h1 - inGroup) % (old.capacity + 1) = 0 THEN {(h1 + inGroup) % (s.capacity + 1)}
      ELSE IF h1 % (old.capacity + 1) >= i \/ free = {} THEN {}
      ELSE {first + Min(free)}

\* transfer_unprobed_elements_to_next_capacity, one slot: the bytes of both new groups
\* are set to empty before the first slot of an old group is looked at.
Transfer(old, u, i) ==
  LET begin == [j \in DOMAIN u.new.ctrl |->
         IF i % Width = 0 /\ (j \in i..i + Cloned \/ j - old.capacity - 1 \in i..i + Cloned)
         THEN Empty ELSE u.new.ctrl[j]]
      new == [u.new EXCEPT !.ctrl = begin]
      k == old.slot[i]
      index == NewIndex(new, old, i, H1(k, old.seed))
  IN  CASE ~IsFull(old.ctrl[i]) -> [u EXCEPT !.new = new]
        [] IsFull(old.ctrl[i]) /\ index = {} -> [new |-> new, probed |-> Append(u.probed, k)]
        [] OTHER -> [u EXCEPT !.new = [new EXCEPT !.ctrl[Min(index)] = Tag[k],
                                                  !.slot[Min(index)] = k]]

\* GrowToNextCapacity: elements that must be probed for are put in at the end, when
\* the clones are set. (The buffers that keep them meanwhile are a sequence here.)
Grown(old) ==
  LET array == Array(NextCapacity(old.capacity), old.seed, old.size)
      u == FoldLeft(LAMBDA v, i : Transfer(old, v, i),
             [new |-> [array EXCEPT !.ctrl = [j \in DOMAIN @ |-> Unset]], probed |-> <<>>],
             Indices(old))
      cloned == [j \in DOMAIN u.new.ctrl |->
         IF j = array.capacity THEN Sentinel
         ELSE u.new.ctrl[j % (array.capacity + 1)]]
  IN  FoldLeft(PutFirst, [u.new EXCEPT !.ctrl = cloned], u.probed)

\* The new element has been put in.
Counted(s) ==
  [s EXCEPT !.size = @ + 1, !.growth_left = CapacityToGrowth(s.capacity) - s.size - 1,
            !.deleted = FALSE]

Bit(n, b) == (n \div b) % 2 = 1

\* GrowToNextCapacityAndPrepareInsert: a table that fits a group has all slots full
\* and gets the new element at one of its ends.
GrowAndInsert(s, k, seed) ==
  IF s.capacity = 0 THEN Put(Array(1, seed, 1), 0, k)
  ELSE IF IsSingleGroup(NextCapacity(s.capacity))
    THEN Counted(Put(Shuffled(s), IF Bit(Tag[k] ^^ s.seed, 1) THEN 0 ELSE 2 * s.capacity, k))
    ELSE Counted(PutFirst(Grown(s), k))

\* GrowSooTableToNextCapacityAndPrepareInsert: the old slot goes to the middle of three.
GrowSooAndInsert(s, k, seed) ==
  Put(Put(Array(3, seed, 2), 1, s.slot[1]), IF Bit(Tag[k] ^^ seed, 2) THEN 2 ELSE 0, k)

-----------------------------------------------------------------------------
(* DropDeletesWithoutResizeAndPrepareInsert.                               *)

NoSlot == -1

\* ConvertDeletedToEmptyAndFullToDeleted.
Converted(s) ==
  [s EXCEPT !.ctrl = [j \in DOMAIN @ |->
     IF j = s.capacity THEN Sentinel
     ELSE IF IsFull(@[j % (s.capacity + 1)]) THEN Deleted ELSE Empty]]

\* Mutant: the element that was put into slot i is not looked at.
Redistribute_Once(u) ==
  LET s == u.s
      i == u.i
      k == s.slot[i]
      h1 == H1(k, s.seed)
      new == FindFirstNonFull(s, h1)
      grp(pos) == ((pos - h1) % (s.capacity + 1)) \div Width
  IN  IF s.ctrl[i] # Deleted THEN [u EXCEPT !.i = @ + 1]
      ELSE IF grp(new) = grp(i) THEN [u EXCEPT !.s = SetCtrl(s, i, Tag[k]), !.i = @ + 1]
      ELSE IF IsEmpty(s.ctrl[new])
        THEN [u EXCEPT !.s = [SetCtrl(Put(s, new, k), i, Empty) EXCEPT !.slot[i] = NoKey],
                       !.i = @ + 1]
        ELSE [u EXCEPT !.s = [SetCtrl(s, new, Tag[k]) EXCEPT !.slot[new] = k, !.slot[i] = s.slot[new]],
                       !.i = @ + 1]

\* One turn of the loop at slot i. Bytes that are deleted are now those of elements that
\* must be looked at. An element stays if it is in the best group it can be in; it moves
\* to an empty slot; or it changes places with another one, by way of an empty slot, and
\* slot i is looked at again.
Redistribute(u) ==
  LET s == u.s
      i == u.i
      k == s.slot[i]
      h1 == H1(k, s.seed)
      new == FindFirstNonFull(s, h1)
      grp(pos) == ((pos - h1) % (s.capacity + 1)) \div Width
      tmp == IF u.tmp # NoSlot THEN u.tmp
             ELSE Min({j \in i + 1..s.capacity - 1 : IsEmpty(s.ctrl[j])})
  IN  IF IsEmpty(s.ctrl[i]) THEN [u EXCEPT !.tmp = i, !.i = @ + 1]
      ELSE IF s.ctrl[i] # Deleted THEN [u EXCEPT !.i = @ + 1]
      ELSE IF grp(new) = grp(i) THEN [u EXCEPT !.s = SetCtrl(s, i, Tag[k]), !.i = @ + 1]
      ELSE IF IsEmpty(s.ctrl[new])
        THEN [u EXCEPT !.s = [SetCtrl(Put(s, new, k), i, Empty) EXCEPT !.slot[i] = NoKey],
                       !.i = @ + 1, !.tmp = i]
        ELSE [u EXCEPT !.s = [SetCtrl(s, new, Tag[k]) EXCEPT
                                !.slot[new] = k, !.slot[i] = s.slot[new], !.slot[tmp] = NoKey],
                       !.tmp = tmp]

DropDeletesAndInsert(s, k) ==
  LET run[n \in 0..2 * s.capacity] ==
        IF n = 0 THEN [s |-> Converted(s), i |-> 0, tmp |-> NoSlot]
        ELSE LET u == run[n - 1] IN IF u.i = s.capacity THEN u ELSE Redistribute(u)
  IN  Counted(PutFirst(run[2 * s.capacity].s, k))

-----------------------------------------------------------------------------
(* insert.                                                                 *)

\* PrepareInsertNonSooSlow, its last part: a tombstone may be used again.
InsertAfterErase(s, k) ==
  LET i == FindFirstNonFull(s, H1(k, s.seed))
  IN  [Put(s, i, k) EXCEPT !.size = @ + 1,
                           !.growth_left = IF IsEmpty(s.ctrl[i]) THEN @ - 1 ELSE @]

\* PrepareInsertNonSoo.
InsertNew(s, k, seed) ==
  IF s.growth_left = 0
    THEN IF s.deleted /\ s.capacity > Width /\ s.size * 32 <= s.capacity * DropThreshold
           THEN DropDeletesAndInsert(s, k)
           ELSE GrowAndInsert(s, k, seed)
    ELSE IF s.deleted THEN InsertAfterErase(s, k)
    ELSE [Put(s, FirstSlot(s, H1(k, s.seed), IsEmpty), k) EXCEPT
            !.size = @ + 1, !.growth_left = @ - 1]

\* find_or_prepare_insert and emplace_at.
Inserted(s, k, seed) ==
  IF IsSoo(s)
    THEN CASE s.size = 0 -> Soo(<<k>>)
           [] s.size = 1 /\ s.slot[1] = k -> s
           [] OTHER -> GrowSooAndInsert(s, k, seed)
    ELSE IF s.capacity > 0 /\ FindLarge(s, k) # {} THEN s
    ELSE InsertNew(s, k, seed)

-----------------------------------------------------------------------------
(* erase.                                                                  *)


\* No group that a lookup may have gone past had the slot in it: there are fewer than
\* Width bytes in a row around it that are not empty.
WasNeverFull(s, i) ==
  LET after == Matches(s, i, IsEmpty)
      before == Matches(s, (i - Width) % (s.capacity + 1), IsEmpty)
  IN  \/ IsSingleGroup(s.capacity)
      \/ /\ after # {} /\ before # {}
         /\ Min(after) + (Width - 1 - Max(before)) < Width

\* erase(key) and EraseMetaOnly.
Erased(s, k) ==
  LET i == CHOOSE j \in FindSlot(s, k) : TRUE
      u == [s EXCEPT !.size = @ - 1, !.slot[i] = NoKey]
  IN  IF FindSlot(s, k) = {} THEN s
      ELSE IF IsSoo(s) THEN Soo(<<>>)
      ELSE IF WasNeverFull(s, i) THEN [SetCtrl(u, i, Empty) EXCEPT !.growth_left = @ + 1]
      ELSE [SetCtrl(u, i, Deleted) EXCEPT !.deleted = TRUE]

-----------------------------------------------------------------------------
(* clear, reserve, rehash and the copy constructor.                        *)

Cleared(s) ==
  IF s.capacity = 0 \/ IsSoo(s) \/ s.capacity >= ReuseBelow THEN Soo(<<>>)
  ELSE Array(s.capacity, s.seed, 0)

\* Mutant: tombstones are forgotten.
Reserved_Tombstones(s, n, seed) ==
  LET room == IF s.capacity <= SooCapacity THEN SooCapacity ELSE CapacityToGrowth(s.capacity)
      isNew == s.size = 0 /\ s.capacity <= SooCapacity
  IN  IF n <= SooCapacity \/ (~isNew /\ n <= room) THEN s
      ELSE Resized(s, SizeToCapacity(n), seed)

\* reserve and ReserveTableToFitNewSize.
Reserved(s, n, seed) ==
  LET room == IF s.capacity <= SooCapacity THEN SooCapacity ELSE s.size + s.growth_left
      isNew == s.size = 0 /\ s.capacity <= SooCapacity
  IN  IF n <= SooCapacity \/ (~isNew /\ n <= room) THEN s
      ELSE Resized(s, SizeToCapacity(n), seed)

\* rehash; 0 means as small as can be.
Rehashed(s, n, seed) ==
  LET capacity == NormalizeCapacity(Max({n, SizeToCapacity(s.size)}))
  IN  IF n = 0 /\ s.capacity <= SooCapacity THEN s
      ELSE IF n = 0 /\ s.size <= SooCapacity THEN Soo(FullKeys(s))
      ELSE IF n = 0 \/ capacity > s.capacity THEN Resized(s, capacity, seed)
      ELSE s

\* "Odd numbers are coprime with any capacity + 1."
Shift(seed) == IF Bit(seed, 1) THEN seed ELSE seed + 1

\* Copy of a table: a small one is filled at equal distances.
Copied(s, seed) ==
  LET new == Array(SizeToCapacity(s.size), seed, s.size)
      at(j) == (new.capacity + j * Shift(seed)) % (new.capacity + 1)
  IN  IF s.size <= SooCapacity THEN Soo(FullKeys(s))
      ELSE IF IsSingleGroup(new.capacity)
        THEN FoldLeft(LAMBDA u, j : Put(u, at(j), FullKeys(s)[j]), new, [j \in 1..s.size |-> j])
        ELSE Resized(s, new.capacity, seed)

-----------------------------------------------------------------------------
Becomes(s) == t' = s /\ found' = {k \in Keys : FindSlot(t', k) # {}}

Insert(k) == \E seed \in Seeds : Becomes(Inserted(t, k, seed)) /\ UNCHANGED promised
Erase(k) == Becomes(Erased(t, k)) /\ promised' = 0
Clear == Becomes(Cleared(t)) /\ promised' = 0
Reserve(n) == \E seed \in Seeds : Becomes(Reserved(t, n, seed)) /\ promised' = n
Rehash(n) == \E seed \in Seeds : Becomes(Rehashed(t, n, seed)) /\ promised' = 0
Copy == \E seed \in Seeds : Becomes(Copied(t, seed)) /\ promised' = 0

Next ==
  \/ \E k \in Keys : Insert(k) \/ Erase(k)
  \/ \E n \in Requests : Reserve(n) \/ Rehash(n)
  \/ Clear \/ Copy

vars == <<t, found, promised>>
Spec == Init /\ [][Next]_vars

-----------------------------------------------------------------------------
HasArray == t.capacity > SooCapacity

\* The bytes tell of the slots, those at the end are clones of the first ones, and the
\* room that is left is what is neither full nor deleted.
CtrlDescribesSlots ==
  HasArray =>
    /\ \A i \in 0..t.capacity - 1 :
         t.ctrl[i] = (IF t.slot[i] # NoKey THEN Tag[t.slot[i]] ELSE t.ctrl[i])
         /\ (t.slot[i] = NoKey => t.ctrl[i] \in {Empty, Deleted})
    /\ t.ctrl[t.capacity] = Sentinel
    /\ \A i \in 0..Cloned - 1 :
         t.ctrl[t.capacity + 1 + i] = IF i < t.capacity THEN t.ctrl[i] ELSE Empty
    /\ t.size = Len(FullSlots(t))
    /\ t.growth_left = CapacityToGrowth(t.capacity) - t.size
                       - Cardinality({i \in 0..t.capacity - 1 : t.ctrl[i] = Deleted})
    /\ (\E i \in 0..t.capacity - 1 : t.ctrl[i] = Deleted) => t.deleted

\* Every lookup ends: it comes to a group with an empty byte before it has been
\* everywhere, wherever it begins.
ProbingEnds ==
  HasArray => \A h1 \in 0..t.capacity :
    \E j \in Probes(t) : Matches(t, Offset(t, h1, j), IsEmpty) # {}

\* No key is in two slots.
NoDuplicates == Len(FullKeys(t)) = Cardinality({FullKeys(t)[j] : j \in 1..Len(FullKeys(t))})

\* reserve(n): up to n keys come in without a new array and without any key moving.
ReserveIsKept ==
  [][t'.size > t.size /\ t'.size <= promised
     => /\ t'.capacity = t.capacity
        /\ \A k \in Keys : FindSlot(t, k) \subseteq FindSlot(t', k)]_vars

\* Lookups find exactly the keys that were inserted and not erased, whatever groups were
\* full at what time and however the array was resized.
Abstract == INSTANCE HashSet WITH keys <- found
=============================================================================
