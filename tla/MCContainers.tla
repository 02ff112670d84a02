---------------------------- MODULE MCContainers ----------------------------
(* Cords, hash tables and B-trees for TLC: a behaviour is one of the units   *)
(* below, which differ in sizes and in the calls that are made; the others   *)
(* stand still. Their states are told apart by their shape, see Cord and     *)
(* Btree.                                                                    *)
EXTENDS Naturals

CONSTANTS NoKey

VARIABLES unit,
  heap, cords, contents, sums, written,  \* Cord
  table, found, promised,                \* RawHashSet
  tree, ret                              \* Btree

cord == <<heap, cords, contents, sums, written>>
hash == <<table, found, promised>>
btree == <<tree, ret>>
vars == <<unit, cord, hash, btree>>

-----------------------------------------------------------------------------
\* Trees that get too high and are rebuilt while parts of them are shared.
Trees == INSTANCE Cord WITH
  Cords <- {1, 2}, kMaxCapacity <- 2, kMaxHeight <- 2, kMinFlatLength <- 1,
  kMaxFlatLength <- 1, kMaxInline <- 0, kMaxBytesToCopy <- 0, MaxAppend <- 1, MaxLength <- 5,
  Calls <- {"Append", "Prepend", "AppendCord", "PrependCord", "AssignCord", "Subcord",
            "RemovePrefix", "RemoveSuffix"}

\* Flats that two cords fill and cut, bytes in the cord itself, cords that are copied.
Flats == INSTANCE Cord WITH
  Cords <- {1, 2}, kMaxCapacity <- 2, kMaxHeight <- 2, kMinFlatLength <- 2,
  kMaxFlatLength <- 2, kMaxInline <- 1, kMaxBytesToCopy <- 1, MaxAppend <- 2, MaxLength <- 4,
  Calls <- {"Append", "Assign", "AppendCord", "AssignCord", "Subcord", "RemoveSuffix"}

\* Checksums, and flattening.
Sums == INSTANCE Cord WITH
  Cords <- {1, 2}, kMaxCapacity <- 2, kMaxHeight <- 2, kMinFlatLength <- 2,
  kMaxFlatLength <- 2, kMaxInline <- 1, kMaxBytesToCopy <- 1, MaxAppend <- 2, MaxLength <- 3,
  Calls <- {"Append", "AppendCord", "PrependCord", "AssignCord", "RemoveSuffix", "Checksum", "Flatten"}

\* One cord whose last flat is lent out as a buffer.
Buffers == INSTANCE Cord WITH
  Cords <- {1}, kMaxCapacity <- 2, kMaxHeight <- 3, kMinFlatLength <- 2,
  kMaxFlatLength <- 2, kMaxInline <- 1, kMaxBytesToCopy <- 1, MaxAppend <- 2, MaxLength <- 6,
  Calls <- {"Append", "Prepend", "Assign", "RemovePrefix", "RemoveSuffix", "Buffer", "External"}

\* Keys most of which begin in the same group, two with the same tag; room for one in
\* the object.
Small == INSTANCE RawHashSet WITH
  Keys <- 1 .. 5, Home <- <<0, 0, 8, 1, 3>>, Tag <- <<0, 1, 0, 2, 3>>, Seeds <- {0},
  Width <- 4, LoadDiv <- 2, DropThreshold <- 13, ReuseBelow <- 15, SooEnabled <- TRUE,
  Requests <- {0, 4}, t <- table

\* Enough keys of one group to fill it and go on to another, so that
\* elements change places when tombstones are dropped; a load factor at which a table that
\* just fits a group needs its special case.
Full == INSTANCE RawHashSet WITH
  Keys <- 1 .. 5, Home <- <<3, 3, 3, 11, 1>>, Tag <- <<0, 1, 0, 2, 3>>, Seeds <- {0},
  Width <- 4, LoadDiv <- 4, DropThreshold <- 25, ReuseBelow <- 8, SooEnabled <- FALSE,
  Requests <- {0, 5}, t <- table

\* Trees of a height of three; and the least number of slots that the code has.
Set == INSTANCE Btree WITH kNodeSlots <- 3, MaxValues <- 14, Multi <- FALSE
Multiset == INSTANCE Btree WITH kNodeSlots <- 4, MaxValues <- 13, Multi <- TRUE

ASSUME ContainersAssumption ==
  /\ Trees!CordAssumption /\ Flats!CordAssumption /\ Sums!CordAssumption /\ Buffers!CordAssumption
  /\ Small!RawHashSetAssumption /\ Full!RawHashSetAssumption
  /\ Set!BtreeAssumption /\ Multiset!BtreeAssumption

-----------------------------------------------------------------------------
Init ==
  /\ unit \in {"trees", "flats", "sums", "buffers", "small", "full", "set", "multiset"}
  /\ Trees!Init
  /\ IF unit = "full" THEN Full!Init ELSE Small!Init
  /\ Set!Init

Next ==
  \/ unit = "trees" /\ Trees!Next /\ UNCHANGED <<unit, hash, btree>>
  \/ unit = "flats" /\ Flats!Next /\ UNCHANGED <<unit, hash, btree>>
  \/ unit = "sums" /\ Sums!Next /\ UNCHANGED <<unit, hash, btree>>
  \/ unit = "buffers" /\ Buffers!Next /\ UNCHANGED <<unit, hash, btree>>
  \/ unit = "small" /\ Small!Next /\ UNCHANGED <<unit, cord, btree>>
  \/ unit = "full" /\ Full!Next /\ UNCHANGED <<unit, cord, btree>>
  \/ unit = "set" /\ Set!Next /\ UNCHANGED <<unit, cord, hash>>
  \/ unit = "multiset" /\ Multiset!Next /\ UNCHANGED <<unit, cord, hash>>

Spec == Init /\ [][Next]_vars

-----------------------------------------------------------------------------
\* A node's count is the number of cords and nodes that refer to it, and every
\* reference is to a node that is still there (CordRep::Ref, Unref, Destroy).
CountsAreReferences ==
  CASE unit = "trees" -> Trees!CountsAreReferences
    [] unit = "flats" -> Flats!CountsAreReferences
    [] unit = "sums" -> Sums!CountsAreReferences
    [] unit = "buffers" -> Buffers!CountsAreReferences
    [] OTHER -> TRUE


\* CordRepBtree::IsValid holds of every tree, after every call.
NodesAreValid ==
  CASE unit = "trees" -> Trees!NodesAreValid
    [] unit = "flats" -> Flats!NodesAreValid
    [] unit = "sums" -> Sums!NodesAreValid
    [] unit = "buffers" -> Buffers!NodesAreValid
    [] OTHER -> TRUE

\* Lookups find exactly the keys that were inserted and not erased, whatever groups were
\* full at what time and however the array of raw_hash_set was resized.
HashSet == INSTANCE HashSet WITH Keys <- 1 .. 5, keys <- found

\* The control bytes and their clones tell of the slots, no key is in two of them, and
\* every probe sequence comes to an empty one, so that lookups end.
TableIsSound ==
  CASE unit = "small" -> Small!CtrlDescribesSlots /\ Small!NoDuplicates /\ Small!ProbingEnds
    [] unit = "full" -> Full!CtrlDescribesSlots /\ Full!NoDuplicates /\ Full!ProbingEnds
    [] OTHER -> TRUE

\* reserve(n): up to n keys come in without a new array and without any key moving, though
\* tombstones take up room too.
ReserveIsKept ==
  [][unit = "full" /\ table'.size > table.size /\ table'.size <= promised
     => /\ table'.capacity = table.capacity
        /\ \A k \in 1 .. 5 : Full!FindSlot(table, k) \subseteq Full!FindSlot(table', k)]_vars

\* After any insertion or deletion in a B-tree the nodes are linked as verify() wants them,
\* the values are there in order, iterators go over all of them both ways, lookups find
\* their place, and the iterator that came back is at its value.
BtreeIsSound ==
  CASE unit = "set" -> /\ Set!Verifies /\ Set!InOrder /\ Set!IteratorsVisitAll
                       /\ Set!LookupFinds /\ Set!ReturnsItsPlace
    [] unit = "multiset" -> /\ Multiset!Verifies /\ Multiset!InOrder /\ Multiset!IteratorsVisitAll
                            /\ Multiset!LookupFinds /\ Multiset!ReturnsItsPlace
    [] OTHER -> TRUE

View ==
  <<unit, CASE unit = "trees" -> Trees!View
            [] unit = "flats" -> Flats!View
            [] unit = "sums" -> Sums!View
            [] unit = "buffers" -> Buffers!View
            [] unit \in {"small", "full"} -> hash
            [] unit = "set" -> Set!View
            [] unit = "multiset" -> Multiset!View>>
=============================================================================
