-------------------------- MODULE CordzInfo_proofs --------------------------
(***************************************************************************)
(* Proofs about sampled cords, for every finite set of cords, profilers    *)
(* and infos and every set of trees: the reference counts are right, no    *)
(* info is leaked, the list is exact, and what a profiler looks at is      *)
(* alive and does not change under it.                                     *)
(*                                                                         *)
(* The list and the queue are chains: their members have positions, which  *)
(* the two pointers of each follow (Chain). A reference count is the sum   *)
(* of what cords, threads, profilers and infos hold (Count). A profiler    *)
(* walks inside a set of infos that it cannot leave and none of which is   *)
(* deleted before its snapshot is (Seen): those in the list, those on      *)
(* their way to the queue, and those behind its snapshot in the queue.     *)
(***************************************************************************)
EXTENDS CordzInfo, FiniteSetTheorems, TLAPS

-----------------------------------------------------------------------------
(* Numbers.                                                                *)

\* A set of numbers has a least one.
LEMMA LeastOne ==
  ASSUME NEW S \in SUBSET Nat, S # {}
  PROVE  \E n \in S : \A m \in S : n =< m
<1> DEFINE less == OpToRel(<, Nat)
<1>1. \A n, m \in Nat : n < m => <<n, m>> \in less
  BY DEF OpToRel
<1>2. IsWellFoundedOn(less, Nat)
  BY NatLessThanWellFounded
<1> HIDE DEF less
<1>3. PICK n \in S : \A m \in S : ~(<<m, n>> \in less)
  BY ONLY S \in SUBSET Nat, S # {}, <1>2, WFMin
<1>4. \A m \in S : n =< m
  <2>1. TAKE m \in S
  <2>2. n \in Nat /\ m \in Nat /\ ~(m < n)
    BY <1>1, <1>3
  <2> QED
    BY <2>2
<1> QED
  BY <1>3, <1>4

\* Of things that have numbers one has the least,
LEMMA LowestOne ==
  ASSUME NEW S, NEW M \in SUBSET S, NEW pos \in [S -> Nat], M # {}
  PROVE  \E m \in M : \A k \in M : pos[m] =< pos[k]
<1> DEFINE N == {pos[m] : m \in M}
<1>1. N \in SUBSET Nat /\ N # {}
  OBVIOUS
<1>2. PICK n \in N : \A m \in N : n =< m
  BY <1>1, LeastOne
<1>3. PICK m \in M : pos[m] = n
  BY <1>2
<1> QED
  BY <1>2, <1>3

\* and one the greatest, if they have a bound.
LEMMA HighestOne ==
  ASSUME NEW S, NEW M \in SUBSET S, NEW pos \in [S -> Nat], M # {},
         NEW b \in Nat, \A m \in M : pos[m] =< b
  PROVE  \E m \in M : \A k \in M : pos[k] =< pos[m]
<1> DEFINE low == [s \in S |-> IF pos[s] =< b THEN b - pos[s] ELSE 0]
<1>1. low \in [S -> Nat]
  OBVIOUS
<1>2. \A m \in M : low[m] = b - pos[m]
  OBVIOUS
<1> HIDE DEF low
<1>3. PICK m \in M : \A k \in M : low[m] =< low[k]
  BY <1>1, LowestOne
<1>4. \A k \in M : pos[k] =< pos[m]
  <2>1. TAKE k \in M
  <2>2. pos[k] \in Nat /\ pos[m] \in Nat /\ b - pos[m] =< b - pos[k]
    BY <1>2, <1>3
  <2> QED
    BY <2>2
<1> QED
  BY <1>4

-----------------------------------------------------------------------------
(* Lists. The members of M are in the order of pos; down leads from each   *)
(* to the one before, up to the one after.                                 *)

Lowest(M, pos, h) == \A k \in M : pos[h] =< pos[k]
Highest(M, pos, h) == \A k \in M : pos[k] =< pos[h]
Adjacent(M, pos, h, k) == pos[h] < pos[k] /\ \A m \in M : pos[m] =< pos[h] \/ pos[k] =< pos[m]

Chain(M, pos, last, down, up) ==
  /\ \A h, k \in M : pos[h] = pos[k] => h = k
  /\ (last = None) <=> (M = {})
  /\ last # None => last \in M /\ Highest(M, pos, last)
  /\ \A h \in M : \/ down[h] = None /\ Lowest(M, pos, h)
                  \/ down[h] \in M /\ Adjacent(M, pos, down[h], h)
  /\ \A h \in M : \/ up[h] = None /\ Highest(M, pos, h)
                  \/ up[h] \in M /\ Adjacent(M, pos, h, up[h])

\* One comes after all others.
Pushed(M, last, down, up, h, down2, up2) ==
  /\ down2[h] = last /\ \A k \in M : down2[k] = down[k]
  /\ up2[h] = None /\ \A k \in M : up2[k] = IF k = last THEN h ELSE up[k]

\* A list that gets a new last member is a list again; the others keep their order.
LEMMA ChainPush ==
  ASSUME NEW S, None \notin S, NEW M \in SUBSET S, NEW pos \in [S -> Nat], NEW last, NEW down, NEW up,
         Chain(M, pos, last, down, up), NEW h \in S \ M, NEW down2, NEW up2,
         Pushed(M, last, down, up, h, down2, up2)
  PROVE  \E pos2 \in [S -> Nat] :
           Chain(M \cup {h}, pos2, h, down2, up2) /\ \A k \in M : pos2[k] = pos[k] /\ pos[k] < pos2[h]
<1> DEFINE n == IF last = None THEN 0 ELSE pos[last] + 1
           pos2 == [pos EXCEPT ![h] = n]
<1> USE DEF Chain, Pushed
<1>1. n \in Nat /\ \A k \in M : pos[k] < n
  BY DEF Highest
<1>2. pos2 \in [S -> Nat] /\ pos2[h] = n /\ \A k \in M : pos2[k] = pos[k]
  BY <1>1
<1> HIDE DEF n, pos2
<1>3. \A k \in M : pos2[k] < pos2[h] /\ pos2[k] \in Nat /\ pos2[h] \in Nat
  BY <1>1, <1>2
<1>4. \A k, m \in M \cup {h} : pos2[k] = pos2[m] => k = m
  BY <1>2, <1>3
<1>5. Highest(M \cup {h}, pos2, h)
  BY <1>1, <1>2, <1>3 DEF Highest
<1>6. ASSUME NEW k \in M \cup {h}
      PROVE  \/ down2[k] = None /\ Lowest(M \cup {h}, pos2, k)
             \/ down2[k] \in M \cup {h} /\ Adjacent(M \cup {h}, pos2, down2[k], k)
  <2>1. CASE k = h
    BY <1>2, <1>3, <2>1 DEF Highest, Lowest, Adjacent
  <2>2. CASE k # h
    <3>1. k \in M /\ down2[k] = down[k]
      BY <2>2
    <3>2. CASE down[k] = None
      BY <1>2, <1>3, <3>1, <3>2 DEF Lowest
    <3>3. CASE down[k] # None
      <4>1. down[k] \in M /\ Adjacent(M, pos, down[k], k)
        BY <3>1, <3>3
      <4> QED
        BY <1>2, <1>3, <3>1, <4>1 DEF Adjacent
    <3> QED
      BY <3>2, <3>3
  <2> QED
    BY <2>1, <2>2
<1>7. ASSUME NEW k \in M \cup {h}
      PROVE  \/ up2[k] = None /\ Highest(M \cup {h}, pos2, k)
             \/ up2[k] \in M \cup {h} /\ Adjacent(M \cup {h}, pos2, k, up2[k])
  <2>1. CASE k = h
    BY <1>5, <2>1
  <2>2. CASE k # h /\ k = last
    <3>1. k \in M /\ up2[k] = h /\ Highest(M, pos, k)
      BY <2>2
    <3> QED
      BY <1>2, <1>3, <3>1 DEF Highest, Adjacent
  <2>3. CASE k # h /\ k # last
    <3>1. k \in M /\ up2[k] = up[k] /\ last \in M /\ Highest(M, pos, last)
      BY <2>3
    <3>2. up[k] # None
      <4>1. ASSUME up[k] = None PROVE pos[k] = pos[last]
        BY <3>1, <4>1 DEF Highest
      <4> QED
        BY <2>3, <3>1, <4>1
    <3>3. up[k] \in M /\ Adjacent(M, pos, k, up[k])
      BY <3>1, <3>2
    <3> QED
      BY <1>2, <1>3, <3>1, <3>3 DEF Adjacent
  <2> QED
    BY <2>1, <2>2, <2>3
<1>8. Chain(M \cup {h}, pos2, h, down2, up2)
  BY <1>4, <1>5, <1>6, <1>7
<1> QED
  BY <1>2, <1>3, <1>8

\* R are neighbours, between before and after.
Between(M, pos, R, before, after) ==
  /\ R # {} /\ R \subseteq M
  /\ before # None => before \in M \ R /\ \A r \in R : pos[before] < pos[r]
  /\ after # None => after \in M \ R /\ \A r \in R : pos[r] < pos[after]
  /\ \A m \in M \ R : (before # None /\ pos[m] =< pos[before]) \/ (after # None /\ pos[after] =< pos[m])

\* They are taken out.
Taken(M, R, before, after, down, up, down2, up2) ==
  /\ \A k \in M \ R : down2[k] = IF k = after THEN before ELSE down[k]
  /\ \A k \in M \ R : up2[k] = IF k = before THEN after ELSE up[k]

\* A list without some neighbours is a list again, in the same order.
LEMMA ChainTake ==
  ASSUME NEW S, None \notin S, NEW M \in SUBSET S, NEW pos \in [S -> Nat], NEW last, NEW down, NEW up,
         Chain(M, pos, last, down, up), NEW R, NEW before, NEW after, Between(M, pos, R, before, after),
         NEW down2, NEW up2, Taken(M, R, before, after, down, up, down2, up2)
  PROVE  Chain(M \ R, pos, IF after = None THEN before ELSE last, down2, up2)
<1> DEFINE N == M \ R
           last2 == IF after = None THEN before ELSE last
<1> USE DEF Chain, Between, Taken
<1>1. PICK r \in R : r \in M
  OBVIOUS
<1>2. \A k \in M : pos[k] \in Nat
  OBVIOUS
<1>3. (last2 = None) <=> (N = {})
  <2>1. CASE after = None
    BY <2>1
  <2>2. CASE after # None
    BY <1>1, <2>2
  <2> QED
    BY <2>1, <2>2
<1>4. last2 # None => last2 \in N /\ Highest(N, pos, last2)
  <2>1. CASE after = None
    BY <2>1 DEF Highest
  <2>2. CASE after # None
    <3>1. last \in M /\ Highest(M, pos, last) /\ after \in M
      BY <2>2
    <3>2. last \notin R
      BY <1>2, <2>2, <3>1 DEF Highest
    <3> QED
      BY <2>2, <3>1, <3>2 DEF Highest
  <2> QED
    BY <2>1, <2>2
<1>5. ASSUME NEW k \in N
      PROVE  \/ down2[k] = None /\ Lowest(N, pos, k)
             \/ down2[k] \in N /\ Adjacent(N, pos, down2[k], k)
  <2>1. CASE k = after
    <3>1. down2[k] = before
      BY <2>1
    <3>2. CASE before = None
      BY <2>1, <3>1, <3>2 DEF Lowest
    <3>3. CASE before # None
      <4>1. before \in N /\ pos[before] < pos[r] /\ pos[r] < pos[after] /\ before \in M /\ after \in M
        BY <1>1, <2>1, <3>3
      <4> QED
        BY <1>1, <1>2, <2>1, <3>1, <4>1 DEF Adjacent
    <3> QED
      BY <3>2, <3>3
  <2>2. CASE k # after
    <3>1. k \in M /\ k \notin R /\ down2[k] = down[k]
      BY <2>2
    <3>2. CASE down[k] = None
      BY <3>1, <3>2 DEF Lowest
    <3>3. CASE down[k] # None
      <4>1. down[k] \in M /\ Adjacent(M, pos, down[k], k)
        BY <3>1, <3>3
      <4>2. ASSUME down[k] \in R PROVE FALSE
        <5>1. CASE before # None /\ pos[k] =< pos[before]
          BY <1>2, <3>1, <4>1, <4>2, <5>1 DEF Adjacent
        <5>2. CASE after # None /\ pos[after] =< pos[k]
          <6>1. after \in M /\ pos[down[k]] < pos[after]
            BY <4>2, <5>2
          <6>2. pos[k] = pos[after]
            BY <1>2, <3>1, <4>1, <5>2, <6>1 DEF Adjacent
          <6> QED
            BY <2>2, <3>1, <6>1, <6>2
        <5> QED
          BY <3>1, <5>1, <5>2
      <4> QED
        BY <3>1, <4>1, <4>2 DEF Adjacent
    <3> QED
      BY <3>2, <3>3
  <2> QED
    BY <2>1, <2>2
<1>6. ASSUME NEW k \in N
      PROVE  \/ up2[k] = None /\ Highest(N, pos, k)
             \/ up2[k] \in N /\ Adjacent(N, pos, k, up2[k])
  <2>1. CASE k = before
    <3>1. up2[k] = after
      BY <2>1
    <3>2. CASE after = None
      BY <2>1, <3>1, <3>2 DEF Highest
    <3>3. CASE after # None
      <4>1. after \in N /\ pos[before] < pos[r] /\ pos[r] < pos[after] /\ before \in M /\ after \in M
        BY <1>1, <2>1, <3>3
      <4> QED
        BY <1>1, <1>2, <2>1, <3>1, <4>1 DEF Adjacent
    <3> QED
      BY <3>2, <3>3
  <2>2. CASE k # before
    <3>1. k \in M /\ k \notin R /\ up2[k] = up[k]
      BY <2>2
    <3>2. CASE up[k] = None
      BY <3>1, <3>2 DEF Highest
    <3>3. CASE up[k] # None
      <4>1. up[k] \in M /\ Adjacent(M, pos, k, up[k])
        BY <3>1, <3>3
      <4>2. ASSUME up[k] \in R PROVE FALSE
        <5>1. CASE after # None /\ pos[after] =< pos[k]
          BY <1>2, <3>1, <4>1, <4>2, <5>1 DEF Adjacent
        <5>2. CASE before # None /\ pos[k] =< pos[before]
          <6>1. before \in M /\ pos[before] < pos[up[k]]
            BY <4>2, <5>2
          <6>2. pos[k] = pos[before]
            BY <1>2, <3>1, <4>1, <5>2, <6>1 DEF Adjacent
          <6> QED
            BY <2>2, <3>1, <6>1, <6>2
        <5> QED
          BY <3>1, <5>1, <5>2
      <4> QED
        BY <3>1, <4>1, <4>2 DEF Adjacent
    <3> QED
      BY <3>2, <3>3
  <2> QED
    BY <2>1, <2>2
<1> QED
  BY <1>3, <1>4, <1>5, <1>6

\* One is taken out.
LEMMA BetweenOne ==
  ASSUME NEW S, None \notin S, NEW M \in SUBSET S, NEW pos \in [S -> Nat], NEW last, NEW down, NEW up,
         Chain(M, pos, last, down, up), NEW h \in M
  PROVE  Between(M, pos, {h}, down[h], up[h])
<1> USE DEF Chain
<1>1. \A k \in M : pos[k] \in Nat
  OBVIOUS
<1>2. down[h] # None => down[h] \in M \ {h} /\ Adjacent(M, pos, down[h], h)
  BY <1>1 DEF Adjacent
<1>3. up[h] # None => up[h] \in M \ {h} /\ Adjacent(M, pos, h, up[h])
  BY <1>1 DEF Adjacent
<1>4. ASSUME NEW m \in M \ {h}
      PROVE  (down[h] # None /\ pos[m] =< pos[down[h]]) \/ (up[h] # None /\ pos[up[h]] =< pos[m])
  <2>1. pos[m] < pos[h] \/ pos[h] < pos[m]
    BY <1>1
  <2>2. pos[m] < pos[h] => down[h] # None /\ pos[m] =< pos[down[h]]
    BY <1>1, <1>2 DEF Lowest, Adjacent
  <2>3. pos[h] < pos[m] => up[h] # None /\ pos[up[h]] =< pos[m]
    BY <1>1, <1>3 DEF Highest, Adjacent
  <2> QED
    BY <2>1, <2>2, <2>3
<1> QED
  BY <1>2, <1>3, <1>4 DEF Between, Adjacent

\* Down and up are inverse.
LEMMA ChainMirror ==
  ASSUME NEW S, None \notin S, NEW M \in SUBSET S, NEW pos \in [S -> Nat], NEW last, NEW down, NEW up,
         Chain(M, pos, last, down, up), NEW h \in M, NEW k \in M
  PROVE  up[h] = k <=> down[k] = h
<1> USE DEF Chain
<1>1. \A m \in M : pos[m] \in Nat
  OBVIOUS
<1>2. ASSUME up[h] = k PROVE down[k] = h
  <2>1. Adjacent(M, pos, h, k)
    BY <1>2
  <2>2. down[k] \in M /\ Adjacent(M, pos, down[k], k)
    BY <1>1, <2>1 DEF Adjacent, Lowest
  <2>3. pos[h] = pos[down[k]]
    BY <1>1, <2>1, <2>2 DEF Adjacent
  <2> QED
    BY <2>2, <2>3
<1>3. ASSUME down[k] = h PROVE up[h] = k
  <2>1. Adjacent(M, pos, h, k)
    BY <1>3
  <2>2. up[h] \in M /\ Adjacent(M, pos, h, up[h])
    BY <1>1, <2>1 DEF Adjacent, Highest
  <2>3. pos[k] = pos[up[h]]
    BY <1>1, <2>1, <2>2 DEF Adjacent
  <2> QED
    BY <2>2, <2>3
<1> QED
  BY <1>2, <1>3

\* The way down from the last leads to all.
LEMMA ChainDown ==
  ASSUME NEW S, None \notin S, NEW M \in SUBSET S, NEW pos \in [S -> Nat], NEW last, NEW down, NEW up,
         Chain(M, pos, last, down, up), NEW closed, last \in closed,
         \A j \in closed \cap M : down[j] \in closed
  PROVE  M \subseteq closed
<1> SUFFICES ASSUME M \ closed # {} PROVE FALSE
  OBVIOUS
<1>0. \A h, k \in M : up[h] = k <=> down[k] = h
  BY ChainMirror
<1> USE DEF Chain
<1>1. \A m \in M : pos[m] \in Nat
  OBVIOUS
<1>2. last \in M /\ Highest(M, pos, last)
  OBVIOUS
<1>3. PICK m \in M \ closed : \A k \in M \ closed : pos[k] =< pos[m]
  <2>1. M \ closed \in SUBSET S /\ pos[last] \in Nat /\ \A k \in M \ closed : pos[k] =< pos[last]
    BY <1>2 DEF Highest
  <2> QED
    BY <2>1, HighestOne
<1>4. up[m] \in M /\ Adjacent(M, pos, m, up[m])
  BY <1>1, <1>2, <1>3 DEF Highest
<1>5. up[m] \in closed
  BY <1>1, <1>3, <1>4 DEF Adjacent
<1>6. down[up[m]] = m
  BY <1>0, <1>3, <1>4
<1> QED
  BY <1>3, <1>4, <1>5, <1>6

-----------------------------------------------------------------------------
(* Counting.                                                               *)

Count(f, D, r) == Cardinality({x \in D : f[x] = r})
One(v, r) == IF v = r THEN 1 ELSE 0

\* The number of places that hold r is finite, and there is one if a place holds it.
LEMMA CountIsNat ==
  ASSUME NEW D, IsFiniteSet(D), NEW f, NEW r
  PROVE  /\ Count(f, D, r) \in Nat
         /\ IsFiniteSet({x \in D : f[x] = r})
         /\ \A x \in D : f[x] = r => Count(f, D, r) >= 1
<1> DEFINE F == {x \in D : f[x] = r}
<1>1. IsFiniteSet(F) /\ Cardinality(F) \in Nat
  <2>1. F \subseteq D
    OBVIOUS
  <2> HIDE DEF F
  <2> QED
    BY <2>1, FS_Subset, FS_CardinalityType
<1>2. ASSUME NEW x \in D, f[x] = r PROVE Cardinality(F) # 0
  <2>1. x \in F
    BY <1>2
  <2> HIDE DEF F
  <2> QED
    BY <1>1, <2>1, FS_EmptySet
<1> QED
  BY <1>1, <1>2 DEF Count

\* What c has changes.
LEMMA CountOne ==
  ASSUME NEW D, IsFiniteSet(D), NEW f, NEW g, NEW c \in D, \A d \in D : d # c => g[d] = f[d], NEW r
  PROVE  Count(g, D, r) = Count(f, D, r) - One(f[c], r) + One(g[c], r)
<1> DEFINE F == {x \in D : f[x] = r}
           G == {x \in D : g[x] = r}
           R == {x \in D \ {c} : f[x] = r}
<1>1. R = {x \in D \ {c} : g[x] = r} /\ c \notin R /\ IsFiniteSet(R) /\ Cardinality(R) \in Nat
  <2>1. R \subseteq D /\ c \notin R /\ R = {x \in D \ {c} : g[x] = r}
    OBVIOUS
  <2> HIDE DEF R
  <2> QED
    BY <2>1, FS_Subset, FS_CardinalityType
<1>2. Cardinality(R \cup {c}) = Cardinality(R) + 1
  <2> HIDE DEF R
  <2> QED
    BY <1>1, FS_AddElement
<1>3. Cardinality(F) = Cardinality(R) + One(f[c], r)
  <2>1. CASE f[c] = r
    <3>1. F = R \cup {c}
      BY <2>1
    <3> HIDE DEF F, G, R
    <3> QED
      BY <1>2, <2>1, <3>1 DEF One
  <2>2. CASE f[c] # r
    <3>1. F = R
      BY <2>2
    <3> HIDE DEF F, G, R
    <3> QED
      BY <1>1, <2>2, <3>1 DEF One
  <2> QED
    BY <2>1, <2>2
<1>4. Cardinality(G) = Cardinality(R) + One(g[c], r)
  <2>1. CASE g[c] = r
    <3>1. G = R \cup {c}
      BY <1>1, <2>1
    <3> HIDE DEF F, G, R
    <3> QED
      BY <1>2, <2>1, <3>1 DEF One
  <2>2. CASE g[c] # r
    <3>1. G = R
      BY <1>1, <2>2
    <3> HIDE DEF F, G, R
    <3> QED
      BY <1>1, <2>2, <3>1 DEF One
  <2> QED
    BY <2>1, <2>2
<1> HIDE DEF F, G, R
<1>5. Cardinality(G) = Cardinality(F) - One(f[c], r) + One(g[c], r)
  BY <1>1, <1>3, <1>4 DEF One
<1> QED
  BY <1>5 DEF Count, F, G

\* Some give up what they have.
GivesUp(f, g, D, T, r) == \A d \in D : IF d \in T THEN g[d] # r ELSE g[d] = f[d]

\* When some places give r up, their number goes down by as many.
LEMMA CountTake ==
  ASSUME NEW D, IsFiniteSet(D), NEW f, NEW g, NEW T \in SUBSET D, NEW r,
         GivesUp(f, g, D, T, r)
  PROVE  Count(g, D, r) = Count(f, D, r) - Count(f, T, r)
<1> DEFINE F == {x \in D : f[x] = r}
           X == {x \in T : f[x] = r}
<1>1. {x \in D : g[x] = r} = F \ X
  BY DEF GivesUp
<1>2. IsFiniteSet(F) /\ X \subseteq F
  <2>1. IsFiniteSet(F)
    <3>1. F \subseteq D
      OBVIOUS
    <3> HIDE DEF F
    <3> QED
      BY <3>1, FS_Subset
  <2>2. X \subseteq F
    OBVIOUS
  <2> HIDE DEF F, X
  <2> QED
    BY <2>1, <2>2
<1>3. Cardinality(F \ X) = Cardinality(F) - Cardinality(X)
  <2>1. F \cap X = X
    BY <1>2
  <2> HIDE DEF F, X
  <2> QED
    BY <1>2, <2>1, FS_Difference
<1> QED
  BY <1>1, <1>3 DEF Count

\* Where the same places hold r, they are as many.
LEMMA CountSame ==
  ASSUME NEW D, NEW f, NEW g, NEW r, \A d \in D : g[d] = r <=> f[d] = r
  PROVE  Count(g, D, r) = Count(f, D, r)
<1>1. {x \in D : g[x] = r} = {x \in D : f[x] = r}
  OBVIOUS
<1> QED
  BY <1>1 DEF Count

-----------------------------------------------------------------------------
(* The invariant.                                                          *)

Resting == {"idle", "update", "change", "unlock"}
Moving == {"unlink", "safe", "extend", "delete", "queue", "untracked"}
Updating == {"update", "change", "unlock"}
Walking == {"at", "analyze", "next"}

\* Where the thread of a cord is: it rests, or it moves the info from one place to another.
Rests == [pc : Resting]
Moves == [pc : Moving, info : Infos \cup {None}, track : BOOLEAN, old : Reps \cup {None}]
Copies == [pc : Moving, info : Infos \cup {None}, track : BOOLEAN, old : Reps \cup {None}, from : Cords]
Places == Rests \cup Moves \cup Copies

Walks == [pc : {"none", "begin", "deleting"} \cup Walking, at : Infos \cup {None},
          rep : Reps \cup {None}, to_delete : SUBSET Infos]

ListTypes ==
  /\ head \in Infos \cup {None}
  /\ ci_prev_ \in [Infos -> Infos \cup {None}] /\ ci_next_ \in [Infos -> Infos \cup {None}]
QueueTypes ==
  /\ dq_tail \in Handles \cup {None}
  /\ dq_prev_ \in [Handles -> Handles \cup {None}] /\ dq_next_ \in [Handles -> Handles \cup {None}]
CordTypes ==
  /\ tree \in [Cords -> Reps \cup {None}] /\ cordz_info \in [Cords -> Infos \cup {None}]
  /\ refcount \in [Reps -> Nat] /\ disturbed = {}
  /\ new \in SUBSET Infos /\ alive \in SUBSET Handles
  /\ rep_ \in [Infos -> Reps \cup {None}] /\ mutex_ \in [Infos -> Cords \cup {None}]
  /\ op \in [Cords -> Places] /\ profiler \in [Profilers -> Walks]
CordzTypes == CordTypes /\ ListTypes /\ QueueTypes

\* The info of a cord, the thread's place and the tree agree.
CordOk(c) ==
  /\ op[c].pc \in Moving => op[c].info = cordz_info[c] /\ (op[c].track => tree[c] # None)
  /\ op[c].pc \in Moving \ {"untracked"} => cordz_info[c] # None
  /\ op[c].pc \in {"update", "change"} => tree[c] # None
  /\ op[c].pc = "idle" /\ tree[c] = None => cordz_info[c] = None
  /\ op[c].pc \in Resting /\ cordz_info[c] # None => rep_[cordz_info[c]] = tree[c]
  /\ op[c].pc \in {"unlink", "safe", "extend"} => rep_[cordz_info[c]] = op[c].old
\* The tree that is changed in place has one holder.
ChangeOk(c) == op[c].pc = "change" => refcount[tree[c]] = 1
\* The mutex of an info belongs to the update that is going on.
MutexOk(c) ==
  /\ op[c].pc \in Updating /\ cordz_info[c] # None => mutex_[cordz_info[c]] = c
  /\ \A i \in Infos : mutex_[i] = c => cordz_info[c] = i /\ op[c].pc \in Updating

WalkOk(p) ==
  /\ profiler[p].at # None => profiler[p].pc \in Walking
  /\ profiler[p].pc \in {"analyze", "next"} => profiler[p].at # None
  /\ profiler[p].rep # None => profiler[p].pc = "analyze"
  /\ profiler[p].to_delete # {} => profiler[p].pc = "deleting"

\* Who holds a rep.
OldOf == [c \in Cords |-> IF op[c].pc \in Moving THEN op[c].old ELSE None]
RepOf == [p \in Profilers |-> profiler[p].rep]
OwnedOf == [i \in Infos |-> IF i \in Owners THEN rep_[i] ELSE None]
Holders(r) == Count(tree, Cords, r) + Count(OldOf, Cords, r)
              + Count(RepOf, Profilers, r) + Count(OwnedOf, Infos, r)
CountsOk == \A r \in Reps : refcount[r] = Holders(r)

\* Where infos are: in the list, on their way to the queue, in it, or taken from it.
At(pcs) == {cordz_info[c] : c \in {d \in Cords : op[d].pc \in pcs}} \ {None}
InList == Resting \cup {"unlink"}
OnTheWay == {"safe", "extend", "delete", "queue"}
Linked == At(InList)
Leaving == At(OnTheWay)
Deleting == UNION {profiler[p].to_delete : p \in Profilers}
Active == {p \in Profilers : profiler[p].pc \in {"begin"} \cup Walking}

CordInfosOk ==
  /\ \A c, d \in Cords : cordz_info[c] = cordz_info[d] /\ cordz_info[c] # None => c = d
  /\ \A c \in Cords : cordz_info[c] \notin new
  /\ \A i \in new : ci_prev_[i] = None
  /\ new \cap alive = {}
\* Q is what is in the queue.
PlacesOk(Q) ==
  /\ \A c \in Cords : op[c].pc # "untracked" => cordz_info[c] \notin Q /\ cordz_info[c] \notin Deleting
  /\ \A p, q \in Profilers : p # q => profiler[p].to_delete \cap profiler[q].to_delete = {}
  /\ Q \cap Deleting = {}
  /\ Q \cap Profilers = Active
  /\ alive = Linked \cup Leaving \cup Q \cup Deleting

ListOk == \E pos \in [Infos -> Nat] : Chain(Linked, pos, head, ci_next_, ci_prev_)

\* V is what a profiler may see from where it is: it does not lead out of itself, and what is
\* no longer listed is on its way to the queue or behind the profiler's snapshot.
Seen(p, Q, pos, V) ==
  /\ Linked \subseteq V
  /\ profiler[p].at # None => profiler[p].at \in V
  /\ \A i \in V : ci_next_[i] \in V \cup {None}
  /\ \A i \in V : i \in Linked \/ i \in Leaving \/ (i \in Q /\ pos[p] < pos[i])
\* Before each info in the queue there is a snapshot.
SnapshotFirst(Q, pos) == \A h \in Q : \E p \in Q \cap Profilers : pos[p] =< pos[h]
QueueIs(Q, pos) ==
  /\ Chain(Q, pos, dq_tail, dq_prev_, dq_next_)
  /\ SnapshotFirst(Q, pos)
  /\ \A p \in Active : \E V \in SUBSET Infos : Seen(p, Q, pos, V)
QueueOk == \E Q \in SUBSET Handles : PlacesOk(Q) /\ \E pos \in [Handles -> Nat] : QueueIs(Q, pos)

CordzInv ==
  /\ CordzTypes
  /\ \A c \in Cords : CordOk(c) /\ ChangeOk(c) /\ MutexOk(c)
  /\ \A p \in Profilers : WalkOk(p)
  /\ CountsOk /\ CordInfosOk /\ ListOk /\ QueueOk

-----------------------------------------------------------------------------
(* What the parts of the invariant say together.                           *)

\* The thread rests or it moves an info.
LEMMA PlaceCases ==
  ASSUME NEW o \in Places
  PROVE  \/ o \in Rests /\ o.pc \in Resting /\ o.pc \notin Moving
         \/ /\ o \in Moves \cup Copies /\ o.pc \in Moving /\ o.pc \notin Resting
            /\ o.info \in Infos \cup {None} /\ o.track \in BOOLEAN /\ o.old \in Reps \cup {None}
<1>1. CASE o \in Rests
  BY <1>1 DEF Rests, Resting, Moving
<1>2. CASE o \in Moves
  BY <1>2 DEF Moves, Resting, Moving
<1>3. CASE o \in Copies
  BY <1>3 DEF Copies, Resting, Moving
<1> QED
  BY <1>1, <1>2, <1>3 DEF Places

\* It goes on.
LEMMA RestOn ==
  ASSUME NEW o \in Places, o.pc \in Resting, NEW x \in Resting
  PROVE  [o EXCEPT !.pc = x] \in Places /\ [o EXCEPT !.pc = x].pc = x
<1>1. o \in Rests
  BY PlaceCases
<1> QED
  BY <1>1 DEF Rests, Places

\* The thread of a cord that goes on to its next place carries the same things.
LEMMA MoveOn ==
  ASSUME NEW o \in Places, o.pc \in Moving, NEW x \in Moving, NEW n, n = [o EXCEPT !.pc = x]
  PROVE  n \in Places /\ n.pc = x /\ n.info = o.info /\ n.track = o.track /\ n.old = o.old
<1>1. o \in Moves \/ o \in Copies
  BY PlaceCases
<1>2. CASE o \in Moves
  BY <1>2 DEF Moves, Places
<1>3. CASE o \in Copies
  BY <1>3 DEF Copies, Places
<1> QED
  BY <1>1, <1>2, <1>3

\* A step of one cord's thread leaves the places of the others.
LEMMA OpSet ==
  ASSUME op \in [Cords -> Places], NEW c \in Cords, NEW o \in Places, op' = [op EXCEPT ![c] = o]
  PROVE  op' \in [Cords -> Places] /\ op'[c] = o /\ \A d \in Cords \ {c} : op'[d] = op[d]
OBVIOUS

\* A thread is at one of the places, and what it carries there is typed.
LEMMA ThePlaces ==
  ASSUME CordTypes, NEW c \in Cords
  PROVE  /\ op[c] \in Places /\ op[c].pc \in Resting \cup Moving
         /\ op[c].pc \in Moving => op[c].info \in Infos \cup {None} /\ op[c].track \in BOOLEAN /\ op[c].old \in Reps \cup {None}
<1>1. op[c] \in Places
  BY DEF CordTypes
<1> QED
  BY <1>1, PlaceCases

\* Holders hold a tree or none.
LEMMA HolderTypes ==
  ASSUME CordTypes
  PROVE  /\ OldOf \in [Cords -> Reps \cup {None}] /\ RepOf \in [Profilers -> Reps \cup {None}]
         /\ OwnedOf \in [Infos -> Reps \cup {None}]
<1>1. OldOf \in [Cords -> Reps \cup {None}]
  BY ThePlaces DEF OldOf
<1>2. RepOf \in [Profilers -> Reps \cup {None}]
  BY DEF CordTypes, Walks, RepOf
<1>3. OwnedOf \in [Infos -> Reps \cup {None}]
  BY DEF CordTypes, OwnedOf
<1> QED
  BY <1>1, <1>2, <1>3

\* What is held is counted.
LEMMA HeldIsCounted ==
  ASSUME CordzInfoAssumption, CountsOk, NEW r \in Reps
  PROVE  /\ Count(tree, Cords, r) \in Nat /\ Count(OldOf, Cords, r) \in Nat
         /\ Count(RepOf, Profilers, r) \in Nat /\ Count(OwnedOf, Infos, r) \in Nat
         /\ \A c \in Cords : tree[c] = r => Count(tree, Cords, r) >= 1 /\ refcount[r] >= 1
         /\ \A c \in Cords : OldOf[c] = r => Count(OldOf, Cords, r) >= 1 /\ refcount[r] >= 1
         /\ \A p \in Profilers : RepOf[p] = r => Count(RepOf, Profilers, r) >= 1 /\ refcount[r] >= 1
         /\ \A i \in Infos : OwnedOf[i] = r => Count(OwnedOf, Infos, r) >= 1 /\ refcount[r] >= 1
<1>1. /\ Count(tree, Cords, r) \in Nat /\ Count(OldOf, Cords, r) \in Nat
      /\ Count(RepOf, Profilers, r) \in Nat /\ Count(OwnedOf, Infos, r) \in Nat
  BY CountIsNat DEF CordzInfoAssumption
<1>2. refcount[r] = Count(tree, Cords, r) + Count(OldOf, Cords, r)
                    + Count(RepOf, Profilers, r) + Count(OwnedOf, Infos, r)
  BY DEF CountsOk, Holders
<1>3. \A c \in Cords : tree[c] = r => Count(tree, Cords, r) >= 1
  BY CountIsNat DEF CordzInfoAssumption
<1>4. \A c \in Cords : OldOf[c] = r => Count(OldOf, Cords, r) >= 1
  BY CountIsNat DEF CordzInfoAssumption
<1>5. \A p \in Profilers : RepOf[p] = r => Count(RepOf, Profilers, r) >= 1
  BY CountIsNat DEF CordzInfoAssumption
<1>6. \A i \in Infos : OwnedOf[i] = r => Count(OwnedOf, Infos, r) >= 1
  BY CountIsNat DEF CordzInfoAssumption
<1> QED
  BY <1>1, <1>2, <1>3, <1>4, <1>5, <1>6

\* A tree that is changed in place is held by its cord alone.
LEMMA SoleHolder ==
  ASSUME CordzInfoAssumption, CordzInv, NEW c \in Cords, op[c].pc = "change"
  PROVE  /\ tree[c] \in Reps /\ refcount[tree[c]] = 1
         /\ \A d \in Cords \ {c} : tree[d] # tree[c]
         /\ \A d \in Cords : OldOf[d] # tree[c]
         /\ \A p \in Profilers : RepOf[p] # tree[c]
         /\ \A i \in Infos : OwnedOf[i] # tree[c]
<1> DEFINE r == tree[c]
<1>1. r \in Reps /\ refcount[r] = 1
  BY DEF CordzInv, CordzTypes, CordTypes, CordOk, ChangeOk
<1>2. /\ Count(tree, Cords, r) \in Nat /\ Count(OldOf, Cords, r) \in Nat
      /\ Count(RepOf, Profilers, r) \in Nat /\ Count(OwnedOf, Infos, r) \in Nat
      /\ Count(tree, Cords, r) >= 1
  BY <1>1, HeldIsCounted DEF CordzInv
<1>3. refcount[r] = Count(tree, Cords, r) + Count(OldOf, Cords, r)
                    + Count(RepOf, Profilers, r) + Count(OwnedOf, Infos, r)
  BY <1>1 DEF CordzInv, CountsOk, Holders
<1>4. /\ Count(tree, Cords, r) = 1 /\ Count(OldOf, Cords, r) = 0
      /\ Count(RepOf, Profilers, r) = 0 /\ Count(OwnedOf, Infos, r) = 0
  BY <1>1, <1>2, <1>3
<1>5. /\ \A d \in Cords : OldOf[d] # r
      /\ \A p \in Profilers : RepOf[p] # r
      /\ \A i \in Infos : OwnedOf[i] # r
  BY <1>1, <1>4, HeldIsCounted DEF CordzInv
<1>6. ASSUME NEW d \in Cords \ {c}, tree[d] = r PROVE FALSE
  <2> DEFINE t == [x \in Cords |-> IF x = d THEN None ELSE tree[x]]
  <2>1. None # r
    BY <1>1 DEF CordzInfoAssumption
  <2>2. t[d] # r /\ t[c] = r /\ d \in Cords /\ \A x \in Cords : x # d => t[x] = tree[x]
    BY <2>1
  <2> HIDE DEF t, r
  <2>3. IsFiniteSet(Cords)
    BY DEF CordzInfoAssumption
  <2>4. Count(t, Cords, r) = Count(tree, Cords, r) - One(tree[d], r) + One(t[d], r)
    BY ONLY <2>2, <2>3, CountOne
  <2>5. Count(t, Cords, r) >= 1
    BY <2>2, <2>3, CountIsNat
  <2> QED
    BY <1>4, <1>6, <2>2, <2>4, <2>5 DEF One
<1> QED
  BY <1>1, <1>5, <1>6

\* What a profiler is at has not been deleted.
LEMMA InspectedLives ==
  ASSUME CordzInv PROVE InspectedIsAlive
<1> SUFFICES ASSUME NEW p \in Profilers, profiler[p].at # None PROVE profiler[p].at \in alive
  BY DEF InspectedIsAlive
<1>1. p \in Active
  BY DEF CordzInv, WalkOk, Active
<1>2. PICK Q \in SUBSET Handles : PlacesOk(Q) /\ \E pos \in [Handles -> Nat] : QueueIs(Q, pos)
  BY DEF CordzInv, QueueOk
<1>3. PICK pos \in [Handles -> Nat] : QueueIs(Q, pos)
  BY <1>2
<1>4. PICK V \in SUBSET Infos : Seen(p, Q, pos, V)
  BY <1>1, <1>3 DEF QueueIs
<1>5. profiler[p].at \in Linked \cup Leaving \cup Q
  BY <1>4 DEF Seen
<1> QED
  BY <1>2, <1>5 DEF PlacesOk

\* The rep of an info that is not deleted is held: by its cord, by the thread that untracks it,
\* or by itself.
LEMMA RepIsHeld ==
  ASSUME CordzInfoAssumption, CordzInv, NEW i \in alive \cap Infos, rep_[i] # None
  PROVE  \/ \E c \in Cords : cordz_info[c] = i /\ op[c].pc \in Resting /\ tree[c] = rep_[i]
         \/ \E c \in Cords : cordz_info[c] = i /\ op[c].pc \in {"unlink", "safe", "extend"} /\ OldOf[c] = rep_[i]
         \/ OwnedOf[i] = rep_[i]
<1>1. CASE i \in Owners
  BY <1>1 DEF OwnedOf
<1>2. CASE i \notin Owners
  <2>1. PICK c \in Cords : cordz_info[c] = i /\ op[c].pc \notin {"delete", "queue", "untracked"}
    BY <1>2 DEF Owners
  <2>2. op[c].pc \in Resting \cup {"unlink", "safe", "extend"}
    BY <2>1, ThePlaces DEF Moving, CordzInv, CordzTypes
  <2>3. CordOk(c) /\ cordz_info[c] # None
    BY <2>1 DEF CordzInv, CordzInfoAssumption
  <2>4. op[c].pc \in {"unlink", "safe", "extend"} => OldOf[c] = rep_[i]
    BY <2>1, <2>3 DEF CordOk, OldOf, Moving
  <2>5. cordz_info[c] # None => (op[c].pc \in Resting => tree[c] = rep_[i])
    BY <2>1, <2>3 DEF CordOk
  <2> QED
    BY <2>1, <2>2, <2>3, <2>4, <2>5
<1> QED
  BY <1>1, <1>2

-----------------------------------------------------------------------------
(* What a step leaves alone.                                               *)

\* No info changes places unless its cord does.
LEMMA AtStands ==
  ASSUME NEW pcs, \A c \in Cords : cordz_info'[c] = cordz_info[c],
         \A c \in Cords : cordz_info[c] # None => (op'[c].pc \in pcs <=> op[c].pc \in pcs)
  PROVE  At(pcs)' = At(pcs)
BY DEF At

\* The list is exact as long as neither it nor its members change.
LEMMA ListStands ==
  ASSUME ListOk, UNCHANGED list, Linked' = Linked
  PROVE  ListOk'
BY DEF ListOk, list, Chain, Lowest, Highest, Adjacent

\* The queue and the places of the infos.
QueueStandsStill ==
  /\ UNCHANGED <<queue, ci_next_>> /\ Linked' = Linked /\ Leaving' = Leaving
  /\ \A p \in Profilers : profiler'[p].at = profiler[p].at /\ profiler'[p].to_delete = profiler[p].to_delete
  /\ Active' = Active
  /\ alive' = alive
  /\ \A c \in Cords : cordz_info'[c] = cordz_info[c]
                      /\ (op'[c].pc # "untracked" => op[c].pc # "untracked" \/ cordz_info[c] = None)

\* What the profilers are about to delete stays the same.
LEMMA DeletingStands ==
  ASSUME \A p \in Profilers : profiler'[p].to_delete = profiler[p].to_delete
  PROVE  Deleting' = Deleting
BY DEF Deleting

\* The queue is exact as long as nothing that it depends on changes.
LEMMA QueueStands ==
  ASSUME CordzInfoAssumption, CordTypes, QueueOk, QueueStandsStill
  PROVE  QueueOk'
<1>1. PICK Q \in SUBSET Handles : PlacesOk(Q) /\ \E pos \in [Handles -> Nat] : QueueIs(Q, pos)
  BY DEF QueueOk
<1>2. PICK pos \in [Handles -> Nat] : QueueIs(Q, pos)
  BY <1>1
<1>3. Deleting' = Deleting
  BY DeletingStands DEF QueueStandsStill
<1>4. None \notin Q /\ None \notin Deleting
  BY DEF CordzInfoAssumption, Handles, CordTypes, Walks, Deleting
<1>5. PlacesOk(Q)'
  BY <1>1, <1>3, <1>4 DEF PlacesOk, QueueStandsStill
<1>6. Chain(Q, pos, dq_tail, dq_prev_, dq_next_)' /\ SnapshotFirst(Q, pos)'
  BY <1>2 DEF QueueIs, Chain, SnapshotFirst, Lowest, Highest, Adjacent, QueueStandsStill, queue
<1>7. ASSUME NEW p \in Active' PROVE \E V \in SUBSET Infos : Seen(p, Q, pos, V)'
  <2>1. p \in Profilers /\ p \in Active
    BY DEF QueueStandsStill, Active
  <2>2. PICK V \in SUBSET Infos : Seen(p, Q, pos, V)
    BY <1>2, <2>1 DEF QueueIs
  <2>3. Seen(p, Q, pos, V)'
    BY <2>1, <2>2 DEF Seen, QueueStandsStill
  <2> QED
    BY <2>3
<1>8. QueueIs(Q, pos)'
  BY <1>6, <1>7 DEF QueueIs
<1> QED
  BY <1>5, <1>8 DEF QueueOk

\* A cord that others leave alone.
LEMMA CordStands ==
  ASSUME CordzInfoAssumption, CordzInv, NEW d \in Cords,
         op'[d] = op[d], cordz_info'[d] = cordz_info[d], tree'[d] = tree[d],
         cordz_info[d] # None /\ op[d].pc \in Resting \cup {"unlink", "safe", "extend"}
           => rep_'[cordz_info[d]] = rep_[cordz_info[d]],
         \A i \in Infos : mutex_'[i] = d <=> mutex_[i] = d,
         op[d].pc = "change" => refcount'[tree[d]] = refcount[tree[d]]
  PROVE  CordOk(d)' /\ ChangeOk(d)' /\ MutexOk(d)'
<1>1. CordOk(d) /\ ChangeOk(d) /\ MutexOk(d) /\ cordz_info[d] \in Infos \cup {None} /\ None \notin Infos
  BY DEF CordzInv, CordzTypes, CordTypes, CordzInfoAssumption
<1>2. CordOk(d)'
  BY <1>1 DEF CordOk, Moving
<1>3. ChangeOk(d)'
  BY <1>1 DEF ChangeOk
<1>4. MutexOk(d)'
  BY <1>1 DEF MutexOk
<1> QED
  BY <1>2, <1>3, <1>4

\* Profilers that do not move stay where they may be.
LEMMA WalksStand ==
  ASSUME CordzInv, profiler' = profiler PROVE \A p \in Profilers : WalkOk(p)'
BY DEF CordzInv, WalkOk

\* Counts, when one cord has changed what it holds, and maybe one info.
LEMMA CountsOfCord ==
  ASSUME CordzInfoAssumption, CordzInv, NEW c \in Cords,
         \A d \in Cords \ {c} : tree'[d] = tree[d] /\ OldOf'[d] = OldOf[d],
         \A p \in Profilers : RepOf'[p] = RepOf[p],
         \A i \in Infos : OwnedOf'[i] = OwnedOf[i],
         \A r \in Reps : refcount'[r] = refcount[r] - One(tree[c], r) + One(tree'[c], r)
                                        - One(OldOf[c], r) + One(OldOf'[c], r)
  PROVE  CountsOk'
<1> SUFFICES ASSUME NEW r \in Reps PROVE refcount'[r] = Holders(r)'
  BY DEF CountsOk
<1>0. IsFiniteSet(Cords) /\ IsFiniteSet(Profilers) /\ IsFiniteSet(Infos)
  BY DEF CordzInfoAssumption
<1>1. Count(tree', Cords, r) = Count(tree, Cords, r) - One(tree[c], r) + One(tree'[c], r)
  BY <1>0, CountOne
<1>2. Count(OldOf', Cords, r) = Count(OldOf, Cords, r) - One(OldOf[c], r) + One(OldOf'[c], r)
  BY <1>0, CountOne
<1>3. Count(RepOf', Profilers, r) = Count(RepOf, Profilers, r)
  BY CountSame
<1>4. Count(OwnedOf', Infos, r) = Count(OwnedOf, Infos, r)
  BY CountSame
<1>5. refcount[r] = Holders(r)
  BY DEF CordzInv, CountsOk
<1>6. Holders(r)' = Count(tree', Cords, r) + Count(OldOf', Cords, r)
                    + Count(RepOf', Profilers, r) + Count(OwnedOf', Infos, r)
  BY DEF Holders, Count
<1>7. /\ Count(tree, Cords, r) \in Nat /\ Count(OldOf, Cords, r) \in Nat
      /\ Count(RepOf, Profilers, r) \in Nat /\ Count(OwnedOf, Infos, r) \in Nat
  BY HeldIsCounted DEF CordzInv
<1> QED
  BY <1>1, <1>2, <1>3, <1>4, <1>5, <1>6, <1>7 DEF Holders, One

\* Counts are right after a step that moves what one thread and one info hold, and no
\* other.
LEMMA CountsOfInfo ==
  ASSUME CordzInfoAssumption, CordzInv, NEW c \in Cords, NEW i \in Infos, tree' = tree,
         \A d \in Cords \ {c} : OldOf'[d] = OldOf[d],
         \A p \in Profilers : RepOf'[p] = RepOf[p],
         \A j \in Infos \ {i} : OwnedOf'[j] = OwnedOf[j],
         \A r \in Reps : refcount'[r] = refcount[r] - One(OldOf[c], r) + One(OldOf'[c], r)
                                        - One(OwnedOf[i], r) + One(OwnedOf'[i], r)
  PROVE  CountsOk'
<1> SUFFICES ASSUME NEW r \in Reps PROVE refcount'[r] = Holders(r)'
  BY DEF CountsOk
<1>0. IsFiniteSet(Cords) /\ IsFiniteSet(Profilers) /\ IsFiniteSet(Infos)
  BY DEF CordzInfoAssumption
<1>1. Count(OwnedOf', Infos, r) = Count(OwnedOf, Infos, r) - One(OwnedOf[i], r) + One(OwnedOf'[i], r)
  BY <1>0, CountOne
<1>2. Count(OldOf', Cords, r) = Count(OldOf, Cords, r) - One(OldOf[c], r) + One(OldOf'[c], r)
  BY <1>0, CountOne
<1>3. Count(RepOf', Profilers, r) = Count(RepOf, Profilers, r)
  BY CountSame
<1>4. Count(tree', Cords, r) = Count(tree, Cords, r)
  BY CountSame
<1>5. refcount[r] = Holders(r)
  BY DEF CordzInv, CountsOk
<1>6. Holders(r)' = Count(tree', Cords, r) + Count(OldOf', Cords, r)
                    + Count(RepOf', Profilers, r) + Count(OwnedOf', Infos, r)
  BY DEF Holders, Count
<1>7. /\ Count(tree, Cords, r) \in Nat /\ Count(OldOf, Cords, r) \in Nat
      /\ Count(RepOf, Profilers, r) \in Nat /\ Count(OwnedOf, Infos, r) \in Nat
  BY HeldIsCounted DEF CordzInv
<1> QED
  BY <1>1, <1>2, <1>3, <1>4, <1>5, <1>6, <1>7 DEF Holders, One

\* or a profiler.
LEMMA CountsOfProfiler ==
  ASSUME CordzInfoAssumption, CordzInv, NEW p \in Profilers, tree' = tree,
         \A d \in Cords : OldOf'[d] = OldOf[d],
         \A q \in Profilers \ {p} : RepOf'[q] = RepOf[q],
         \A i \in Infos : OwnedOf'[i] = OwnedOf[i],
         \A r \in Reps : refcount'[r] = refcount[r] - One(RepOf[p], r) + One(RepOf'[p], r)
  PROVE  CountsOk'
<1> SUFFICES ASSUME NEW r \in Reps PROVE refcount'[r] = Holders(r)'
  BY DEF CountsOk
<1>0. IsFiniteSet(Cords) /\ IsFiniteSet(Profilers) /\ IsFiniteSet(Infos)
  BY DEF CordzInfoAssumption
<1>1. Count(RepOf', Profilers, r) = Count(RepOf, Profilers, r) - One(RepOf[p], r) + One(RepOf'[p], r)
  BY <1>0, CountOne
<1>2. Count(OldOf', Cords, r) = Count(OldOf, Cords, r)
  BY CountSame
<1>3. Count(OwnedOf', Infos, r) = Count(OwnedOf, Infos, r)
  BY CountSame
<1>4. Count(tree', Cords, r) = Count(tree, Cords, r)
  BY CountSame
<1>5. refcount[r] = Holders(r)
  BY DEF CordzInv, CountsOk
<1>6. Holders(r)' = Count(tree', Cords, r) + Count(OldOf', Cords, r)
                    + Count(RepOf', Profilers, r) + Count(OwnedOf', Infos, r)
  BY DEF Holders, Count
<1>7. /\ Count(tree, Cords, r) \in Nat /\ Count(OldOf, Cords, r) \in Nat
      /\ Count(RepOf, Profilers, r) \in Nat /\ Count(OwnedOf, Infos, r) \in Nat
  BY HeldIsCounted DEF CordzInv
<1> QED
  BY <1>1, <1>2, <1>3, <1>4, <1>5, <1>6, <1>7 DEF Holders, One

\* Nobody takes or gives up a rep.
LEMMA HoldersStand ==
  ASSUME CordzInv, tree' = tree, refcount' = refcount,
         \A d \in Cords : OldOf'[d] = OldOf[d],
         \A p \in Profilers : RepOf'[p] = RepOf[p],
         \A i \in Infos : OwnedOf'[i] = OwnedOf[i]
  PROVE  CountsOk'
<1> SUFFICES ASSUME NEW r \in Reps PROVE refcount'[r] = Holders(r)'
  BY DEF CountsOk
<1>1. Count(tree', Cords, r) = Count(tree, Cords, r)
  BY CountSame
<1>2. Count(OldOf', Cords, r) = Count(OldOf, Cords, r)
  BY CountSame
<1>3. Count(RepOf', Profilers, r) = Count(RepOf, Profilers, r)
  BY CountSame
<1>4. Count(OwnedOf', Infos, r) = Count(OwnedOf, Infos, r)
  BY CountSame
<1>5. refcount[r] = Holders(r)
  BY DEF CordzInv, CountsOk
<1>6. Holders(r)' = Count(tree', Cords, r) + Count(OldOf', Cords, r)
                    + Count(RepOf', Profilers, r) + Count(OwnedOf', Infos, r)
  BY DEF Holders, Count
<1> QED
  BY <1>1, <1>2, <1>3, <1>4, <1>5, <1>6 DEF Holders

\* A rep that a profiler holds is not deleted.
LEMMA NoneDisturbed ==
  ASSUME CordzInfoAssumption, CordTypes, refcount' \in [Reps -> Nat], CountsOk',
         \A p \in Profilers : RepOf'[p] = RepOf[p] \/ RepOf[p] = None,
         disturbed' = disturbed \cup {p \in Profilers : profiler[p].rep \in {r \in Reps : refcount[r] > 0 /\ refcount'[r] = 0}}
  PROVE  disturbed' = {}
<1> SUFFICES ASSUME NEW p \in Profilers, profiler[p].rep \in Reps, refcount'[profiler[p].rep] = 0
             PROVE  FALSE
  BY DEF CordTypes
<1> DEFINE r == profiler[p].rep
<1>1. RepOf[p] = r /\ r # None
  BY DEF RepOf, CordzInfoAssumption
<1>2. RepOf'[p] = r
  BY <1>1
<1>3. refcount'[r] = Count(tree', Cords, r) + Count(OldOf', Cords, r)
                     + Count(RepOf', Profilers, r) + Count(OwnedOf', Infos, r)
  BY DEF CountsOk, Holders, Count
<1>4. /\ Count(tree', Cords, r) \in Nat /\ Count(OldOf', Cords, r) \in Nat
      /\ Count(RepOf', Profilers, r) \in Nat /\ Count(OwnedOf', Infos, r) \in Nat
      /\ Count(RepOf', Profilers, r) >= 1
  BY <1>2, CountIsNat DEF CordzInfoAssumption
<1> QED
  BY <1>3, <1>4

\* The cords but c are left alone.
LEMMA CordsStand ==
  ASSUME CordzInfoAssumption, CordzInv, NEW c \in Cords,
         \A d \in Cords \ {c} : op'[d] = op[d] /\ cordz_info'[d] = cordz_info[d] /\ tree'[d] = tree[d],
         \A d \in Cords \ {c} : cordz_info[d] # None /\ op[d].pc \in Resting \cup {"unlink", "safe", "extend"}
                                  => rep_'[cordz_info[d]] = rep_[cordz_info[d]],
         \A d \in Cords \ {c} : \A i \in Infos : mutex_'[i] = d <=> mutex_[i] = d,
         \A d \in Cords \ {c} : op[d].pc = "change" => refcount'[tree[d]] = refcount[tree[d]],
         CordOk(c)', ChangeOk(c)', MutexOk(c)'
  PROVE  \A d \in Cords : CordOk(d)' /\ ChangeOk(d)' /\ MutexOk(d)'
<1>1. ASSUME NEW d \in Cords \ {c} PROVE CordOk(d)' /\ ChangeOk(d)' /\ MutexOk(d)'
  BY CordStands
<1> QED
  BY <1>1

\* A thread goes on, and no info changes its place.
LEMMA InPlace ==
  ASSUME CordzInfoAssumption, CordzInv, NEW c \in Cords, NEW o \in Places, op' = [op EXCEPT ![c] = o],
         UNCHANGED <<cordz_info, new, alive, list, queue, profiler>>,
         cordz_info[c] # None => /\ o.pc \in InList <=> op[c].pc \in InList
                                 /\ o.pc \in OnTheWay <=> op[c].pc \in OnTheWay,
         op[c].pc = "untracked" => o.pc = "untracked"
  PROVE  /\ op' \in [Cords -> Places] /\ op'[c] = o /\ \A d \in Cords \ {c} : op'[d] = op[d]
         /\ ListTypes' /\ QueueTypes' /\ CordInfosOk' /\ ListOk' /\ QueueOk'
         /\ \A p \in Profilers : WalkOk(p)'
<1>1. op' \in [Cords -> Places] /\ op'[c] = o /\ \A d \in Cords \ {c} : op'[d] = op[d]
  BY OpSet DEF CordzInv, CordzTypes, CordTypes
<1>2. ListTypes' /\ QueueTypes'
  BY DEF CordzInv, CordzTypes, ListTypes, QueueTypes, list, queue
<1>3. CordInfosOk'
  BY DEF CordzInv, CordInfosOk, list
<1>4. \A d \in Cords : cordz_info'[d] = cordz_info[d]
  OBVIOUS
<1>5. Linked' = Linked
  <2>1. \A d \in Cords : cordz_info[d] # None => (op'[d].pc \in InList <=> op[d].pc \in InList)
    BY <1>1
  <2> QED
    BY <1>4, <2>1, AtStands DEF Linked
<1>6. Leaving' = Leaving
  <2>1. \A d \in Cords : cordz_info[d] # None => (op'[d].pc \in OnTheWay <=> op[d].pc \in OnTheWay)
    BY <1>1
  <2> QED
    BY <1>4, <2>1, AtStands DEF Leaving
<1>7. ListOk'
  BY <1>5, ListStands DEF CordzInv
<1>8. QueueStandsStill
  <2>1. Active' = Active
    BY DEF Active
  <2>2. \A d \in Cords : op'[d].pc # "untracked" => op[d].pc # "untracked" \/ cordz_info[d] = None
    BY <1>1
  <2> QED
    BY <1>4, <1>5, <1>6, <2>1, <2>2 DEF QueueStandsStill, list
<1>9. QueueOk'
  BY <1>8, QueueStands DEF CordzInv, CordzTypes
<1>10. \A p \in Profilers : WalkOk(p)'
  BY WalksStand
<1> QED
  BY <1>1, <1>2, <1>3, <1>7, <1>9, <1>10

\* An info owns its rep as before.
LEMMA OwnersStand ==
  ASSUME UNCHANGED <<cordz_info, alive>>,
         \A c \in Cords : cordz_info[c] # None =>
           (op'[c].pc \in {"delete", "queue", "untracked"} <=> op[c].pc \in {"delete", "queue", "untracked"}),
         None \notin Infos
  PROVE  Owners' = Owners
BY DEF Owners

\* A step of one cord's thread leaves what the others carry.
LEMMA OldStands ==
  ASSUME NEW c \in Cords, \A d \in Cords \ {c} : op'[d] = op[d]
  PROVE  \A d \in Cords \ {c} : OldOf'[d] = OldOf[d]
BY DEF OldOf

-----------------------------------------------------------------------------
(* Steps of a cord that leave the infos in their places.                   *)

\* CordzInfo::Lock, at the begin of a CordzUpdateScope.
LEMMA BeginUpdateKeeps ==
  ASSUME CordzInfoAssumption, CordzInv, NEW c \in Cords, BeginUpdate(c) PROVE CordzInv'
<1> DEFINE o == [pc |-> "update"]
<1>1. /\ op[c] = Idle /\ tree[c] # None /\ op' = [op EXCEPT ![c] = o]
      /\ UNCHANGED <<cords, reps, handles, rep_, list, queue, profiler>>
      /\ IF cordz_info[c] = None THEN UNCHANGED mutex_
         ELSE mutex_[cordz_info[c]] = None /\ mutex_' = [mutex_ EXCEPT ![cordz_info[c]] = c]
  BY DEF BeginUpdate, MayChange
<1>2. o \in Places /\ o.pc = "update" /\ op[c].pc = "idle"
  BY <1>1 DEF Places, Rests, Resting, Idle
<1>3. /\ op' \in [Cords -> Places] /\ op'[c] = o /\ \A d \in Cords \ {c} : op'[d] = op[d]
      /\ ListTypes' /\ QueueTypes' /\ CordInfosOk' /\ ListOk' /\ QueueOk'
      /\ \A p \in Profilers : WalkOk(p)'
  BY <1>1, <1>2, InPlace DEF cords, handles, InList, OnTheWay, Resting
<1> HIDE DEF o
<1>4. CordTypes' /\ None \notin Infos /\ None \notin Cords
  BY <1>1, <1>3 DEF CordzInv, CordzTypes, CordTypes, cords, reps, handles, CordzInfoAssumption
<1>5. CordOk(c) /\ CordOk(c)' /\ ChangeOk(c)' /\ MutexOk(c)'
  BY <1>1, <1>2, <1>3, <1>4 DEF CordOk, ChangeOk, MutexOk, CordzInv, CordzTypes, CordTypes, Resting, Moving, Updating, cords
<1>6. \A d \in Cords \ {c} : \A i \in Infos : mutex_'[i] = d <=> mutex_[i] = d
  BY <1>1, <1>4 DEF CordzInv, CordzTypes, CordTypes
<1>7. \A d \in Cords : CordOk(d)' /\ ChangeOk(d)' /\ MutexOk(d)'
  BY <1>1, <1>3, <1>5, <1>6, CordsStand DEF cords, reps
<1>8. CountsOk'
  <2>1. \A d \in Cords : OldOf'[d] = OldOf[d]
    BY <1>2, <1>3 DEF OldOf, Moving
  <2>2. Owners' = Owners
    BY <1>1, <1>2, <1>3, <1>4, OwnersStand DEF cords, handles
  <2>3. \A i \in Infos : OwnedOf'[i] = OwnedOf[i]
    BY <1>1, <2>2 DEF OwnedOf
  <2>4. \A p \in Profilers : RepOf'[p] = RepOf[p]
    BY <1>1 DEF RepOf
  <2> QED
    BY <1>1, <2>1, <2>3, <2>4, HoldersStand DEF cords, reps
<1> QED
  BY <1>3, <1>4, <1>7, <1>8 DEF CordzInv, CordzTypes

\* A tree that is seen to have one reference is this cord's alone.
LEMMA IsOneKeeps ==
  ASSUME CordzInfoAssumption, CordzInv, NEW c \in Cords, IsOne(c) PROVE CordzInv'
<1> DEFINE o == [op[c] EXCEPT !.pc = "change"]
<1>1. /\ op[c].pc = "update" /\ refcount[tree[c]] = 1 /\ op' = [op EXCEPT ![c] = o]
      /\ UNCHANGED <<cords, reps, handles, rep_, mutex_, list, queue, profiler>>
  BY DEF IsOne
<1>2. o \in Places /\ o.pc = "change"
  BY <1>1, ThePlaces, RestOn DEF Resting, CordzInv, CordzTypes
<1> HIDE DEF o
<1>3. /\ op' \in [Cords -> Places] /\ op'[c] = o /\ \A d \in Cords \ {c} : op'[d] = op[d]
      /\ ListTypes' /\ QueueTypes' /\ CordInfosOk' /\ ListOk' /\ QueueOk'
      /\ \A p \in Profilers : WalkOk(p)'
  BY <1>1, <1>2, InPlace DEF cords, handles, InList, OnTheWay, Resting
<1>4. CordTypes' /\ None \notin Infos
  BY <1>1, <1>3 DEF CordzInv, CordzTypes, CordTypes, cords, reps, handles, CordzInfoAssumption
<1>5. CordOk(c)' /\ ChangeOk(c)' /\ MutexOk(c)'
  BY <1>1, <1>2, <1>3 DEF CordOk, ChangeOk, MutexOk, CordzInv, Resting, Moving, Updating, cords, reps
<1>6. \A d \in Cords : CordOk(d)' /\ ChangeOk(d)' /\ MutexOk(d)'
  BY <1>1, <1>3, <1>5, CordsStand DEF cords, reps
<1>7. CountsOk'
  <2>1. \A d \in Cords : OldOf'[d] = OldOf[d]
    BY <1>1, <1>2, <1>3 DEF OldOf, Moving
  <2>2. Owners' = Owners
    BY <1>1, <1>2, <1>3, <1>4, OwnersStand DEF cords, handles
  <2>3. \A i \in Infos : OwnedOf'[i] = OwnedOf[i]
    BY <1>1, <2>2 DEF OwnedOf
  <2>4. \A p \in Profilers : RepOf'[p] = RepOf[p]
    BY <1>1 DEF RepOf
  <2> QED
    BY <1>1, <2>1, <2>3, <2>4, HoldersStand DEF cords, reps
<1> QED
  BY <1>3, <1>4, <1>6, <1>7 DEF CordzInv, CordzTypes

\* A tree is changed in place: nobody else holds it.
LEMMA UpdateKeeps ==
  ASSUME CordzInfoAssumption, CordzInv, NEW c \in Cords, Update(c) PROVE CordzInv'
<1> DEFINE o == [op[c] EXCEPT !.pc = "unlock"]
<1>1. /\ op[c].pc = "change" /\ Changed({tree[c]}) /\ op' = [op EXCEPT ![c] = o]
      /\ UNCHANGED <<cords, refcount, handles, rep_, mutex_, list, queue, profiler>>
  BY DEF Update
<1>2. o \in Places /\ o.pc = "unlock"
  BY <1>1, ThePlaces, RestOn DEF Resting, CordzInv, CordzTypes
<1> HIDE DEF o
<1>3. /\ op' \in [Cords -> Places] /\ op'[c] = o /\ \A d \in Cords \ {c} : op'[d] = op[d]
      /\ ListTypes' /\ QueueTypes' /\ CordInfosOk' /\ ListOk' /\ QueueOk'
      /\ \A p \in Profilers : WalkOk(p)'
  BY <1>1, <1>2, InPlace DEF cords, handles, InList, OnTheWay, Resting
<1>4. disturbed' = {}
  <2>1. \A p \in Profilers : profiler[p].rep # tree[c]
    BY <1>1, SoleHolder DEF RepOf
  <2> QED
    BY <1>1, <2>1 DEF Changed, CordzInv, CordzTypes, CordTypes
<1>5. CordTypes' /\ None \notin Infos
  BY <1>1, <1>3, <1>4 DEF CordzInv, CordzTypes, CordTypes, cords, handles, CordzInfoAssumption
<1>6. CordOk(c)' /\ ChangeOk(c)' /\ MutexOk(c)'
  BY <1>1, <1>2, <1>3 DEF CordOk, ChangeOk, MutexOk, CordzInv, Resting, Moving, Updating, cords
<1>7. \A d \in Cords : CordOk(d)' /\ ChangeOk(d)' /\ MutexOk(d)'
  BY <1>1, <1>3, <1>6, CordsStand DEF cords
<1>8. CountsOk'
  <2>1. \A d \in Cords : OldOf'[d] = OldOf[d]
    BY <1>1, <1>2, <1>3 DEF OldOf, Moving
  <2>2. Owners' = Owners
    BY <1>1, <1>2, <1>3, <1>5, OwnersStand DEF cords, handles
  <2>3. \A i \in Infos : OwnedOf'[i] = OwnedOf[i]
    BY <1>1, <2>2 DEF OwnedOf
  <2>4. \A p \in Profilers : RepOf'[p] = RepOf[p]
    BY <1>1 DEF RepOf
  <2> QED
    BY <1>1, <2>1, <2>3, <2>4, HoldersStand DEF cords
<1> QED
  BY <1>3, <1>5, <1>7, <1>8 DEF CordzInv, CordzTypes

\* The first free address is free.
LEMMA FirstIsOne ==
  ASSUME NEW S \in SUBSET Nat, S # {} PROVE First(S) \in S
BY LeastOne DEF First

\* The info of a cord that updates is its own.
LEMMA UpdatedIsTracked ==
  ASSUME CordzInfoAssumption, CordzInv, NEW c \in Cords, op[c].pc \in Resting \cup {"unlink", "safe", "extend"}
  PROVE  /\ cordz_info[c] \notin Owners
         /\ \A d \in Cords \ {c} : cordz_info[d] # None => cordz_info[d] # cordz_info[c]
<1>1. cordz_info[c] \notin Owners
  BY DEF Owners, Resting
<1>2. \A d \in Cords \ {c} : cordz_info[d] # None => cordz_info[d] # cordz_info[c]
  BY DEF CordzInv, CordInfosOk
<1> QED
  BY <1>1, <1>2

\* The tree is set in an update: to another one or to none.
LEMMA TreeSet ==
  ASSUME CordzInfoAssumption, CordzInv, NEW c \in Cords, NEW n \in Reps \cup {None}, op[c].pc = "update",
         op' = [op EXCEPT ![c].pc = "unlock"],
         SetTreeOrEmpty(c, n), refcount' \in [Reps -> Nat],
         disturbed' = disturbed \cup {p \in Profilers : profiler[p].rep \in {r \in Reps : refcount[r] > 0 /\ refcount'[r] = 0}},
         UNCHANGED <<cordz_info, handles, mutex_, list, queue, profiler>>,
         \A r \in Reps : refcount'[r] = refcount[r] - One(tree[c], r) + One(n, r),
         n # None => refcount[n] = 0
  PROVE  CordzInv'
<1> DEFINE o == [op[c] EXCEPT !.pc = "unlock"]
<1>1. op' = [op EXCEPT ![c] = o]
  OBVIOUS
<1>2. o \in Places /\ o.pc = "unlock"
  BY ThePlaces, RestOn DEF Resting, CordzInv, CordzTypes
<1> HIDE DEF o
<1>3. /\ op' \in [Cords -> Places] /\ op'[c] = o /\ \A d \in Cords \ {c} : op'[d] = op[d]
      /\ ListTypes' /\ QueueTypes' /\ CordInfosOk' /\ ListOk' /\ QueueOk'
      /\ \A p \in Profilers : WalkOk(p)'
  BY <1>1, <1>2, InPlace DEF handles, InList, OnTheWay, Resting
<1>4. /\ tree' = [tree EXCEPT ![c] = n]
      /\ rep_' = [i \in Infos |-> IF i = cordz_info[c] THEN n ELSE rep_[i]]
  BY DEF SetTreeOrEmpty
<1>5. tree'[c] = n /\ (\A d \in Cords \ {c} : tree'[d] = tree[d]) /\ tree' \in [Cords -> Reps \cup {None}]
  BY <1>4 DEF CordzInv, CordzTypes, CordTypes
<1>6. CountsOk'
  <2>1. \A d \in Cords : OldOf'[d] = OldOf[d]
    BY <1>2, <1>3 DEF OldOf, Moving
  <2>2. Owners' = Owners
    BY <1>2, <1>3, OwnersStand DEF handles, CordzInfoAssumption
  <2>3. \A i \in Infos : OwnedOf'[i] = OwnedOf[i]
    BY <1>4, <2>2, UpdatedIsTracked DEF OwnedOf, Resting
  <2>4. \A p \in Profilers : RepOf'[p] = RepOf[p]
    BY DEF RepOf
  <2>5. \A r \in Reps : refcount'[r] = refcount[r] - One(tree[c], r) + One(tree'[c], r)
                                       - One(OldOf[c], r) + One(OldOf'[c], r)
    BY <1>5, <2>1 DEF One, CordzInv, CordzTypes, CordTypes
  <2> QED
    BY <1>5, <2>1, <2>3, <2>4, <2>5, CountsOfCord
<1>7. disturbed' = {}
  <2>1. \A p \in Profilers : RepOf'[p] = RepOf[p]
    BY DEF RepOf
  <2> QED
    BY <1>6, <2>1, NoneDisturbed DEF CordzInv, CordzTypes
<1>8. CordTypes'
  BY <1>3, <1>4, <1>5, <1>7 DEF CordzInv, CordzTypes, CordTypes, handles
<1>9. CordOk(c)' /\ ChangeOk(c)' /\ MutexOk(c)'
  BY <1>2, <1>3, <1>4, <1>5 DEF CordOk, ChangeOk, MutexOk, CordzInv, CordzTypes, CordTypes, Resting, Moving, Updating
<1>10. \A d \in Cords \ {c} : cordz_info[d] # None => rep_'[cordz_info[d]] = rep_[cordz_info[d]]
  BY <1>4, UpdatedIsTracked DEF CordzInv, CordzTypes, CordTypes, Resting
<1>11. \A d \in Cords \ {c} : op[d].pc = "change" => refcount'[tree[d]] = refcount[tree[d]]
  <2> SUFFICES ASSUME NEW d \in Cords \ {c}, op[d].pc = "change" PROVE refcount'[tree[d]] = refcount[tree[d]]
    OBVIOUS
  <2>1. tree[d] \in Reps /\ refcount[tree[d]] = 1 /\ tree[c] # tree[d]
    BY SoleHolder
  <2>2. n # tree[d]
    BY <2>1 DEF CordzInfoAssumption
  <2> QED
    BY <2>1, <2>2 DEF One
<1>12. \A d \in Cords : CordOk(d)' /\ ChangeOk(d)' /\ MutexOk(d)'
  BY <1>3, <1>5, <1>9, <1>10, <1>11, CordsStand
<1> QED
  BY <1>3, <1>6, <1>8, <1>12 DEF CordzInv, CordzTypes

\* A tree is replaced, in the cord and in its info.
LEMMA ReplaceKeeps ==
  ASSUME CordzInfoAssumption, CordzInv, NEW c \in Cords, Replace(c) PROVE CordzInv'
<1> DEFINE n == First(Free)
<1>1. n \in Reps /\ refcount[n] = 0
  BY FirstIsOne DEF Replace, Free, CordzInfoAssumption
<1>2. tree[c] \in Reps /\ refcount[tree[c]] >= 1 /\ refcount \in [Reps -> Nat]
  <2>1. tree[c] \in Reps /\ refcount \in [Reps -> Nat]
    BY DEF Replace, CordzInv, CordzTypes, CordTypes, CordOk
  <2> QED
    BY <2>1, HeldIsCounted DEF CordzInv
<1>3. /\ SetTreeOrEmpty(c, n) /\ op[c].pc = "update" /\ op' = [op EXCEPT ![c].pc = "unlock"]
      /\ refcount' = [refcount EXCEPT ![n] = 1, ![tree[c]] = @ - 1]
      /\ disturbed' = disturbed \cup {p \in Profilers : profiler[p].rep \in {r \in Reps : refcount[r] > 0 /\ refcount'[r] = 0}}
      /\ UNCHANGED <<cordz_info, handles, mutex_, list, queue, profiler>>
  BY DEF Replace, Recount, Changed
<1> HIDE DEF n
<1>4. refcount' \in [Reps -> Nat] /\ \A r \in Reps : refcount'[r] = refcount[r] - One(tree[c], r) + One(n, r)
  BY <1>1, <1>2, <1>3 DEF One
<1> QED
  BY <1>1, <1>3, <1>4, TreeSet

\* Everything is removed, from the cord and from its info.
LEMMA RemoveAllKeeps ==
  ASSUME CordzInfoAssumption, CordzInv, NEW c \in Cords, RemoveAll(c) PROVE CordzInv'
<1>1. tree[c] \in Reps /\ refcount[tree[c]] >= 1 /\ refcount \in [Reps -> Nat]
  <2>1. tree[c] \in Reps /\ refcount \in [Reps -> Nat]
    BY DEF RemoveAll, CordzInv, CordzTypes, CordTypes, CordOk
  <2> QED
    BY <2>1, HeldIsCounted DEF CordzInv
<1>2. /\ SetTreeOrEmpty(c, None) /\ op[c].pc = "update" /\ op' = [op EXCEPT ![c].pc = "unlock"]
      /\ refcount' = [refcount EXCEPT ![tree[c]] = @ - 1]
      /\ disturbed' = disturbed \cup {p \in Profilers : profiler[p].rep \in {r \in Reps : refcount[r] > 0 /\ refcount'[r] = 0}}
      /\ UNCHANGED <<cordz_info, handles, mutex_, list, queue, profiler>>
  BY DEF RemoveAll, Unref, Recount, Changed
<1>3. refcount' \in [Reps -> Nat] /\ \A r \in Reps : refcount'[r] = refcount[r] - One(tree[c], r) + One(None, r)
  BY <1>1, <1>2 DEF One, CordzInfoAssumption
<1> QED
  BY <1>2, <1>3, TreeSet

\* CordzInfo::Unlock: the mutex is released; an info without a tree is untracked.
LEMMA EndUpdateKeeps ==
  ASSUME CordzInfoAssumption, CordzInv, NEW c \in Cords, EndUpdate(c) PROVE CordzInv'
<1> DEFINE i == cordz_info[c]
           o == IF i # None /\ rep_[i] = None THEN Untracking(i, FALSE, None) ELSE Idle
<1>1. /\ op[c].pc = "unlock" /\ op' = [op EXCEPT ![c] = o]
      /\ mutex_' = [j \in Infos |-> IF j = i THEN None ELSE mutex_[j]]
      /\ UNCHANGED <<cords, reps, handles, rep_, list, queue, profiler>>
  BY DEF EndUpdate
<1>2. /\ o \in Places
      /\ \/ i # None /\ rep_[i] = None /\ o.pc = "unlink" /\ o.info = i /\ o.track = FALSE /\ o.old = None
         \/ ~(i # None /\ rep_[i] = None) /\ o.pc = "idle"
  <2>1. CASE i # None /\ rep_[i] = None
    BY <2>1 DEF Untracking, Places, Moves, Moving, CordzInv, CordzTypes, CordTypes
  <2>2. CASE ~(i # None /\ rep_[i] = None)
    BY <2>2 DEF Idle, Places, Rests, Resting
  <2> QED
    BY <2>1, <2>2
<1> HIDE DEF o
<1>3. /\ op' \in [Cords -> Places] /\ op'[c] = o /\ \A d \in Cords \ {c} : op'[d] = op[d]
      /\ ListTypes' /\ QueueTypes' /\ CordInfosOk' /\ ListOk' /\ QueueOk'
      /\ \A p \in Profilers : WalkOk(p)'
  BY <1>1, <1>2, InPlace DEF cords, handles, InList, OnTheWay, Resting
<1>4. CordTypes' /\ None \notin Infos
  BY <1>1, <1>3 DEF CordzInv, CordzTypes, CordTypes, cords, reps, handles, CordzInfoAssumption
<1>5. CordOk(c)' /\ ChangeOk(c)' /\ MutexOk(c)'
  <2>1. CordOk(c) /\ MutexOk(c) /\ i \in Infos \cup {None} /\ None \notin Cords
    BY DEF CordzInv, CordzTypes, CordTypes, CordzInfoAssumption
  <2>2. CordOk(c)' /\ ChangeOk(c)'
    BY <1>1, <1>2, <1>3, <2>1 DEF CordOk, ChangeOk, Resting, Moving, cords, reps
  <2>3. MutexOk(c)'
    BY <1>1, <1>2, <1>3, <2>1 DEF MutexOk, Updating, cords
  <2> QED
    BY <2>2, <2>3
<1>6. \A d \in Cords \ {c} : \A j \in Infos : mutex_'[j] = d <=> mutex_[j] = d
  <2> SUFFICES ASSUME NEW d \in Cords \ {c}, NEW j \in Infos, j = i PROVE mutex_'[j] # d /\ mutex_[j] # d
    BY <1>1
  <2>1. mutex_[j] # d
    BY <1>4, UpdatedIsTracked, <1>1 DEF CordzInv, MutexOk, Resting
  <2> QED
    BY <1>1, <2>1 DEF CordzInfoAssumption
<1>7. \A d \in Cords : CordOk(d)' /\ ChangeOk(d)' /\ MutexOk(d)'
  BY <1>1, <1>3, <1>5, <1>6, CordsStand DEF cords, reps
<1>8. CountsOk'
  <2>1. \A d \in Cords : OldOf'[d] = OldOf[d]
    BY <1>1, <1>2, <1>3 DEF OldOf, Moving
  <2>2. Owners' = Owners
    BY <1>1, <1>2, <1>3, <1>4, OwnersStand DEF cords, handles
  <2>3. \A j \in Infos : OwnedOf'[j] = OwnedOf[j]
    BY <1>1, <2>2 DEF OwnedOf
  <2>4. \A p \in Profilers : RepOf'[p] = RepOf[p]
    BY <1>1 DEF RepOf
  <2> QED
    BY <1>1, <2>1, <2>3, <2>4, HoldersStand DEF cords, reps
<1> QED
  BY <1>3, <1>4, <1>7, <1>8 DEF CordzInv, CordzTypes

\* A cord is cleared: its info is on the way out, with the tree.
LEMMA ClearKeeps ==
  ASSUME CordzInfoAssumption, CordzInv, NEW c \in Cords, Clear(c) PROVE CordzInv'
<1> DEFINE i == cordz_info[c]
           o == IF i = None THEN op[c] ELSE Untracking(i, FALSE, tree[c])
<1>1. /\ op[c] = Idle /\ tree[c] # None /\ tree' = [tree EXCEPT ![c] = None]
      /\ IF i = None THEN Unref(tree[c]) /\ UNCHANGED op
         ELSE op' = [op EXCEPT ![c] = Untracking(i, FALSE, tree[c])] /\ UNCHANGED reps
      /\ UNCHANGED <<cordz_info, handles, rep_, mutex_, list, queue, profiler>>
  BY DEF Clear, MayChange
<1>2. /\ op[c].pc = "idle" /\ tree[c] \in Reps /\ i \in Infos \cup {None} /\ op[c] \in Places
      /\ refcount \in [Reps -> Nat] /\ None \notin Reps /\ None \notin Infos /\ None \notin Cords
  BY <1>1 DEF Idle, CordzInv, CordzTypes, CordTypes, CordzInfoAssumption
<1>3. /\ o \in Places /\ op' = [op EXCEPT ![c] = o]
      /\ \/ i = None /\ o.pc = "idle"
         \/ i # None /\ o.pc = "unlink" /\ o.info = i /\ o.track = FALSE /\ o.old = tree[c]
  <2>1. CASE i = None
    BY <1>1, <1>2, <2>1 DEF CordzInv, CordzTypes, CordTypes
  <2>2. CASE i # None
    BY <1>1, <1>2, <2>2 DEF Untracking, Places, Moves, Moving
  <2> QED
    BY <2>1, <2>2
<1> HIDE DEF o
<1>4. /\ op' \in [Cords -> Places] /\ op'[c] = o /\ \A d \in Cords \ {c} : op'[d] = op[d]
      /\ ListTypes' /\ QueueTypes' /\ CordInfosOk' /\ ListOk' /\ QueueOk'
      /\ \A p \in Profilers : WalkOk(p)'
  BY <1>1, <1>2, <1>3, InPlace DEF handles, InList, OnTheWay, Resting
<1>5. tree'[c] = None /\ (\A d \in Cords \ {c} : tree'[d] = tree[d]) /\ tree' \in [Cords -> Reps \cup {None}]
  BY <1>1 DEF CordzInv, CordzTypes, CordTypes
<1>6. /\ refcount' \in [Reps -> Nat]
      /\ \A r \in Reps : refcount'[r] = refcount[r] - (IF i = None THEN One(tree[c], r) ELSE 0)
      /\ disturbed' = disturbed \cup {p \in Profilers : profiler[p].rep \in {r \in Reps : refcount[r] > 0 /\ refcount'[r] = 0}}
  <2>1. CASE i = None
    <3>1. refcount' = [refcount EXCEPT ![tree[c]] = @ - 1] /\ refcount[tree[c]] >= 1
      BY <1>1, <1>2, <2>1, HeldIsCounted DEF Unref, Recount, CordzInv
    <3>2. disturbed' = disturbed \cup {p \in Profilers : profiler[p].rep \in {r \in Reps : refcount[r] > 0 /\ refcount'[r] = 0}}
      BY <1>1, <2>1 DEF Unref, Recount, Changed
    <3> QED
      BY <1>2, <2>1, <3>1, <3>2 DEF One
  <2>2. CASE i # None
    BY <1>1, <1>2, <2>2 DEF reps
  <2> QED
    BY <2>1, <2>2
<1>7. CountsOk'
  <2>1. \A d \in Cords \ {c} : OldOf'[d] = OldOf[d]
    BY <1>4, OldStands
  <2>2. OldOf[c] = None /\ OldOf'[c] = IF i = None THEN None ELSE tree[c]
    BY <1>2, <1>3, <1>4 DEF OldOf, Moving
  <2>3. Owners' = Owners
    BY <1>1, <1>2, <1>3, <1>4, OwnersStand DEF handles
  <2>4. \A j \in Infos : OwnedOf'[j] = OwnedOf[j]
    BY <1>1, <2>3 DEF OwnedOf
  <2>5. \A p \in Profilers : RepOf'[p] = RepOf[p]
    BY <1>1 DEF RepOf
  <2>6. \A r \in Reps : refcount'[r] = refcount[r] - One(tree[c], r) + One(tree'[c], r)
                                       - One(OldOf[c], r) + One(OldOf'[c], r)
    BY <1>2, <1>5, <1>6, <2>2 DEF One
  <2> QED
    BY <1>5, <2>1, <2>4, <2>5, <2>6, CountsOfCord
<1>8. CordTypes'
  <2>1. disturbed' = {}
    BY <1>1, <1>6, <1>7, NoneDisturbed DEF CordzInv, CordzTypes, RepOf
  <2> QED
    BY <1>1, <1>4, <1>5, <1>6, <2>1 DEF CordzInv, CordzTypes, CordTypes, handles
<1>9. CordOk(c)' /\ ChangeOk(c)' /\ MutexOk(c)'
  <2>1. CordOk(c) /\ MutexOk(c)
    BY DEF CordzInv
  <2>2. CordOk(c)' /\ ChangeOk(c)'
    BY <1>1, <1>2, <1>3, <1>4, <1>5, <2>1 DEF CordOk, ChangeOk, Resting, Moving
  <2>3. MutexOk(c)'
    BY <1>1, <1>2, <1>3, <1>4, <2>1 DEF MutexOk, Updating
  <2> QED
    BY <2>2, <2>3
<1>10. \A d \in Cords \ {c} : op[d].pc = "change" => refcount'[tree[d]] = refcount[tree[d]]
  <2> SUFFICES ASSUME NEW d \in Cords \ {c}, op[d].pc = "change" PROVE refcount'[tree[d]] = refcount[tree[d]]
    OBVIOUS
  <2>1. tree[d] \in Reps /\ refcount[tree[d]] = 1 /\ tree[c] # tree[d]
    BY SoleHolder
  <2> QED
    BY <1>6, <2>1 DEF One
<1>11. \A d \in Cords : CordOk(d)' /\ ChangeOk(d)' /\ MutexOk(d)'
  BY <1>1, <1>4, <1>5, <1>9, <1>10, CordsStand
<1> QED
  BY <1>4, <1>7, <1>8, <1>11 DEF CordzInv, CordzTypes

\* AssignSlow: the cord has its new tree, and its old info is on the way out.
LEMMA AssignKeeps ==
  ASSUME CordzInfoAssumption, CordzInv, NEW c \in Cords, NEW from \in Cords, Assign(c, from) PROVE CordzInv'
<1> DEFINE i == cordz_info[c]
           n == tree[from]
           o == [pc |-> IF cordz_info[c] # None THEN "unlink" ELSE "untracked",
                 info |-> cordz_info[c], track |-> cordz_info[from] # None,
                 old |-> tree[c], from |-> from]
<1>1. /\ op[c] = Idle /\ tree[c] # None /\ op[from] = Idle /\ n # None /\ c # from
      /\ tree' = [tree EXCEPT ![c] = n] /\ Ref(n) /\ op' = [op EXCEPT ![c] = o]
      /\ UNCHANGED <<cordz_info, handles, rep_, mutex_, list, queue, profiler>>
  BY DEF Assign, MayChange
<1>2. /\ op[c].pc = "idle" /\ op[from].pc = "idle" /\ tree[c] \in Reps /\ n \in Reps /\ i \in Infos \cup {None}
      /\ refcount \in [Reps -> Nat] /\ None \notin Reps /\ None \notin Infos /\ None \notin Cords
  BY <1>1 DEF Idle, CordzInv, CordzTypes, CordTypes, CordzInfoAssumption
<1>3. /\ o \in Places /\ o.info = i /\ o.old = tree[c]
      /\ o.pc = IF i # None THEN "unlink" ELSE "untracked"
  BY <1>2 DEF Places, Copies, Moving
<1> HIDE DEF o
<1>4. /\ op' \in [Cords -> Places] /\ op'[c] = o /\ \A d \in Cords \ {c} : op'[d] = op[d]
      /\ ListTypes' /\ QueueTypes' /\ CordInfosOk' /\ ListOk' /\ QueueOk'
      /\ \A p \in Profilers : WalkOk(p)'
  BY <1>1, <1>2, <1>3, InPlace DEF handles, InList, OnTheWay, Resting
<1>5. tree'[c] = n /\ (\A d \in Cords \ {c} : tree'[d] = tree[d]) /\ tree' \in [Cords -> Reps \cup {None}]
  BY <1>1, <1>2 DEF CordzInv, CordzTypes, CordTypes
<1>6. /\ refcount' \in [Reps -> Nat]
      /\ \A r \in Reps : refcount'[r] = refcount[r] + One(n, r)
      /\ disturbed' = disturbed \cup {p \in Profilers : profiler[p].rep \in {r \in Reps : refcount[r] > 0 /\ refcount'[r] = 0}}
  <2>1. refcount' = [refcount EXCEPT ![n] = @ + 1]
    BY <1>1 DEF Ref, Recount
  <2>2. disturbed' = disturbed \cup {p \in Profilers : profiler[p].rep \in {r \in Reps : refcount[r] > 0 /\ refcount'[r] = 0}}
    BY <1>1 DEF Ref, Recount, Changed
  <2> HIDE DEF n
  <2> QED
    BY <1>2, <2>1, <2>2 DEF One
<1> HIDE DEF n
<1>7. CountsOk'
  <2>1. \A d \in Cords \ {c} : OldOf'[d] = OldOf[d]
    BY <1>4, OldStands
  <2>2. OldOf[c] = None /\ OldOf'[c] = tree[c]
    BY <1>2, <1>3, <1>4 DEF OldOf, Moving
  <2>3. Owners' = Owners
    BY <1>1, <1>2, <1>3, <1>4, OwnersStand DEF handles
  <2>4. \A j \in Infos : OwnedOf'[j] = OwnedOf[j]
    BY <1>1, <2>3 DEF OwnedOf
  <2>5. \A p \in Profilers : RepOf'[p] = RepOf[p]
    BY <1>1 DEF RepOf
  <2>6. \A r \in Reps : refcount'[r] = refcount[r] - One(tree[c], r) + One(tree'[c], r)
                                       - One(OldOf[c], r) + One(OldOf'[c], r)
    BY <1>2, <1>5, <1>6, <2>2 DEF One
  <2> QED
    BY <1>5, <2>1, <2>4, <2>5, <2>6, CountsOfCord
<1>8. CordTypes'
  <2>1. disturbed' = {}
    BY <1>1, <1>6, <1>7, NoneDisturbed DEF CordzInv, CordzTypes, RepOf
  <2> QED
    BY <1>1, <1>4, <1>5, <1>6, <2>1 DEF CordzInv, CordzTypes, CordTypes, handles
<1>9. CordOk(c)' /\ ChangeOk(c)' /\ MutexOk(c)'
  <2>1. CordOk(c) /\ MutexOk(c)
    BY DEF CordzInv
  <2>2. CordOk(c)' /\ ChangeOk(c)'
    BY <1>1, <1>2, <1>3, <1>4, <1>5, <2>1 DEF CordOk, ChangeOk, Resting, Moving
  <2>3. MutexOk(c)'
    BY <1>1, <1>2, <1>3, <1>4, <2>1 DEF MutexOk, Updating
  <2> QED
    BY <2>2, <2>3
<1>10. \A d \in Cords \ {c} : op[d].pc = "change" => refcount'[tree[d]] = refcount[tree[d]]
  <2> SUFFICES ASSUME NEW d \in Cords \ {c}, op[d].pc = "change" PROVE refcount'[tree[d]] = refcount[tree[d]]
    OBVIOUS
  <2>1. tree[d] \in Reps /\ refcount[tree[d]] = 1 /\ n # tree[d]
    BY <1>2, SoleHolder DEF n
  <2> QED
    BY <1>6, <2>1 DEF One
<1>11. \A d \in Cords : CordOk(d)' /\ ChangeOk(d)' /\ MutexOk(d)'
  BY <1>1, <1>4, <1>5, <1>9, <1>10, CordsStand
<1> QED
  BY <1>4, <1>7, <1>8, <1>11 DEF CordzInv, CordzTypes

\* The info of a cord whose thread takes it to the queue.
LEMMA OnTheWayIs ==
  ASSUME CordzInfoAssumption, CordzInv, NEW c \in Cords, op[c].pc \in {"unlink"} \cup OnTheWay
  PROVE  /\ op[c].info = cordz_info[c] /\ cordz_info[c] \in Infos \cap alive
         /\ op[c] \in Places /\ op[c].pc \in Moving /\ op[c].old \in Reps \cup {None}
         /\ \A d \in Cords \ {c} : cordz_info[d] # cordz_info[c]
<1>1. op[c].pc \in Moving /\ op[c].pc # "untracked"
  BY DEF OnTheWay, Moving
<1>2. op[c].info = cordz_info[c] /\ cordz_info[c] \in Infos
  BY <1>1 DEF CordzInv, CordzTypes, CordTypes, CordOk
<1>3. cordz_info[c] \in alive
  <2>1. cordz_info[c] \in Linked \cup Leaving
    BY <1>2 DEF Linked, Leaving, At, InList, CordzInfoAssumption
  <2> QED
    BY <2>1 DEF CordzInv, QueueOk, PlacesOk
<1>4. \A d \in Cords \ {c} : cordz_info[d] # cordz_info[c]
  BY <1>2 DEF CordzInv, CordInfosOk, CordzInfoAssumption
<1> QED
  BY <1>1, <1>2, <1>3, <1>4, ThePlaces DEF CordzInv, CordzTypes

\* The tree is kept for those who see the info: from here on the info holds it.
LEMMA ExtendLifeKeeps ==
  ASSUME CordzInfoAssumption, CordzInv, NEW c \in Cords, ExtendLife(c) PROVE CordzInv'
<1> DEFINE i == cordz_info[c]
           n == rep_[i]
           o == [op[c] EXCEPT !.pc = "delete"]
<1>1. /\ op[c].pc = "extend" /\ op[c].info = i /\ op' = [op EXCEPT ![c] = o]
      /\ IF n = None THEN UNCHANGED reps ELSE Ref(n)
      /\ UNCHANGED <<cords, handles, rep_, mutex_, list, queue, profiler>>
  BY OnTheWayIs DEF ExtendLife, OnTheWay
<1>2. /\ i \in Infos \cap alive /\ op[c] \in Places /\ op[c].pc \in Moving
      /\ \A d \in Cords \ {c} : cordz_info[d] # i
  BY <1>1, OnTheWayIs DEF OnTheWay
<1>3. o \in Places /\ o.pc = "delete" /\ o.info = i /\ o.track = op[c].track /\ o.old = op[c].old
  BY <1>1, <1>2, MoveOn DEF Moving
<1> HIDE DEF o
<1>4. /\ op' \in [Cords -> Places] /\ op'[c] = o /\ \A d \in Cords \ {c} : op'[d] = op[d]
      /\ ListTypes' /\ QueueTypes' /\ CordInfosOk' /\ ListOk' /\ QueueOk'
      /\ \A p \in Profilers : WalkOk(p)'
  BY <1>1, <1>3, InPlace DEF cords, handles, InList, OnTheWay, Resting
<1>5. /\ n \in Reps \cup {None} /\ OldOf[c] = n /\ OldOf'[c] = n /\ None \notin Infos /\ None \notin Reps
      /\ refcount \in [Reps -> Nat]
  BY <1>1, <1>2, <1>3, <1>4 DEF CordzInv, CordzTypes, CordTypes, CordOk, OldOf, Moving, CordzInfoAssumption
<1>6. /\ refcount' \in [Reps -> Nat]
      /\ \A r \in Reps : refcount'[r] = refcount[r] + One(n, r)
      /\ disturbed' = disturbed \cup {p \in Profilers : profiler[p].rep \in {r \in Reps : refcount[r] > 0 /\ refcount'[r] = 0}}
  <2> HIDE DEF n
  <2>1. CASE n = None
    BY <1>1, <1>5, <2>1 DEF reps, One
  <2>2. CASE n # None
    <3>1. refcount' = [refcount EXCEPT ![n] = @ + 1]
      BY <1>1, <2>2 DEF Ref, Recount
    <3>2. disturbed' = disturbed \cup {p \in Profilers : profiler[p].rep \in {r \in Reps : refcount[r] > 0 /\ refcount'[r] = 0}}
      BY <1>1, <2>2 DEF Ref, Recount, Changed
    <3> QED
      BY <1>5, <2>2, <3>1, <3>2 DEF One
  <2> QED
    BY <2>1, <2>2
<1>7. i \notin Owners /\ Owners' = Owners \cup {i}
  <2>1. i \notin Owners
    BY <1>1, UpdatedIsTracked
  <2>2. Owners' \subseteq Owners \cup {i}
    BY <1>1, <1>2, <1>3, <1>4 DEF Owners, cords, handles
  <2>3. Owners \cup {i} \subseteq Owners'
    BY <1>1, <1>2, <1>3, <1>4 DEF Owners, cords, handles
  <2> QED
    BY <2>1, <2>2, <2>3
<1>8. CountsOk'
  <2>1. \A d \in Cords \ {c} : OldOf'[d] = OldOf[d]
    BY <1>4, OldStands
  <2>2. OwnedOf[i] = None /\ OwnedOf'[i] = n /\ \A j \in Infos \ {i} : OwnedOf'[j] = OwnedOf[j]
    BY <1>1, <1>2, <1>7 DEF OwnedOf
  <2>3. \A p \in Profilers : RepOf'[p] = RepOf[p]
    BY <1>1 DEF RepOf
  <2>4. \A r \in Reps : refcount'[r] = refcount[r] - One(OldOf[c], r) + One(OldOf'[c], r)
                                       - One(OwnedOf[i], r) + One(OwnedOf'[i], r)
    <3> HIDE DEF n
    <3> QED
      BY <1>5, <1>6, <2>2 DEF One
  <2> HIDE DEF i
  <2> QED
    BY <1>1, <1>2, <2>1, <2>2, <2>3, <2>4, CountsOfInfo DEF cords
<1>9. CordTypes'
  <2>1. disturbed' = {}
    BY <1>1, <1>6, <1>8, NoneDisturbed DEF CordzInv, CordzTypes, RepOf
  <2> QED
    BY <1>1, <1>4, <1>6, <2>1 DEF CordzInv, CordzTypes, CordTypes, cords, handles
<1>10. CordOk(c)' /\ ChangeOk(c)' /\ MutexOk(c)'
  BY <1>1, <1>2, <1>3, <1>4 DEF CordOk, ChangeOk, MutexOk, CordzInv, Resting, Moving, Updating, cords
<1>11. \A d \in Cords \ {c} : op[d].pc = "change" => refcount'[tree[d]] = refcount[tree[d]]
  <2> SUFFICES ASSUME NEW d \in Cords \ {c}, op[d].pc = "change" PROVE refcount'[tree[d]] = refcount[tree[d]]
    OBVIOUS
  <2>1. tree[d] \in Reps /\ refcount[tree[d]] = 1 /\ n # tree[d]
    BY <1>5, SoleHolder
  <2> QED
    BY <1>6, <2>1 DEF One
<1>12. \A d \in Cords : CordOk(d)' /\ ChangeOk(d)' /\ MutexOk(d)'
  BY <1>1, <1>4, <1>10, <1>11, CordsStand DEF cords
<1> QED
  BY <1>4, <1>8, <1>9, <1>12 DEF CordzInv, CordzTypes

-----------------------------------------------------------------------------
(* Steps of a cord that take an info away.                                 *)

\* What the invariant says of the list and the queue.
LEMMA TheQueue ==
  ASSUME CordzInv
  PROVE  \E Q \in SUBSET Handles : PlacesOk(Q) /\ \E pos \in [Handles -> Nat] : QueueIs(Q, pos)
BY DEF CordzInv, QueueOk

\* An empty queue has no snapshot.
LEMMA EmptyQueue ==
  ASSUME CordzInv, dq_tail = None
  PROVE  Active = {} /\ alive = Linked \cup Leaving \cup Deleting
<1>1. PICK Q \in SUBSET Handles : PlacesOk(Q) /\ \E pos \in [Handles -> Nat] : QueueIs(Q, pos)
  BY TheQueue
<1>2. Q = {}
  BY <1>1 DEF QueueIs, Chain
<1> QED
  BY <1>1, <1>2 DEF PlacesOk

\* An info on its way to the queue is not elsewhere.
LEMMA OnTheWayIsAlone ==
  ASSUME CordzInfoAssumption, CordzInv, NEW c \in Cords, op[c].pc \in OnTheWay
  PROVE  cordz_info[c] \notin Linked /\ cordz_info[c] \notin Deleting
<1>1. cordz_info[c] \notin Linked
  BY OnTheWayIs DEF Linked, At, InList, OnTheWay, Resting
<1>2. cordz_info[c] \notin Deleting
  BY TheQueue DEF PlacesOk, OnTheWay
<1> QED
  BY <1>1, <1>2

\* The thread is done with the info, and it is nowhere or in the queue.
LEMMA LeavingTakes ==
  ASSUME CordzInfoAssumption, CordzInv, NEW c \in Cords, op[c].pc \in OnTheWay,
         op'[c].pc = "untracked", \A d \in Cords \ {c} : op'[d] = op[d], cordz_info' = cordz_info
  PROVE  Linked' = Linked /\ Leaving' = Leaving \ {cordz_info[c]}
<1>1. Linked' = Linked
  BY AtStands DEF Linked, InList, OnTheWay, Resting
<1>2. \A d \in Cords \ {c} : cordz_info[d] # cordz_info[c]
  BY OnTheWayIs
<1>3. Leaving' \subseteq Leaving \ {cordz_info[c]}
  BY <1>2 DEF Leaving, At, OnTheWay
<1>4. Leaving \ {cordz_info[c]} \subseteq Leaving'
  BY DEF Leaving, At, OnTheWay
<1> QED
  BY <1>1, <1>3, <1>4

\* It is deleted, since nobody can see it.
LEMMA DeletedAtOnce ==
  ASSUME CordzInfoAssumption, CordzInv, NEW c \in Cords, op[c].pc \in OnTheWay, dq_tail = None,
         op' \in [Cords -> Places], op'[c].pc = "untracked", \A d \in Cords \ {c} : op'[d] = op[d],
         alive' = alive \ {cordz_info[c]}, UNCHANGED <<cordz_info, new, list, queue, profiler>>
  PROVE  /\ ListTypes' /\ QueueTypes' /\ CordInfosOk' /\ ListOk' /\ QueueOk'
         /\ \A p \in Profilers : WalkOk(p)'
<1>1. Linked' = Linked /\ Leaving' = Leaving \ {cordz_info[c]}
  BY LeavingTakes
<1>2. ListTypes' /\ QueueTypes' /\ CordInfosOk'
  BY DEF CordzInv, CordzTypes, ListTypes, QueueTypes, CordInfosOk, list, queue
<1>3. ListOk'
  BY <1>1, ListStands DEF CordzInv
<1>4. \A p \in Profilers : WalkOk(p)'
  BY WalksStand
<1>5. Deleting' = Deleting /\ Active' = Active
  BY DEF Deleting, Active
<1>6. PICK Q \in SUBSET Handles : PlacesOk(Q) /\ \E pos \in [Handles -> Nat] : QueueIs(Q, pos)
  BY TheQueue
<1>7. PICK pos \in [Handles -> Nat] : QueueIs(Q, pos)
  BY <1>6
<1>8. Q = {}
  BY <1>7 DEF QueueIs, Chain
<1>9. PlacesOk(Q)'
  <2>1. \A d \in Cords : op'[d].pc # "untracked" => cordz_info'[d] \notin Q /\ cordz_info'[d] \notin Deleting'
    BY <1>5, <1>6 DEF PlacesOk
  <2>2. alive' = Linked' \cup Leaving' \cup Q \cup Deleting'
    BY <1>1, <1>5, <1>6, <1>8, OnTheWayIsAlone DEF PlacesOk
  <2> QED
    BY <1>5, <1>6, <2>1, <2>2 DEF PlacesOk
<1>10. QueueIs(Q, pos)'
  BY <1>5, <1>6, <1>7, <1>8, EmptyQueue DEF QueueIs, Chain, SnapshotFirst, queue
<1> QED
  BY <1>2, <1>3, <1>4, <1>9, <1>10 DEF QueueOk

\* An info is released.
LEMMA DeletedOne ==
  ASSUME NEW i \in Infos, Deleted({i})
  PROVE  /\ alive' = alive \ {i}
         /\ refcount' = [r \in Reps |-> refcount[r] - One(rep_[i], r)]
         /\ disturbed' = disturbed \cup {p \in Profilers : profiler[p].rep \in {r \in Reps : refcount[r] > 0 /\ refcount'[r] = 0}}
<1>1. ASSUME NEW r \in Reps PROVE Cardinality({j \in {i} : rep_[j] = r}) = One(rep_[i], r)
  <2>1. CASE rep_[i] = r
    <3>1. {j \in {i} : rep_[j] = r} = {i}
      BY <2>1
    <3> QED
      BY <2>1, <3>1, FS_Singleton DEF One
  <2>2. CASE rep_[i] # r
    <3>1. {j \in {i} : rep_[j] = r} = {}
      BY <2>2
    <3> QED
      BY <2>2, <3>1, FS_EmptySet DEF One
  <2> QED
    BY <2>1, <2>2
<1>2. refcount' = [r \in Reps |-> refcount[r] - Cardinality({j \in {i} : rep_[j] = r})]
  BY DEF Deleted, Recount
<1>3. refcount' = [r \in Reps |-> refcount[r] - One(rep_[i], r)]
  BY <1>1, <1>2
<1> QED
  BY <1>3 DEF Deleted, Recount, Changed

\* and the thread is done with it.
LEMMA OwnerDeleted ==
  ASSUME CordzInfoAssumption, CordzInv, NEW c \in Cords, op[c].pc \in {"delete", "queue"}, dq_tail = None,
         op' = [op EXCEPT ![c].pc = "untracked"], Deleted({op[c].info}),
         UNCHANGED <<cords, new, rep_, mutex_, list, queue, profiler>>
  PROVE  CordzInv'
<1> DEFINE i == cordz_info[c]
           n == rep_[i]
           o == [op[c] EXCEPT !.pc = "untracked"]
<1>1. /\ i \in Infos \cap alive /\ op[c] \in Places /\ op[c].pc \in Moving /\ op[c].info = i
      /\ \A d \in Cords \ {c} : cordz_info[d] # i
  BY OnTheWayIs DEF OnTheWay
<1>2. o \in Places /\ o.pc = "untracked" /\ o.info = i /\ o.track = op[c].track /\ o.old = op[c].old
  BY <1>1, MoveOn DEF Moving
<1>3. op' = [op EXCEPT ![c] = o]
  OBVIOUS
<1> HIDE DEF o
<1>4. op' \in [Cords -> Places] /\ op'[c] = o /\ \A d \in Cords \ {c} : op'[d] = op[d]
  BY <1>2, <1>3, OpSet DEF CordzInv, CordzTypes, CordTypes
<1>5. /\ alive' = alive \ {i} /\ refcount' = [r \in Reps |-> refcount[r] - One(n, r)]
      /\ disturbed' = disturbed \cup {p \in Profilers : profiler[p].rep \in {r \in Reps : refcount[r] > 0 /\ refcount'[r] = 0}}
  BY <1>1, DeletedOne
<1>6. /\ ListTypes' /\ QueueTypes' /\ CordInfosOk' /\ ListOk' /\ QueueOk'
      /\ \A p \in Profilers : WalkOk(p)'
  BY <1>2, <1>4, <1>5, DeletedAtOnce DEF OnTheWay, cords
<1>7. i \in Owners /\ Owners' = Owners \ {i}
  <2>1. i \in Owners
    BY <1>1 DEF Owners
  <2>2. Owners' \subseteq Owners \ {i}
    BY <1>2, <1>4, <1>5 DEF Owners, cords
  <2>3. Owners \ {i} \subseteq Owners'
    BY <1>2, <1>4, <1>5 DEF Owners, cords
  <2> QED
    BY <2>1, <2>2, <2>3
<1>8. OwnedOf[i] = n /\ OwnedOf'[i] = None /\ \A j \in Infos \ {i} : OwnedOf'[j] = OwnedOf[j]
  BY <1>1, <1>7 DEF OwnedOf
<1>9. n \in Reps \cup {None} /\ None \notin Reps /\ refcount \in [Reps -> Nat] /\ (n # None => refcount[n] >= 1)
  <2>1. n \in Reps \cup {None} /\ None \notin Reps /\ refcount \in [Reps -> Nat]
    BY <1>1 DEF CordzInv, CordzTypes, CordTypes, CordzInfoAssumption
  <2> QED
    BY <1>1, <1>8, <2>1, HeldIsCounted DEF CordzInv
<1> HIDE DEF n
<1>10. refcount' \in [Reps -> Nat] /\ \A r \in Reps : refcount'[r] = refcount[r] - One(n, r)
  BY <1>5, <1>9 DEF One
<1>11. OldOf[c] = op[c].old /\ OldOf'[c] = op[c].old
  BY <1>1, <1>2, <1>4 DEF OldOf, Moving
<1>12. CountsOk'
  <2>1. \A d \in Cords \ {c} : OldOf'[d] = OldOf[d]
    BY <1>4, OldStands
  <2>2. \A p \in Profilers : RepOf'[p] = RepOf[p]
    BY DEF RepOf
  <2>3. \A r \in Reps : refcount'[r] = refcount[r] - One(OldOf[c], r) + One(OldOf'[c], r)
                                       - One(OwnedOf[i], r) + One(OwnedOf'[i], r)
    BY <1>8, <1>9, <1>10, <1>11 DEF One
  <2> HIDE DEF i
  <2> QED
    BY <1>1, <1>8, <2>1, <2>2, <2>3, CountsOfInfo DEF cords
<1>13. CordTypes'
  <2>1. disturbed' = {}
    BY <1>5, <1>10, <1>12, NoneDisturbed DEF CordzInv, CordzTypes, RepOf
  <2> QED
    BY <1>4, <1>5, <1>10, <2>1 DEF CordzInv, CordzTypes, CordTypes, cords
<1>14. CordOk(c)' /\ ChangeOk(c)' /\ MutexOk(c)'
  BY <1>1, <1>2, <1>4 DEF CordOk, ChangeOk, MutexOk, CordzInv, Resting, Moving, Updating, cords
<1>15. \A d \in Cords \ {c} : op[d].pc = "change" => refcount'[tree[d]] = refcount[tree[d]]
  <2> SUFFICES ASSUME NEW d \in Cords \ {c}, op[d].pc = "change" PROVE refcount'[tree[d]] = refcount[tree[d]]
    OBVIOUS
  <2>1. tree[d] \in Reps /\ refcount[tree[d]] = 1 /\ n # tree[d]
    BY <1>1, <1>8, SoleHolder
  <2> QED
    BY <1>10, <2>1 DEF One
<1>16. \A d \in Cords : CordOk(d)' /\ ChangeOk(d)' /\ MutexOk(d)'
  BY <1>4, <1>14, <1>15, CordsStand DEF cords
<1> QED
  BY <1>6, <1>12, <1>13, <1>16 DEF CordzInv, CordzTypes

\* The thread goes on to the next part of the same work.
LEMMA GoesOn ==
  ASSUME CordzInfoAssumption, CordzInv, NEW c \in Cords, NEW x \in Moving,
         op' = [op EXCEPT ![c].pc = x],
         \/ op[c].pc = "safe" /\ x = "extend"
         \/ op[c].pc = "delete" /\ x = "queue",
         UNCHANGED <<cords, reps, handles, rep_, mutex_, list, queue, profiler>>
  PROVE  CordzInv'
<1> DEFINE o == [op[c] EXCEPT !.pc = x]
<1>1. op[c] \in Places /\ op[c].pc \in Moving
  BY OnTheWayIs DEF OnTheWay
<1>2. o \in Places /\ o.pc = x /\ o.info = op[c].info /\ o.track = op[c].track /\ o.old = op[c].old
  BY <1>1, MoveOn
<1>3. op' = [op EXCEPT ![c] = o]
  OBVIOUS
<1> HIDE DEF o
<1>4. /\ op' \in [Cords -> Places] /\ op'[c] = o /\ \A d \in Cords \ {c} : op'[d] = op[d]
      /\ ListTypes' /\ QueueTypes' /\ CordInfosOk' /\ ListOk' /\ QueueOk'
      /\ \A p \in Profilers : WalkOk(p)'
  BY <1>2, <1>3, InPlace DEF cords, handles, InList, OnTheWay, Resting
<1>5. CordTypes' /\ None \notin Infos
  BY <1>4 DEF CordzInv, CordzTypes, CordTypes, cords, reps, handles, CordzInfoAssumption
<1>6. CordOk(c)' /\ ChangeOk(c)' /\ MutexOk(c)'
  BY <1>2, <1>4 DEF CordOk, ChangeOk, MutexOk, CordzInv, Resting, Moving, Updating, cords
<1>7. \A d \in Cords : CordOk(d)' /\ ChangeOk(d)' /\ MutexOk(d)'
  BY <1>4, <1>6, CordsStand DEF cords, reps
<1>8. CountsOk'
  <2>1. \A d \in Cords : OldOf'[d] = OldOf[d]
    BY <1>1, <1>2, <1>4 DEF OldOf
  <2>2. Owners' = Owners
    BY <1>2, <1>4, <1>5, OwnersStand DEF cords, handles
  <2>3. \A i \in Infos : OwnedOf'[i] = OwnedOf[i]
    BY <2>2 DEF OwnedOf
  <2>4. \A p \in Profilers : RepOf'[p] = RepOf[p]
    BY DEF RepOf
  <2> QED
    BY <2>1, <2>3, <2>4, HoldersStand DEF cords, reps
<1> QED
  BY <1>4, <1>5, <1>7, <1>8 DEF CordzInv, CordzTypes

\* CordzHandle::Delete without the mutex: the info is gone, or is to be queued.
LEMMA DeleteKeeps ==
  ASSUME CordzInfoAssumption, CordzInv, NEW c \in Cords, Delete(c) PROVE CordzInv'
<1>1. CASE dq_tail = None
  BY <1>1, OwnerDeleted DEF Delete
<1>2. CASE dq_tail # None
  BY <1>2, GoesOn DEF Delete, Moving, handles
<1> QED
  BY <1>1, <1>2

\* The fast path: with an empty queue, no profiler sees the info.
LEMMA SafeToDeleteKeeps ==
  ASSUME CordzInfoAssumption, CordzInv, NEW c \in Cords, SafeToDelete(c) PROVE CordzInv'
<1>1. CASE dq_tail # None
  BY <1>1, GoesOn DEF SafeToDelete, Moving, handles
<1>2. CASE dq_tail = None
  <2> DEFINE i == cordz_info[c]
             o == [op[c] EXCEPT !.pc = "untracked"]
  <2>1. /\ i \in Infos \cap alive /\ op[c] \in Places /\ op[c].pc \in Moving /\ op[c].info = i
        /\ \A d \in Cords \ {c} : cordz_info[d] # i
    BY OnTheWayIs DEF OnTheWay, SafeToDelete
  <2>2. /\ op[c].pc = "safe" /\ rep_' = [rep_ EXCEPT ![i] = None] /\ alive' = alive \ {i}
        /\ op' = [op EXCEPT ![c] = o] /\ UNCHANGED <<cords, reps, new, mutex_, list, queue, profiler>>
    BY <1>2, <2>1 DEF SafeToDelete
  <2>3. o \in Places /\ o.pc = "untracked" /\ o.info = i /\ o.track = op[c].track /\ o.old = op[c].old
    BY <2>1, MoveOn DEF Moving
  <2> HIDE DEF o
  <2>4. op' \in [Cords -> Places] /\ op'[c] = o /\ \A d \in Cords \ {c} : op'[d] = op[d]
    BY <2>2, <2>3, OpSet DEF CordzInv, CordzTypes, CordTypes
  <2>5. /\ ListTypes' /\ QueueTypes' /\ CordInfosOk' /\ ListOk' /\ QueueOk'
        /\ \A p \in Profilers : WalkOk(p)'
    BY <1>2, <2>2, <2>3, <2>4, DeletedAtOnce DEF OnTheWay, cords
  <2>6. CordTypes'
    BY <2>2, <2>4 DEF CordzInv, CordzTypes, CordTypes, cords, reps
  <2>7. CordOk(c)' /\ ChangeOk(c)' /\ MutexOk(c)'
    BY <2>1, <2>2, <2>3, <2>4 DEF CordOk, ChangeOk, MutexOk, CordzInv, Resting, Moving, Updating, cords
  <2>8. \A d \in Cords \ {c} : cordz_info[d] # None => rep_'[cordz_info[d]] = rep_[cordz_info[d]]
    BY <2>1, <2>2 DEF CordzInv, CordzTypes, CordTypes
  <2>9. \A d \in Cords : CordOk(d)' /\ ChangeOk(d)' /\ MutexOk(d)'
    BY <2>2, <2>4, <2>7, <2>8, CordsStand DEF cords, reps
  <2>10. CountsOk'
    <3>1. \A d \in Cords : OldOf'[d] = OldOf[d]
      BY <2>1, <2>3, <2>4 DEF OldOf, Moving
    <3>2. i \notin Owners /\ Owners' = Owners
      <4>1. i \notin Owners
        BY <2>2, UpdatedIsTracked
      <4>2. Owners' \subseteq Owners
        BY <2>1, <2>2, <2>3, <2>4 DEF Owners, cords
      <4>3. Owners \subseteq Owners'
        BY <2>1, <2>2, <2>3, <2>4, <4>1 DEF Owners, cords
      <4> QED
        BY <4>1, <4>2, <4>3
    <3>3. \A j \in Infos : OwnedOf'[j] = OwnedOf[j]
      BY <2>2, <3>2 DEF OwnedOf, CordzInv, CordzTypes, CordTypes
    <3>4. \A p \in Profilers : RepOf'[p] = RepOf[p]
      BY <2>2 DEF RepOf
    <3> QED
      BY <2>2, <3>1, <3>3, <3>4, HoldersStand DEF cords, reps
  <2> QED
    BY <2>5, <2>6, <2>9, <2>10 DEF CordzInv, CordzTypes
<1> QED
  BY <1>1, <1>2

\* A handle is put at the end of the queue.
LEMMA Appended ==
  ASSUME CordzInfoAssumption, CordzTypes, NEW Q \in SUBSET Handles, NEW pos \in [Handles -> Nat],
         Chain(Q, pos, dq_tail, dq_prev_, dq_next_), NEW h \in Handles \ Q, Append(h)
  PROVE  /\ QueueTypes'
         /\ \E pos2 \in [Handles -> Nat] :
              /\ Chain(Q \cup {h}, pos2, dq_tail', dq_prev_', dq_next_')
              /\ \A k \in Q : pos2[k] = pos[k] /\ pos[k] < pos2[h]
<1>1. /\ dq_prev_' = [dq_prev_ EXCEPT ![h] = dq_tail] /\ dq_tail' = h
      /\ dq_next_' = [j \in Handles |-> IF j = h THEN None ELSE IF j = dq_tail THEN h ELSE dq_next_[j]]
  BY DEF Append
<1>2. QueueTypes'
  BY <1>1 DEF CordzTypes, QueueTypes
<1>3. Pushed(Q, dq_tail, dq_prev_, dq_next_, h, dq_prev_', dq_next_')
  BY <1>1 DEF Pushed, CordzTypes, QueueTypes
<1>4. None \notin Handles
  BY DEF Handles, CordzInfoAssumption
<1>5. PICK down2 : down2 = dq_prev_'
  OBVIOUS
<1>6. PICK up2 : up2 = dq_next_'
  OBVIOUS
<1>7. Pushed(Q, dq_tail, dq_prev_, dq_next_, h, down2, up2)
  BY <1>3, <1>5, <1>6
<1>8. \E pos2 \in [Handles -> Nat] :
        Chain(Q \cup {h}, pos2, h, down2, up2) /\ \A k \in Q : pos2[k] = pos[k] /\ pos[k] < pos2[h]
  BY ONLY <1>4, <1>7, Q \in SUBSET Handles, pos \in [Handles -> Nat], h \in Handles \ Q,
     Chain(Q, pos, dq_tail, dq_prev_, dq_next_), ChainPush, Z3
<1> QED
  BY <1>1, <1>2, <1>5, <1>6, <1>8

\* An info goes into the queue. Profilers who may see it are before it.
LEMMA QueueTakes ==
  ASSUME CordzInfoAssumption, CordzInv, NEW c \in Cords, op[c].pc = "queue", dq_tail # None,
         NEW i, i = cordz_info[c], Append(i), op'[c].pc = "untracked", \A d \in Cords \ {c} : op'[d] = op[d],
         UNCHANGED <<cordz_info, new, alive, list, profiler>>
  PROVE  QueueTypes' /\ QueueOk'
<1>1. PICK Q \in SUBSET Handles : PlacesOk(Q) /\ \E pos \in [Handles -> Nat] : QueueIs(Q, pos)
  BY TheQueue
<1>2. PICK pos \in [Handles -> Nat] : QueueIs(Q, pos)
  BY <1>1
<1>3. /\ i \in Infos /\ i \in Handles /\ i \notin Q /\ i \notin Linked /\ i \notin Deleting
      /\ i \notin Profilers
  BY <1>1, OnTheWayIs, OnTheWayIsAlone DEF OnTheWay, PlacesOk, Handles, CordzInfoAssumption
<1>4. Linked' = Linked /\ Leaving' = Leaving \ {i}
  BY LeavingTakes DEF OnTheWay
<1>5. Deleting' = Deleting /\ Active' = Active
  BY DEF Deleting, Active
<1>0. PICK R : R = Q \cup {i}
  OBVIOUS
<1>6. QueueTypes' /\ \E pos2 \in [Handles -> Nat] : /\ Chain(R, pos2, dq_tail', dq_prev_', dq_next_')
                                      /\ \A k \in Q : pos2[k] = pos[k] /\ pos[k] < pos2[i]
  <2>1. Chain(Q, pos, dq_tail, dq_prev_, dq_next_)
    BY <1>2 DEF QueueIs
  <2>2. /\ QueueTypes'
        /\ \E pos2 \in [Handles -> Nat] :
             /\ Chain(Q \cup {i}, pos2, dq_tail', dq_prev_', dq_next_')
             /\ \A k \in Q : pos2[k] = pos[k] /\ pos[k] < pos2[i]
    <3>1. CordzTypes /\ i \in Handles \ Q
      BY <1>3 DEF CordzInv
    <3> QED
      BY ONLY <2>1, <3>1, CordzInfoAssumption, Append(i), Q \in SUBSET Handles, pos \in [Handles -> Nat], Appended
  <2> QED
    BY <1>0, <2>2
<1>7. PICK pos2 \in [Handles -> Nat] : /\ Chain(R, pos2, dq_tail', dq_prev_', dq_next_')
                                       /\ \A k \in Q : pos2[k] = pos[k] /\ pos[k] < pos2[i]
  BY <1>6
<1>8. PlacesOk(R)'
  <2>1. ASSUME NEW d \in Cords, op'[d].pc # "untracked"
        PROVE  cordz_info'[d] \notin R /\ cordz_info'[d] \notin Deleting'
    <3>1. d # c
      BY <2>1
    <3>2. cordz_info[d] # i
      BY <3>1, OnTheWayIs DEF OnTheWay
    <3> QED
      BY <1>0, <1>1, <1>5, <2>1, <3>1, <3>2 DEF PlacesOk
  <2>2. i \in Leaving
    BY <1>3 DEF Leaving, At, OnTheWay, CordzInfoAssumption
  <2>3. alive' = Linked' \cup Leaving' \cup R \cup Deleting'
    BY <1>0, <1>1, <1>4, <1>5, <2>2 DEF PlacesOk
  <2>4. R \cap Profilers = Active' /\ R \cap Deleting' = {}
    BY <1>0, <1>1, <1>3, <1>5 DEF PlacesOk
  <2>5. \A p, q \in Profilers : p # q => profiler'[p].to_delete \cap profiler'[q].to_delete = {}
    BY <1>1 DEF PlacesOk
  <2> QED
    BY <2>1, <2>3, <2>4, <2>5 DEF PlacesOk
<1>9. SnapshotFirst(R, pos2)
  <2>1. PICK h \in Q : TRUE
    BY <1>2 DEF QueueIs, Chain
  <2>2. \A k \in Q : \E p \in Q \cap Profilers : pos[p] =< pos[k]
    BY <1>2 DEF QueueIs, SnapshotFirst
  <2>3. PICK p \in Q \cap Profilers : pos[p] =< pos[h]
    BY <2>1, <2>2
  <2>4. pos2[p] =< pos2[i]
    BY <1>3, <1>7, <2>3
  <2> QED
    BY <1>0, <1>7, <2>2, <2>3, <2>4 DEF SnapshotFirst
<1>10. ASSUME NEW p \in Active' PROVE \E V \in SUBSET Infos : Seen(p, R, pos2, V)'
  <2>1. p \in Active /\ p \in Q /\ p \in Profilers
    BY <1>1, <1>5 DEF PlacesOk
  <2>2. PICK V \in SUBSET Infos : Seen(p, Q, pos, V)
    BY <1>2, <2>1 DEF QueueIs
  <2>3. \A j \in V : j \in Linked' \/ j \in Leaving' \/ (j \in R /\ pos2[p] < pos2[j])
    BY <1>0, <1>4, <1>7, <2>1, <2>2 DEF Seen
  <2>4. Seen(p, R, pos2, V)'
    BY <1>4, <2>2, <2>3 DEF Seen, list
  <2> QED
    BY <2>4
<1>11. QueueIs(R, pos2)'
  BY <1>7, <1>9, <1>10 DEF QueueIs, Chain, SnapshotFirst, Lowest, Highest, Adjacent
<1>12. R \in SUBSET Handles
  BY <1>0, <1>3
<1> QED
  BY <1>6, <1>8, <1>11, <1>12 DEF QueueOk

\* The info goes to the end of the queue, behind the snapshots that may see it.
LEMMA QueueKeeps ==
  ASSUME CordzInfoAssumption, CordzInv, NEW c \in Cords, Queue(c) PROVE CordzInv'
<1>1. CASE dq_tail = None
  BY <1>1, OwnerDeleted DEF Queue, queue
<1>2. CASE dq_tail # None
  <2> DEFINE i == cordz_info[c]
             o == [op[c] EXCEPT !.pc = "untracked"]
  <2>1. /\ i \in Infos \cap alive /\ op[c] \in Places /\ op[c].pc \in Moving /\ op[c].info = i
    BY OnTheWayIs DEF OnTheWay, Queue
  <2>2. /\ op[c].pc = "queue" /\ Append(i) /\ op' = [op EXCEPT ![c] = o]
        /\ UNCHANGED <<cords, reps, handles, rep_, mutex_, list, profiler>>
    BY <1>2, <2>1 DEF Queue, handles
  <2>3. o \in Places /\ o.pc = "untracked" /\ o.info = i /\ o.track = op[c].track /\ o.old = op[c].old
    BY <2>1, MoveOn DEF Moving
  <2> HIDE DEF o
  <2>4. op' \in [Cords -> Places] /\ op'[c] = o /\ \A d \in Cords \ {c} : op'[d] = op[d]
    BY <2>2, <2>3, OpSet DEF CordzInv, CordzTypes, CordTypes
  <2>5. QueueTypes' /\ QueueOk'
    BY <1>2, <2>2, <2>3, <2>4, QueueTakes DEF cords, handles
  <2>6. ListTypes' /\ CordInfosOk' /\ ListOk' /\ \A p \in Profilers : WalkOk(p)'
    <3>1. Linked' = Linked
      BY <2>2, <2>3, <2>4, LeavingTakes DEF OnTheWay, cords
    <3>2. ListOk'
      BY <2>2, <3>1, ListStands DEF CordzInv
    <3>3. ListTypes' /\ CordInfosOk'
      BY <2>2 DEF CordzInv, CordzTypes, ListTypes, CordInfosOk, list, cords, handles
    <3> QED
      BY <2>2, <3>2, <3>3, WalksStand
  <2>7. CordTypes' /\ None \notin Infos
    BY <2>2, <2>4 DEF CordzInv, CordzTypes, CordTypes, cords, reps, handles, CordzInfoAssumption
  <2>8. CordOk(c)' /\ ChangeOk(c)' /\ MutexOk(c)'
    BY <2>1, <2>2, <2>3, <2>4 DEF CordOk, ChangeOk, MutexOk, CordzInv, Resting, Moving, Updating, cords
  <2>9. \A d \in Cords : CordOk(d)' /\ ChangeOk(d)' /\ MutexOk(d)'
    BY <2>2, <2>4, <2>8, CordsStand DEF cords, reps
  <2>10. CountsOk'
    <3>1. \A d \in Cords : OldOf'[d] = OldOf[d]
      BY <2>1, <2>3, <2>4 DEF OldOf, Moving
    <3>2. Owners' = Owners
      BY <2>2, <2>3, <2>4, <2>7, OwnersStand DEF cords, handles
    <3>3. \A j \in Infos : OwnedOf'[j] = OwnedOf[j]
      BY <2>2, <3>2 DEF OwnedOf
    <3>4. \A p \in Profilers : RepOf'[p] = RepOf[p]
      BY <2>2 DEF RepOf
    <3> QED
      BY <2>2, <3>1, <3>3, <3>4, HoldersStand DEF cords, reps
  <2> QED
    BY <2>5, <2>6, <2>7, <2>9, <2>10 DEF CordzInv, CordzTypes
<1> QED
  BY <1>1, <1>2

\* The info is taken out of the list, and where it points to stays.
LEMMA UnlinkMoves ==
  ASSUME CordzInfoAssumption, CordzInv, NEW c \in Cords, Unlink(c),
         op' \in [Cords -> Places], op'[c].pc = "safe", \A d \in Cords \ {c} : op'[d] = op[d]
  PROVE  ListTypes' /\ CordInfosOk' /\ ListOk' /\ QueueOk'
<1> DEFINE i == cordz_info[c]
           next == ci_next_[i]
           prev == ci_prev_[i]
<1>1. /\ i \in Infos \cap alive /\ op[c].pc = "unlink" /\ op[c].info = i
      /\ \A d \in Cords \ {c} : cordz_info[d] # i
  BY OnTheWayIs DEF Unlink
<1>2. /\ ci_prev_' = [j \in Infos |-> IF j = next THEN prev ELSE ci_prev_[j]]
      /\ ci_next_' = [j \in Infos |-> IF j = prev THEN next ELSE ci_next_[j]]
      /\ head' = IF prev = None THEN next ELSE head
      /\ UNCHANGED <<cords, new, alive, queue, profiler>>
  BY <1>1 DEF Unlink, handles
<1>3. next \in Infos \cup {None} /\ prev \in Infos \cup {None} /\ None \notin Infos
  BY <1>1 DEF CordzInv, CordzTypes, ListTypes, CordzInfoAssumption
<1>4. ListTypes'
  BY <1>2, <1>3 DEF CordzInv, CordzTypes, ListTypes
<1>5. i \in Linked
  BY <1>1, <1>3 DEF Linked, At, InList
<1>6. Linked' = Linked \ {i}
  <2>1. Linked' \subseteq Linked \ {i}
    BY <1>1, <1>2 DEF Linked, At, InList, Resting, cords
  <2>2. Linked \ {i} \subseteq Linked'
    BY <1>1, <1>2 DEF Linked, At, InList, Resting, cords
  <2> QED
    BY <2>1, <2>2
<1>7. Leaving' = Leaving \cup {i}
  <2>1. Leaving' \subseteq Leaving \cup {i}
    BY <1>1, <1>2 DEF Leaving, At, OnTheWay, cords
  <2>2. Leaving \cup {i} \subseteq Leaving'
    BY <1>1, <1>2, <1>3 DEF Leaving, At, OnTheWay, cords
  <2> QED
    BY <2>1, <2>2
<1>8. Linked \subseteq Infos
  BY DEF Linked, At, CordzInv, CordzTypes, CordTypes
<1>9. PICK at \in [Infos -> Nat] : Chain(Linked, at, head, ci_next_, ci_prev_)
  BY DEF CordzInv, ListOk
<1>10. Between(Linked, at, {i}, next, prev)
  BY ONLY <1>3, <1>5, <1>8, <1>9, BetweenOne
<1> HIDE DEF i
<1>11. ListOk'
  <2>1. Taken(Linked, {i}, next, prev, ci_next_, ci_prev_, ci_next_', ci_prev_')
    BY <1>2, <1>8 DEF Taken
  <2> HIDE DEF next, prev
  <2>2. Chain(Linked \ {i}, at, IF prev = None THEN next ELSE head, ci_next_', ci_prev_')
    BY ONLY <1>3, <1>8, <1>9, <1>10, <2>1, ChainTake
  <2>3. Chain(Linked', at, head', ci_next_', ci_prev_')
    BY <1>2, <1>6, <2>2
  <2> QED
    BY <2>3 DEF ListOk, Chain, Lowest, Highest, Adjacent
<1>12. next \in Linked \cup {None} /\ prev \in Linked \cup {None}
  BY <1>5, <1>9 DEF Chain
<1>13. \A j \in Linked : j \notin new
  BY DEF Linked, At, CordzInv, CordInfosOk
<1>14. CordInfosOk'
  BY <1>2, <1>3, <1>12, <1>13 DEF CordInfosOk, CordzInv, CordzTypes, CordTypes, cords
<1>15. QueueOk'
  <2>1. PICK Q \in SUBSET Handles : PlacesOk(Q) /\ \E pos \in [Handles -> Nat] : QueueIs(Q, pos)
    BY TheQueue
  <2>2. PICK pos \in [Handles -> Nat] : QueueIs(Q, pos)
    BY <2>1
  <2>3. Deleting' = Deleting /\ Active' = Active
    BY <1>2 DEF Deleting, Active
  <2>4. PlacesOk(Q)'
    <3>1. \A d \in Cords : op'[d].pc # "untracked" => op[d].pc # "untracked" /\ cordz_info'[d] = cordz_info[d]
      BY <1>1, <1>2 DEF cords
    <3>2. alive' = Linked' \cup Leaving' \cup Q \cup Deleting'
      BY <1>2, <1>5, <1>6, <1>7, <2>1, <2>3 DEF PlacesOk
    <3> QED
      BY <1>2, <2>1, <2>3, <3>1, <3>2 DEF PlacesOk
  <2>5. ASSUME NEW p \in Active' PROVE \E V \in SUBSET Infos : Seen(p, Q, pos, V)'
    <3>1. p \in Active
      BY <2>3
    <3>2. PICK V \in SUBSET Infos : Seen(p, Q, pos, V)
      BY <2>2, <3>1 DEF QueueIs
    <3>3. i \in V /\ next \in V \cup {None}
      BY <1>5, <3>2 DEF Seen
    <3>4. \A j \in V : ci_next_'[j] \in V \cup {None}
      BY <1>2, <3>2, <3>3 DEF Seen
    <3>5. Seen(p, Q, pos, V)'
      BY <1>2, <1>6, <1>7, <3>2, <3>4 DEF Seen
    <3> QED
      BY <3>5
  <2>6. QueueIs(Q, pos)'
    BY <1>2, <2>2, <2>5 DEF QueueIs, Chain, SnapshotFirst, Lowest, Highest, Adjacent, queue
  <2> QED
    BY <2>4, <2>6 DEF QueueOk
<1> QED
  BY <1>4, <1>11, <1>14, <1>15

\* The info is taken out of the list. A profiler that is at it still gets on from there.
LEMMA UnlinkKeeps ==
  ASSUME CordzInfoAssumption, CordzInv, NEW c \in Cords, Unlink(c) PROVE CordzInv'
<1> DEFINE i == cordz_info[c]
           o == [op[c] EXCEPT !.pc = "safe"]
<1>1. /\ op[c].pc = "unlink" /\ op' = [op EXCEPT ![c] = o]
      /\ UNCHANGED <<cords, reps, handles, rep_, mutex_, queue, profiler>>
  BY DEF Unlink
<1>2. op[c] \in Places /\ op[c].pc \in Moving /\ op[c].info = i
  BY <1>1, OnTheWayIs
<1>3. o \in Places /\ o.pc = "safe" /\ o.info = i /\ o.track = op[c].track /\ o.old = op[c].old
  BY <1>2, MoveOn DEF Moving
<1> HIDE DEF o
<1>4. op' \in [Cords -> Places] /\ op'[c] = o /\ \A d \in Cords \ {c} : op'[d] = op[d]
  BY <1>1, <1>3, OpSet DEF CordzInv, CordzTypes, CordTypes
<1>5. ListTypes' /\ CordInfosOk' /\ ListOk' /\ QueueOk'
  BY <1>3, <1>4, UnlinkMoves
<1>6. CordTypes' /\ QueueTypes' /\ None \notin Infos
  BY <1>1, <1>4 DEF CordzInv, CordzTypes, CordTypes, QueueTypes, cords, reps, handles, queue, CordzInfoAssumption
<1>7. CordOk(c)' /\ ChangeOk(c)' /\ MutexOk(c)'
  BY <1>1, <1>2, <1>3, <1>4 DEF CordOk, ChangeOk, MutexOk, CordzInv, Resting, Moving, Updating, cords
<1>8. \A d \in Cords : CordOk(d)' /\ ChangeOk(d)' /\ MutexOk(d)'
  BY <1>1, <1>4, <1>7, CordsStand DEF cords, reps
<1>9. CountsOk'
  <2>1. \A d \in Cords : OldOf'[d] = OldOf[d]
    BY <1>2, <1>3, <1>4 DEF OldOf, Moving
  <2>2. Owners' = Owners
    BY <1>1, <1>3, <1>4, <1>6, OwnersStand DEF cords, handles
  <2>3. \A j \in Infos : OwnedOf'[j] = OwnedOf[j]
    BY <1>1, <2>2 DEF OwnedOf
  <2>4. \A p \in Profilers : RepOf'[p] = RepOf[p]
    BY <1>1 DEF RepOf
  <2> QED
    BY <1>1, <2>1, <2>3, <2>4, HoldersStand DEF cords, reps
<1> QED
  BY <1>1, <1>5, <1>6, <1>8, <1>9, WalksStand DEF CordzInv, CordzTypes

-----------------------------------------------------------------------------
(* Steps of a cord that put an info into the list.                         *)

\* The first address that was not used belongs to the cord now.
LEMMA TrackMoves ==
  ASSUME CordzInfoAssumption, CordzInv, NEW c \in Cords, NEW r \in Reps, Track(c, r),
         op' \in [Cords -> Places], op'[c].pc = "idle", \A d \in Cords \ {c} : op'[d] = op[d],
         cordz_info[c] = None \/ op[c].pc = "untracked", UNCHANGED <<queue, profiler>>
  PROVE  /\ ListTypes' /\ CordInfosOk' /\ ListOk' /\ QueueOk'
         /\ new' \in SUBSET Infos /\ alive' \in SUBSET Handles
         /\ rep_' \in [Infos -> Reps \cup {None}] /\ cordz_info' \in [Cords -> Infos \cup {None}]
         /\ cordz_info'[c] \in Infos /\ rep_'[cordz_info'[c]] = r
         /\ \A i \in Infos : mutex_[i] # None => cordz_info'[c] # i
         /\ \A d \in Cords \ {c} : cordz_info'[d] = cordz_info[d] /\ cordz_info'[d] # cordz_info'[c]
         /\ \A d \in Cords \ {c} : cordz_info[d] # None => rep_'[cordz_info[d]] = rep_[cordz_info[d]]
         /\ \A i \in Infos : OwnedOf'[i] = OwnedOf[i]
<1>0. PICK i : i = First(new)
  OBVIOUS
<1>1. i \in new
  BY <1>0, FirstIsOne DEF Track, CordzInv, CordzTypes, CordTypes, CordzInfoAssumption
<1>2. /\ new' = new \ {i} /\ alive' = alive \cup {i}
      /\ rep_' = [rep_ EXCEPT ![i] = r]
      /\ cordz_info' = [cordz_info EXCEPT ![c] = i]
      /\ ci_prev_' = [j \in Infos |-> IF j = head THEN i ELSE ci_prev_[j]]
      /\ ci_next_' = [ci_next_ EXCEPT ![i] = head]
      /\ head' = i
  BY <1>0 DEF Track
<1>3. /\ i \in Infos /\ i \in Handles /\ i \notin alive /\ None \notin Infos /\ i # None
      /\ \A d \in Cords : cordz_info[d] # i
  BY <1>1 DEF CordzInv, CordzTypes, CordTypes, CordInfosOk, Handles, CordzInfoAssumption
<1>4. cordz_info'[c] = i /\ \A d \in Cords \ {c} : cordz_info'[d] = cordz_info[d]
  BY <1>2 DEF CordzInv, CordzTypes, CordTypes
<1>5. /\ ListTypes' /\ new' \in SUBSET Infos /\ alive' \in SUBSET Handles
      /\ rep_' \in [Infos -> Reps \cup {None}] /\ cordz_info' \in [Cords -> Infos \cup {None}]
      /\ rep_'[i] = r /\ \A j \in Infos \ {i} : rep_'[j] = rep_[j]
  BY <1>2, <1>3 DEF CordzInv, CordzTypes, CordTypes, ListTypes
<1>6. Linked' = Linked \cup {i} /\ i \notin Linked
  <2>1. Linked' \subseteq Linked \cup {i}
    BY <1>4 DEF Linked, At, InList
  <2>2. Linked \cup {i} \subseteq Linked'
    <3>1. i \in Linked'
      BY <1>3, <1>4 DEF Linked, At, InList, Resting
    <3>2. Linked \subseteq Linked'
      BY <1>4 DEF Linked, At, InList, Resting
    <3> QED
      BY <3>1, <3>2
  <2>3. i \notin Linked
    BY <1>3 DEF Linked, At
  <2> QED
    BY <2>1, <2>2, <2>3
<1>7. Leaving' = Leaving
  <2>1. Leaving' \subseteq Leaving
    BY <1>4 DEF Leaving, At, OnTheWay
  <2>2. Leaving \subseteq Leaving'
    BY <1>4 DEF Leaving, At, OnTheWay
  <2> QED
    BY <2>1, <2>2
<1>8. PICK at \in [Infos -> Nat] : Chain(Linked, at, head, ci_next_, ci_prev_)
  BY DEF CordzInv, ListOk
<1>9. Linked \in SUBSET Infos
  BY DEF Linked, At, CordzInv, CordzTypes, CordTypes
<1>10. head \in Linked \cup {None} /\ \A j \in Linked : j \notin new
  BY <1>8 DEF Chain, Linked, At, CordzInv, CordInfosOk
<1>11. ListOk'
  <2>1. ci_prev_[i] = None
    BY <1>1 DEF CordzInv, CordInfosOk
  <2>2. Pushed(Linked, head, ci_next_, ci_prev_, i, ci_next_', ci_prev_')
    BY <1>2, <1>3, <1>6, <1>9, <1>10, <2>1 DEF Pushed, CordzInv, CordzTypes, ListTypes
  <2>3. PICK at2 \in [Infos -> Nat] : Chain(Linked \cup {i}, at2, i, ci_next_', ci_prev_')
    BY ONLY <1>3, <1>6, <1>8, <1>9, <2>2, ChainPush
  <2>4. Chain(Linked', at2, head', ci_next_', ci_prev_')
    BY <1>2, <1>6, <2>3
  <2> QED
    BY <2>4 DEF ListOk, Chain, Lowest, Highest, Adjacent
<1>12. CordInfosOk'
  <2>1. \A d, e \in Cords : cordz_info'[d] = cordz_info'[e] /\ cordz_info'[d] # None => d = e
    BY <1>3, <1>4 DEF CordzInv, CordInfosOk
  <2>2. \A d \in Cords : cordz_info'[d] \notin new'
    BY <1>2, <1>4 DEF CordzInv, CordInfosOk
  <2>3. ASSUME NEW j \in new' PROVE ci_prev_'[j] = None
    <3>1. j \in new /\ j \in Infos /\ ci_prev_[j] = None
      BY <1>2, <1>5 DEF CordzInv, CordInfosOk
    <3>2. j # head
      BY <1>3, <1>10, <3>1
    <3> QED
      BY <1>2, <3>1, <3>2
  <2>4. new' \cap alive' = {}
    BY <1>2 DEF CordzInv, CordInfosOk
  <2> QED
    BY <2>1, <2>2, <2>3, <2>4 DEF CordInfosOk
<1>13. QueueOk'
  <2>1. PICK Q \in SUBSET Handles : PlacesOk(Q) /\ \E pos \in [Handles -> Nat] : QueueIs(Q, pos)
    BY TheQueue
  <2>2. PICK pos \in [Handles -> Nat] : QueueIs(Q, pos)
    BY <2>1
  <2>3. Deleting' = Deleting /\ Active' = Active
    BY DEF Deleting, Active
  <2>4. PlacesOk(Q)'
    <3>1. ASSUME NEW d \in Cords, op'[d].pc # "untracked"
          PROVE  cordz_info'[d] \notin Q /\ cordz_info'[d] \notin Deleting'
      <4>1. CASE d = c
        BY <1>3, <1>4, <2>1, <2>3, <4>1 DEF PlacesOk
      <4>2. CASE d # c
        BY <1>4, <2>1, <2>3, <3>1, <4>2 DEF PlacesOk
      <4> QED
        BY <4>1, <4>2
    <3>2. alive' = Linked' \cup Leaving' \cup Q \cup Deleting'
      BY <1>2, <1>6, <1>7, <2>1, <2>3 DEF PlacesOk
    <3>3. /\ \A p, q \in Profilers : p # q => profiler'[p].to_delete \cap profiler'[q].to_delete = {}
          /\ Q \cap Deleting' = {} /\ Q \cap Profilers = Active'
      BY <2>1, <2>3 DEF PlacesOk
    <3> QED
      BY <3>1, <3>2, <3>3 DEF PlacesOk
  <2>5. ASSUME NEW p \in Active' PROVE \E V \in SUBSET Infos : Seen(p, Q, pos, V)'
    <3>1. p \in Active
      BY <2>3
    <3>2. PICK V \in SUBSET Infos : Seen(p, Q, pos, V)
      BY <2>2, <3>1 DEF QueueIs
    <3>3. PICK W : W = V \cup {i}
      OBVIOUS
    <3>4. W \in SUBSET Infos /\ Linked' \subseteq W
      BY <1>3, <1>6, <3>2, <3>3 DEF Seen
    <3>5. profiler'[p].at # None => profiler'[p].at \in W
      BY <3>2, <3>3 DEF Seen
    <3>6. \A j \in W : ci_next_'[j] \in W \cup {None}
      BY <1>2, <1>3, <1>10, <3>2, <3>3 DEF Seen, CordzInv, CordzTypes, ListTypes
    <3>7. \A j \in W : j \in Linked' \/ j \in Leaving' \/ (j \in Q /\ pos[p] < pos[j])
      BY <1>6, <1>7, <3>2, <3>3 DEF Seen
    <3>8. Seen(p, Q, pos, W)'
      BY <3>4, <3>5, <3>6, <3>7 DEF Seen
    <3> QED
      BY <3>4, <3>8
  <2>6. QueueIs(Q, pos)'
    BY <2>2, <2>5 DEF QueueIs, Chain, SnapshotFirst, Lowest, Highest, Adjacent, queue
  <2> QED
    BY <2>4, <2>6 DEF QueueOk
<1>14. \A j \in Infos : mutex_[j] # None => cordz_info'[c] # j
  BY <1>3, <1>4 DEF CordzInv, CordzTypes, CordTypes, MutexOk
<1>15. \A d \in Cords \ {c} : cordz_info[d] # None => rep_'[cordz_info[d]] = rep_[cordz_info[d]]
  BY <1>3, <1>5 DEF CordzInv, CordzTypes, CordTypes
<1>16. \A j \in Infos : OwnedOf'[j] = OwnedOf[j]
  <2>1. i \notin Owners /\ i \notin Owners'
    BY <1>3, <1>4 DEF Owners
  <2>2. Owners' \subseteq Owners
    BY <1>2, <1>3, <1>4, <2>1 DEF Owners
  <2>3. Owners \subseteq Owners'
    BY <1>2, <1>3, <1>4, <2>1 DEF Owners
  <2> QED
    BY <1>5, <2>1, <2>2, <2>3 DEF OwnedOf
<1> QED
  BY <1>3, <1>4, <1>5, <1>11, <1>12, <1>13, <1>14, <1>15, <1>16

\* A cord without a tree gets one, and an info or none.
LEMMA CordCreated ==
  ASSUME CordzInfoAssumption, CordzInv, NEW c \in Cords, NEW r \in Reps, op[c] = Idle, tree[c] = None,
         tree' = [tree EXCEPT ![c] = r], Ref(r),
         Track(c, r) \/ UNCHANGED <<cordz_info, handles, rep_, list>>,
         UNCHANGED <<mutex_, queue, op, profiler>>,
         \A d \in Cords : op[d].pc = "change" => tree[d] # r
  PROVE  CordzInv'
<1>1. /\ op[c].pc = "idle" /\ cordz_info[c] = None /\ op[c] \in Places
      /\ refcount \in [Reps -> Nat] /\ None \notin Reps /\ None \notin Infos /\ None \notin Cords
  BY DEF Idle, CordzInv, CordzTypes, CordTypes, CordOk, CordzInfoAssumption
<1>2. \A d \in Cords : op'[d] = op[d]
  OBVIOUS
<1>3. tree'[c] = r /\ (\A d \in Cords \ {c} : tree'[d] = tree[d]) /\ tree' \in [Cords -> Reps \cup {None}]
  BY DEF CordzInv, CordzTypes, CordTypes
<1>4. /\ refcount' \in [Reps -> Nat]
      /\ \A s \in Reps : refcount'[s] = refcount[s] + One(r, s)
      /\ disturbed' = disturbed \cup {p \in Profilers : profiler[p].rep \in {s \in Reps : refcount[s] > 0 /\ refcount'[s] = 0}}
  BY <1>1 DEF Ref, Recount, Changed, One
<1>5. /\ ListTypes' /\ CordInfosOk' /\ ListOk' /\ QueueOk'
      /\ new' \in SUBSET Infos /\ alive' \in SUBSET Handles
      /\ rep_' \in [Infos -> Reps \cup {None}] /\ cordz_info' \in [Cords -> Infos \cup {None}]
      /\ cordz_info'[c] # None => rep_'[cordz_info'[c]] = r
      /\ \A i \in Infos : mutex_[i] # None => cordz_info'[c] # i
      /\ \A d \in Cords \ {c} : cordz_info'[d] = cordz_info[d]
      /\ \A d \in Cords \ {c} : cordz_info[d] # None => rep_'[cordz_info[d]] = rep_[cordz_info[d]]
      /\ \A i \in Infos : OwnedOf'[i] = OwnedOf[i]
  <2>1. CASE Track(c, r)
    <3>1. op' \in [Cords -> Places]
      BY DEF CordzInv, CordzTypes, CordTypes
    <3> QED
      BY <1>1, <2>1, <3>1, TrackMoves
  <2>2. CASE UNCHANGED <<cordz_info, handles, rep_, list>>
    <3>1. op' = [op EXCEPT ![c] = op[c]]
      BY DEF CordzInv, CordzTypes, CordTypes
    <3>2. ListTypes' /\ CordInfosOk' /\ ListOk' /\ QueueOk'
      BY <1>1, <2>2, <3>1, InPlace DEF handles
    <3>3. Owners' = Owners
      BY <1>1, <2>2, OwnersStand DEF handles
    <3>4. \A i \in Infos : OwnedOf'[i] = OwnedOf[i]
      BY <2>2, <3>3 DEF OwnedOf
    <3> QED
      BY <1>1, <2>2, <3>2, <3>4 DEF CordzInv, CordzTypes, CordTypes, handles
  <2> QED
    BY <2>1, <2>2
<1>6. CountsOk'
  <2>1. \A d \in Cords : OldOf'[d] = OldOf[d]
    BY DEF OldOf
  <2>2. \A p \in Profilers : RepOf'[p] = RepOf[p]
    BY DEF RepOf
  <2>3. \A s \in Reps : refcount'[s] = refcount[s] - One(tree[c], s) + One(tree'[c], s)
                                       - One(OldOf[c], s) + One(OldOf'[c], s)
    BY <1>1, <1>3, <1>4, <2>1 DEF One
  <2> QED
    BY <1>3, <1>5, <2>1, <2>2, <2>3, CountsOfCord
<1>7. CordTypes' /\ QueueTypes'
  <2>1. disturbed' = {}
    BY <1>4, <1>6, NoneDisturbed DEF CordzInv, CordzTypes, RepOf
  <2> QED
    BY <1>3, <1>4, <1>5, <2>1 DEF CordzInv, CordzTypes, CordTypes, QueueTypes, queue
<1>8. CordOk(c)' /\ ChangeOk(c)' /\ MutexOk(c)'
  <2>1. MutexOk(c)
    BY DEF CordzInv
  <2>2. CordOk(c)' /\ ChangeOk(c)'
    BY <1>1, <1>3, <1>5 DEF CordOk, ChangeOk, Resting, Moving
  <2>3. MutexOk(c)'
    BY <1>1, <1>5, <2>1 DEF MutexOk, Updating
  <2> QED
    BY <2>2, <2>3
<1>9. \A d \in Cords \ {c} : op[d].pc = "change" => refcount'[tree[d]] = refcount[tree[d]]
  <2> SUFFICES ASSUME NEW d \in Cords \ {c}, op[d].pc = "change" PROVE refcount'[tree[d]] = refcount[tree[d]]
    OBVIOUS
  <2>1. tree[d] \in Reps /\ refcount[tree[d]] = 1 /\ r # tree[d]
    BY SoleHolder
  <2> QED
    BY <1>4, <2>1 DEF One
<1>10. \A d \in Cords : CordOk(d)' /\ ChangeOk(d)' /\ MutexOk(d)'
  BY <1>3, <1>5, <1>8, <1>9, CordsStand
<1> QED
  BY <1>5, <1>6, <1>7, <1>10, WalksStand DEF CordzInv, CordzTypes

\* A cord gets a new tree, sampled or not.
LEMMA CreateKeeps ==
  ASSUME CordzInfoAssumption, CordzInv, NEW c \in Cords, Create(c) PROVE CordzInv'
<1>1. PICK r : r = First(Free)
  OBVIOUS
<1>2. r \in Reps /\ refcount[r] = 0
  BY <1>1, FirstIsOne DEF Create, Free, CordzInfoAssumption
<1>3. /\ op[c] = Idle /\ tree[c] = None /\ tree' = [tree EXCEPT ![c] = r] /\ Ref(r)
      /\ Track(c, r) \/ UNCHANGED <<cordz_info, handles, rep_, list>>
      /\ UNCHANGED <<mutex_, queue, op, profiler>>
  BY <1>1 DEF Create, MayChange
<1>4. \A d \in Cords : op[d].pc = "change" => tree[d] # r
  BY <1>2 DEF CordzInv, ChangeOk
<1> QED
  BY <1>2, <1>3, <1>4, CordCreated

\* A cord gets the tree of another, sampled if that is.
LEMMA CopyKeeps ==
  ASSUME CordzInfoAssumption, CordzInv, NEW c \in Cords, NEW from \in Cords, Copy(c, from) PROVE CordzInv'
<1>1. PICK r : r = tree[from]
  OBVIOUS
<1>2. r \in Reps
  BY <1>1 DEF Copy, CordzInv, CordzTypes, CordTypes
<1>3. /\ op[c] = Idle /\ tree[c] = None /\ tree' = [tree EXCEPT ![c] = r] /\ Ref(r)
      /\ Track(c, r) \/ UNCHANGED <<cordz_info, handles, rep_, list>>
      /\ UNCHANGED <<mutex_, queue, op, profiler>>
  BY <1>1 DEF Copy, MayChange
<1>4. \A d \in Cords : op[d].pc = "change" => tree[d] # r
  <2> SUFFICES ASSUME NEW d \in Cords, op[d].pc = "change" PROVE tree[d] # r
    OBVIOUS
  <2>1. d # from
    BY DEF Copy, Idle
  <2> QED
    BY <1>1, <2>1, SoleHolder
<1> QED
  BY <1>2, <1>3, <1>4, CordCreated

\* The thread forgets the info.
LEMMA ForgetMoves ==
  ASSUME CordzInfoAssumption, CordzInv, NEW c \in Cords, op[c].pc = "untracked",
         cordz_info' = [cordz_info EXCEPT ![c] = None],
         op' \in [Cords -> Places], op'[c].pc = "idle", \A d \in Cords \ {c} : op'[d] = op[d],
         UNCHANGED <<new, alive, rep_, list, queue, profiler>>
  PROVE  /\ CordInfosOk' /\ ListOk' /\ QueueOk' /\ \A i \in Infos : OwnedOf'[i] = OwnedOf[i]
         /\ cordz_info'[c] = None /\ \A d \in Cords \ {c} : cordz_info'[d] = cordz_info[d]
<1>1. cordz_info'[c] = None /\ \A d \in Cords \ {c} : cordz_info'[d] = cordz_info[d]
  BY DEF CordzInv, CordzTypes, CordTypes
<1>2. None \notin Infos /\ None \notin Profilers
  BY DEF CordzInfoAssumption
<1>3. CordInfosOk'
  BY <1>1, <1>2 DEF CordzInv, CordzTypes, CordTypes, CordInfosOk, list
<1>4. Linked' = Linked
  <2>1. Linked' \subseteq Linked
    BY <1>1 DEF Linked, At
  <2>2. Linked \subseteq Linked'
    BY <1>1 DEF Linked, At, InList, Resting
  <2> QED
    BY <2>1, <2>2
<1>5. Leaving' = Leaving
  <2>1. Leaving' \subseteq Leaving
    BY <1>1 DEF Leaving, At
  <2>2. Leaving \subseteq Leaving'
    BY <1>1 DEF Leaving, At, OnTheWay
  <2> QED
    BY <2>1, <2>2
<1>6. ListOk'
  BY <1>4, ListStands DEF CordzInv
<1>7. QueueOk'
  <2>1. PICK Q \in SUBSET Handles : PlacesOk(Q) /\ \E pos \in [Handles -> Nat] : QueueIs(Q, pos)
    BY TheQueue
  <2>2. PICK pos \in [Handles -> Nat] : QueueIs(Q, pos)
    BY <2>1
  <2>3. Deleting' = Deleting /\ Active' = Active
    BY DEF Deleting, Active
  <2>4. None \notin Q /\ None \notin Deleting
    BY <1>2, <2>1 DEF Handles, Deleting, CordzInv, CordzTypes, CordTypes, Walks
  <2>5. \A d \in Cords : op'[d].pc # "untracked" => cordz_info'[d] \notin Q /\ cordz_info'[d] \notin Deleting'
    BY <1>1, <2>1, <2>3, <2>4 DEF PlacesOk
  <2>6. PlacesOk(Q)'
    BY <1>4, <1>5, <2>1, <2>3, <2>5 DEF PlacesOk
  <2>7. ASSUME NEW p \in Active' PROVE \E V \in SUBSET Infos : Seen(p, Q, pos, V)'
    <3>1. PICK V \in SUBSET Infos : Seen(p, Q, pos, V)
      BY <2>2, <2>3 DEF QueueIs
    <3>2. Seen(p, Q, pos, V)'
      BY <1>4, <1>5, <3>1 DEF Seen, list
    <3> QED
      BY <3>2
  <2>8. QueueIs(Q, pos)'
    BY <2>2, <2>7 DEF QueueIs, Chain, SnapshotFirst, Lowest, Highest, Adjacent, queue
  <2> QED
    BY <2>6, <2>8 DEF QueueOk
<1>8. \A i \in Infos : OwnedOf'[i] = OwnedOf[i]
  <2>1. Owners' \subseteq Owners
    BY <1>1 DEF Owners
  <2>2. Owners \subseteq Owners'
    BY <1>1, <1>2 DEF Owners
  <2> QED
    BY <2>1, <2>2 DEF OwnedOf
<1> QED
  BY <1>1, <1>3, <1>6, <1>7, <1>8

\* The old tree is given back, and a new info comes to the head of the list or none.
LEMMA UntrackedKeeps ==
  ASSUME CordzInfoAssumption, CordzInv, NEW c \in Cords, Untracked(c) PROVE CordzInv'
<1> DEFINE n == op[c].old
<1>1. /\ op[c].pc = "untracked" /\ op' = [op EXCEPT ![c] = Idle] /\ UNCHANGED <<tree, mutex_, queue, profiler>>
      /\ IF n = None THEN UNCHANGED reps ELSE Unref(n)
  BY DEF Untracked
<1>2. /\ n \in Reps \cup {None} /\ op[c].track \in BOOLEAN /\ (op[c].track => tree[c] # None)
      /\ refcount \in [Reps -> Nat] /\ None \notin Reps /\ None \notin Infos /\ None \notin Cords
      /\ OldOf[c] = n
  BY <1>1, ThePlaces DEF CordzInv, CordzTypes, CordTypes, CordOk, Moving, CordzInfoAssumption, OldOf
<1>3. Idle \in Places /\ Idle.pc = "idle"
  BY DEF Idle, Places, Rests, Resting
<1>4. op' \in [Cords -> Places] /\ op'[c] = Idle /\ \A d \in Cords \ {c} : op'[d] = op[d]
  BY <1>1, <1>3, OpSet DEF CordzInv, CordzTypes, CordTypes
<1>5. /\ ListTypes' /\ CordInfosOk' /\ ListOk' /\ QueueOk'
      /\ new' \in SUBSET Infos /\ alive' \in SUBSET Handles
      /\ rep_' \in [Infos -> Reps \cup {None}] /\ cordz_info' \in [Cords -> Infos \cup {None}]
      /\ cordz_info'[c] # None => tree[c] # None /\ rep_'[cordz_info'[c]] = tree[c]
      /\ \A i \in Infos : mutex_[i] # None => cordz_info'[c] # i
      /\ \A d \in Cords \ {c} : cordz_info'[d] = cordz_info[d]
      /\ \A d \in Cords \ {c} : cordz_info[d] # None => rep_'[cordz_info[d]] = rep_[cordz_info[d]]
      /\ \A i \in Infos : OwnedOf'[i] = OwnedOf[i]
  <2>1. CASE op[c].track
    <3>1. Track(c, tree[c]) /\ tree[c] \in Reps
      BY <1>2, <2>1 DEF Untracked, CordzInv, CordzTypes, CordTypes
    <3> QED
      BY <1>1, <1>2, <1>3, <1>4, <2>1, <3>1, TrackMoves
  <2>2. CASE ~op[c].track
    <3>1. cordz_info' = [cordz_info EXCEPT ![c] = None] /\ UNCHANGED <<handles, rep_, list>>
      BY <2>2 DEF Untracked
    <3>2. /\ CordInfosOk' /\ ListOk' /\ QueueOk' /\ \A i \in Infos : OwnedOf'[i] = OwnedOf[i]
          /\ cordz_info'[c] = None /\ \A d \in Cords \ {c} : cordz_info'[d] = cordz_info[d]
      BY <1>1, <1>3, <1>4, <3>1, ForgetMoves DEF handles
    <3> QED
      BY <1>2, <3>1, <3>2 DEF CordzInv, CordzTypes, CordTypes, ListTypes, handles, list
  <2> QED
    BY <1>2, <2>1, <2>2
<1>6. n # None => refcount[n] >= 1
  BY <1>2, HeldIsCounted DEF CordzInv
<1> HIDE DEF n
<1>7. /\ refcount' \in [Reps -> Nat]
      /\ \A r \in Reps : refcount'[r] = refcount[r] - One(n, r)
      /\ disturbed' = disturbed \cup {p \in Profilers : profiler[p].rep \in {r \in Reps : refcount[r] > 0 /\ refcount'[r] = 0}}
  <2>1. CASE n = None
    BY <1>1, <1>2, <2>1 DEF reps, One
  <2>2. CASE n # None
    <3>1. refcount' = [refcount EXCEPT ![n] = @ - 1]
      BY <1>1, <2>2 DEF Unref, Recount
    <3>2. disturbed' = disturbed \cup {p \in Profilers : profiler[p].rep \in {r \in Reps : refcount[r] > 0 /\ refcount'[r] = 0}}
      BY <1>1, <2>2 DEF Unref, Recount, Changed
    <3> QED
      BY <1>2, <1>6, <2>2, <3>1, <3>2 DEF One
  <2> QED
    BY <2>1, <2>2
<1>8. OldOf'[c] = None
  BY <1>3, <1>4 DEF OldOf, Moving
<1>9. CountsOk'
  <2>1. \A d \in Cords \ {c} : OldOf'[d] = OldOf[d]
    BY <1>4, OldStands
  <2>2. \A p \in Profilers : RepOf'[p] = RepOf[p]
    BY <1>1 DEF RepOf
  <2>3. \A r \in Reps : refcount'[r] = refcount[r] - One(tree[c], r) + One(tree'[c], r)
                                       - One(OldOf[c], r) + One(OldOf'[c], r)
    BY <1>1, <1>2, <1>7, <1>8 DEF One
  <2> QED
    BY <1>1, <1>5, <2>1, <2>2, <2>3, CountsOfCord
<1>10. CordTypes' /\ QueueTypes'
  <2>1. disturbed' = {}
    BY <1>1, <1>7, <1>9, NoneDisturbed DEF CordzInv, CordzTypes, RepOf
  <2> QED
    BY <1>1, <1>4, <1>5, <1>7, <2>1 DEF CordzInv, CordzTypes, CordTypes, QueueTypes, queue
<1>11. CordOk(c)' /\ ChangeOk(c)' /\ MutexOk(c)'
  <2>1. MutexOk(c)
    BY DEF CordzInv
  <2>2. CordOk(c)' /\ ChangeOk(c)'
    BY <1>1, <1>3, <1>4, <1>5 DEF CordOk, ChangeOk, Resting, Moving
  <2>3. MutexOk(c)'
    BY <1>1, <1>3, <1>4, <1>5, <2>1 DEF MutexOk, Updating
  <2> QED
    BY <2>2, <2>3
<1>12. \A d \in Cords \ {c} : op[d].pc = "change" => refcount'[tree[d]] = refcount[tree[d]]
  <2> SUFFICES ASSUME NEW d \in Cords \ {c}, op[d].pc = "change" PROVE refcount'[tree[d]] = refcount[tree[d]]
    OBVIOUS
  <2>1. tree[d] \in Reps /\ refcount[tree[d]] = 1 /\ n # tree[d]
    BY <1>2, SoleHolder
  <2> QED
    BY <1>7, <2>1 DEF One
<1>13. \A d \in Cords : CordOk(d)' /\ ChangeOk(d)' /\ MutexOk(d)'
  BY <1>1, <1>4, <1>5, <1>11, <1>12, CordsStand
<1> QED
  BY <1>1, <1>5, <1>9, <1>10, <1>13, WalksStand DEF CordzInv, CordzTypes

-----------------------------------------------------------------------------
(* Steps of a profiler.                                                    *)

\* It leaves the list and the cords alone.
LEMMA ProfilerMoves ==
  ASSUME CordzInfoAssumption, CordzInv, NEW p \in Profilers, NEW w \in Walks,
         profiler' = [profiler EXCEPT ![p] = w], UNCHANGED <<cords, new, rep_, mutex_, list, op>>,
         alive' \subseteq alive \cup {p}, alive' \in SUBSET Handles
  PROVE  /\ ListTypes' /\ CordInfosOk' /\ ListOk'
         /\ Linked' = Linked /\ Leaving' = Leaving
         /\ \A c \in Cords : OldOf'[c] = OldOf[c]
         /\ profiler' \in [Profilers -> Walks] /\ profiler'[p] = w
         /\ \A q \in Profilers \ {p} : profiler'[q] = profiler[q] /\ RepOf'[q] = RepOf[q]
         /\ RepOf[p] = profiler[p].rep /\ RepOf'[p] = w.rep
<1>1. ListTypes'
  BY DEF CordzInv, CordzTypes, ListTypes, list
<1>2. p \notin Infos /\ new \subseteq Infos
  BY DEF CordzInfoAssumption, CordzInv, CordzTypes, CordTypes
<1>3. CordInfosOk'
  BY <1>2 DEF CordzInv, CordInfosOk, cords, list
<1>4. Linked' = Linked /\ Leaving' = Leaving
  BY AtStands DEF Linked, Leaving, cords
<1>5. ListOk'
  BY <1>4, ListStands DEF CordzInv
<1>6. \A c \in Cords : OldOf'[c] = OldOf[c]
  BY DEF OldOf
<1>7. profiler' \in [Profilers -> Walks] /\ profiler'[p] = w /\ \A q \in Profilers \ {p} : profiler'[q] = profiler[q]
  BY DEF CordzInv, CordzTypes, CordTypes
<1>8. RepOf[p] = profiler[p].rep /\ RepOf'[p] = w.rep /\ \A q \in Profilers \ {p} : RepOf'[q] = RepOf[q]
  BY <1>7 DEF RepOf
<1> QED
  BY <1>1, <1>3, <1>4, <1>5, <1>6, <1>7, <1>8

\* The cords see none of it.
LEMMA CordsSeeNothing ==
  ASSUME CordzInfoAssumption, CordzInv, UNCHANGED <<cords, rep_, mutex_, op>>,
         \A d \in Cords : op[d].pc = "change" => refcount'[tree[d]] = refcount[tree[d]]
  PROVE  \A d \in Cords : CordOk(d)' /\ ChangeOk(d)' /\ MutexOk(d)'
<1> SUFFICES ASSUME NEW d \in Cords PROVE CordOk(d)' /\ ChangeOk(d)' /\ MutexOk(d)'
  OBVIOUS
<1> QED
  BY CordStands DEF cords

\* A profiler goes from info to info.
LEMMA WalksOn ==
  ASSUME CordzInfoAssumption, CordzInv, NEW p \in Profilers, NEW w \in Walks,
         profiler' = [profiler EXCEPT ![p] = w], UNCHANGED <<cords, handles, rep_, mutex_, list, queue, op>>,
         profiler[p].pc \in {"begin"} \cup Walking, w.pc \in Walking, w.to_delete = profiler[p].to_delete,
         w.pc \in {"analyze", "next"} => w.at # None, w.rep # None => w.pc = "analyze",
         \/ w.at = None \/ w.at \in Linked \/ w.at = profiler[p].at
         \/ profiler[p].at # None /\ w.at = ci_next_[profiler[p].at]
  PROVE  /\ ListTypes' /\ QueueTypes' /\ CordInfosOk' /\ ListOk' /\ QueueOk'
         /\ \A q \in Profilers : WalkOk(q)'
         /\ \A c \in Cords : OldOf'[c] = OldOf[c]
         /\ \A i \in Infos : OwnedOf'[i] = OwnedOf[i]
         /\ \A q \in Profilers \ {p} : RepOf'[q] = RepOf[q]
         /\ RepOf[p] = profiler[p].rep /\ RepOf'[p] = w.rep
         /\ profiler' \in [Profilers -> Walks]
<1>1. /\ ListTypes' /\ CordInfosOk' /\ ListOk' /\ Linked' = Linked /\ Leaving' = Leaving
      /\ \A c \in Cords : OldOf'[c] = OldOf[c]
      /\ profiler' \in [Profilers -> Walks] /\ profiler'[p] = w
      /\ \A q \in Profilers \ {p} : profiler'[q] = profiler[q] /\ RepOf'[q] = RepOf[q]
      /\ RepOf[p] = profiler[p].rep /\ RepOf'[p] = w.rep
  <2>1. alive' = alive /\ new' = new /\ alive \in SUBSET Handles
    BY DEF handles, CordzInv, CordzTypes, CordTypes
  <2> QED
    BY <2>1, ProfilerMoves
<1>2. QueueTypes'
  BY DEF CordzInv, CordzTypes, QueueTypes, queue
<1>3. \A q \in Profilers : WalkOk(q)'
  <2>1. w.to_delete = {}
    BY DEF CordzInv, WalkOk, Walking
  <2>2. WalkOk(p)'
    BY <1>1, <2>1 DEF WalkOk
  <2>3. \A q \in Profilers \ {p} : WalkOk(q)'
    BY <1>1 DEF WalkOk, CordzInv
  <2> QED
    BY <2>2, <2>3
<1>4. \A i \in Infos : OwnedOf'[i] = OwnedOf[i]
  <2>1. Owners' = Owners
    BY DEF Owners, cords, handles
  <2> QED
    BY <2>1 DEF OwnedOf
<1>5. Active' = Active /\ Deleting' = Deleting
  <2>1. \A q \in Profilers : profiler'[q].to_delete = profiler[q].to_delete
    BY <1>1
  <2>2. Active' = Active
    BY <1>1 DEF Active
  <2> QED
    BY <2>1, <2>2, DeletingStands
<1>6. PICK Q \in SUBSET Handles : PlacesOk(Q) /\ \E pos \in [Handles -> Nat] : QueueIs(Q, pos)
  BY TheQueue
<1>7. PICK pos \in [Handles -> Nat] : QueueIs(Q, pos)
  BY <1>6
<1>8. PlacesOk(Q)'
  <2>1. \A q \in Profilers : profiler'[q].to_delete = profiler[q].to_delete
    BY <1>1
  <2> QED
    BY <1>1, <1>5, <1>6, <2>1 DEF PlacesOk, cords, handles
<1>9. ASSUME NEW q \in Active' PROVE \E V \in SUBSET Infos : Seen(q, Q, pos, V)'
  <2>1. q \in Profilers /\ q \in Active
    BY <1>5 DEF Active
  <2>2. PICK V \in SUBSET Infos : Seen(q, Q, pos, V)
    BY <1>7, <2>1 DEF QueueIs
  <2>3. profiler'[q].at # None => profiler'[q].at \in V
    BY <1>1, <2>1, <2>2 DEF Seen
  <2>4. Seen(q, Q, pos, V)'
    BY <1>1, <2>2, <2>3 DEF Seen, list
  <2> QED
    BY <2>4
<1>10. QueueIs(Q, pos)'
  BY <1>7, <1>9 DEF QueueIs, Chain, SnapshotFirst, Lowest, Highest, Adjacent, queue
<1>11. QueueOk'
  BY <1>8, <1>10 DEF QueueOk
<1> QED
  BY <1>1, <1>2, <1>3, <1>4, <1>11

\* It holds what it held before.
LEMMA WalkKeeps ==
  ASSUME CordzInfoAssumption, CordzInv, NEW p \in Profilers, NEW w \in Walks,
         profiler' = [profiler EXCEPT ![p] = w], UNCHANGED <<cords, reps, handles, rep_, mutex_, list, queue, op>>,
         profiler[p].pc \in {"begin"} \cup Walking, w.pc \in Walking, w.to_delete = profiler[p].to_delete,
         w.pc \in {"analyze", "next"} => w.at # None, w.rep # None => w.pc = "analyze",
         \/ w.at = None \/ w.at \in Linked \/ w.at = profiler[p].at
         \/ profiler[p].at # None /\ w.at = ci_next_[profiler[p].at],
         w.rep = profiler[p].rep
  PROVE  CordzInv'
<1>1. /\ ListTypes' /\ QueueTypes' /\ CordInfosOk' /\ ListOk' /\ QueueOk'
      /\ \A q \in Profilers : WalkOk(q)'
      /\ \A c \in Cords : OldOf'[c] = OldOf[c]
      /\ \A i \in Infos : OwnedOf'[i] = OwnedOf[i]
      /\ \A q \in Profilers \ {p} : RepOf'[q] = RepOf[q]
      /\ RepOf[p] = profiler[p].rep /\ RepOf'[p] = w.rep
      /\ profiler' \in [Profilers -> Walks]
  <2>1. UNCHANGED <<cords, handles, rep_, mutex_, list, queue, op>>
    OBVIOUS
  <2> QED
    BY <2>1, WalksOn
<1>2. CordTypes'
  BY <1>1 DEF CordzInv, CordzTypes, CordTypes, cords, reps, handles
<1>3. CountsOk'
  <2>1. \A q \in Profilers : RepOf'[q] = RepOf[q]
    BY <1>1
  <2> QED
    BY <1>1, <2>1, HoldersStand DEF cords, reps
<1>4. \A d \in Cords : CordOk(d)' /\ ChangeOk(d)' /\ MutexOk(d)'
  BY CordsSeeNothing DEF reps
<1> QED
  BY <1>1, <1>2, <1>3, <1>4 DEF CordzInv, CordzTypes

\* CordzInfo::Head: the profiler is at an info that is listed.
LEMMA HeadKeeps ==
  ASSUME CordzInfoAssumption, CordzInv, NEW p \in Profilers, Head(p) PROVE CordzInv'
<1> DEFINE w == [profiler[p] EXCEPT !.pc = "at", !.at = head]
<1>1. head \in Linked \cup {None}
  BY DEF CordzInv, ListOk, Chain
<1>2. profiler[p] \in Walks /\ head \in Infos \cup {None}
  BY DEF CordzInv, CordzTypes, CordTypes, ListTypes
<1>3. profiler[p].pc = "begin" /\ profiler[p].rep = None
  BY DEF Head, CordzInv, WalkOk
<1>4. w \in Walks /\ w.pc = "at" /\ w.at = head /\ w.to_delete = profiler[p].to_delete /\ w.rep = profiler[p].rep
  BY <1>2 DEF Walks, Walking
<1>5. profiler' = [profiler EXCEPT ![p] = w] /\ UNCHANGED <<cords, reps, handles, rep_, mutex_, list, queue, op>>
  BY DEF Head
<1> HIDE DEF w
<1> QED
  BY <1>1, <1>3, <1>4, <1>5, WalkKeeps DEF Walking

\* CordzInfo::Next: what an info that is no longer listed leads to is still alive.
LEMMA NextInfoKeeps ==
  ASSUME CordzInfoAssumption, CordzInv, NEW p \in Profilers, NextInfo(p) PROVE CordzInv'
<1> DEFINE w == [profiler[p] EXCEPT !.pc = "at", !.at = ci_next_[profiler[p].at]]
<1>1. profiler[p].pc = "next" /\ profiler[p].rep = None /\ profiler[p].at # None
  BY DEF NextInfo, CordzInv, WalkOk
<1>2. profiler[p] \in Walks /\ profiler[p].at \in Infos /\ ci_next_[profiler[p].at] \in Infos \cup {None}
  BY <1>1 DEF CordzInv, CordzTypes, CordTypes, ListTypes, Walks
<1>3. w \in Walks /\ w.pc = "at" /\ w.at = ci_next_[profiler[p].at] /\ w.to_delete = profiler[p].to_delete
      /\ w.rep = profiler[p].rep
  BY <1>2 DEF Walks, Walking
<1>4. profiler' = [profiler EXCEPT ![p] = w] /\ UNCHANGED <<cords, reps, handles, rep_, mutex_, list, queue, op>>
  BY DEF NextInfo
<1> HIDE DEF w
<1> QED
  BY <1>1, <1>3, <1>4, WalkKeeps DEF Walking

\* The rep of an info whose mutex is free is not one that is changed.
LEMMA FreeIsNotChanged ==
  ASSUME CordzInfoAssumption, CordzInv, NEW i \in alive \cap Infos, rep_[i] # None, mutex_[i] = None,
         NEW d \in Cords, op[d].pc = "change"
  PROVE  rep_[i] # tree[d]
<1>1. /\ \A c \in Cords \ {d} : tree[c] # tree[d]
      /\ \A c \in Cords : OldOf[c] # tree[d]
      /\ \A j \in Infos : OwnedOf[j] # tree[d]
  BY SoleHolder
<1>2. ASSUME cordz_info[d] = i PROVE FALSE
  <2>1. cordz_info[d] # None /\ d # None
    BY <1>2 DEF CordzInfoAssumption
  <2>2. mutex_[i] = d
    BY <1>2, <2>1 DEF CordzInv, MutexOk, Updating
  <2> QED
    BY <2>1, <2>2
<1> QED
  BY <1>1, <1>2, RepIsHeld

\* CordzInfo::RefCordRep: the profiler holds the tree.
LEMMA RefCordRepKeeps ==
  ASSUME CordzInfoAssumption, CordzInv, NEW p \in Profilers, RefCordRep(p) PROVE CordzInv'
<1> DEFINE i == profiler[p].at
           r == rep_[i]
           w == [profiler[p] EXCEPT !.pc = "analyze", !.rep = r]
<1>1. /\ profiler[p].pc = "at" /\ i # None /\ mutex_[i] = None
      /\ IF r = None THEN UNCHANGED reps ELSE Ref(r)
      /\ profiler' = [profiler EXCEPT ![p] = w] /\ UNCHANGED <<cords, handles, rep_, mutex_, list, queue, op>>
  BY DEF RefCordRep
<1>2. /\ profiler[p] \in Walks /\ i \in Infos /\ r \in Reps \cup {None} /\ profiler[p].rep = None
      /\ None \notin Reps /\ refcount \in [Reps -> Nat]
  BY <1>1 DEF CordzInv, CordzTypes, CordTypes, Walks, WalkOk, CordzInfoAssumption
<1>3. i \in alive
  BY <1>1, InspectedLives DEF InspectedIsAlive
<1>4. w \in Walks /\ w.pc = "analyze" /\ w.at = i /\ w.to_delete = profiler[p].to_delete /\ w.rep = r
  BY <1>2 DEF Walks, Walking
<1> HIDE DEF w
<1>5. /\ ListTypes' /\ QueueTypes' /\ CordInfosOk' /\ ListOk' /\ QueueOk'
      /\ \A q \in Profilers : WalkOk(q)'
      /\ \A c \in Cords : OldOf'[c] = OldOf[c]
      /\ \A j \in Infos : OwnedOf'[j] = OwnedOf[j]
      /\ \A q \in Profilers \ {p} : RepOf'[q] = RepOf[q]
      /\ RepOf[p] = None /\ RepOf'[p] = r
      /\ profiler' \in [Profilers -> Walks]
  BY <1>1, <1>2, <1>4, WalksOn DEF Walking
<1>6. \A d \in Cords : op[d].pc = "change" => r # tree[d] /\ tree[d] \in Reps
  BY <1>1, <1>2, <1>3, FreeIsNotChanged, SoleHolder
<1> HIDE DEF r
<1>7. /\ refcount' \in [Reps -> Nat]
      /\ \A s \in Reps : refcount'[s] = refcount[s] + One(r, s)
      /\ disturbed' = disturbed \cup {q \in Profilers : profiler[q].rep \in {s \in Reps : refcount[s] > 0 /\ refcount'[s] = 0}}
  <2>1. CASE r = None
    BY <1>1, <1>2, <2>1 DEF reps, One
  <2>2. CASE r # None
    <3>1. refcount' = [refcount EXCEPT ![r] = @ + 1]
      BY <1>1, <2>2 DEF Ref, Recount
    <3>2. disturbed' = disturbed \cup {q \in Profilers : profiler[q].rep \in {s \in Reps : refcount[s] > 0 /\ refcount'[s] = 0}}
      BY <1>1, <2>2 DEF Ref, Recount, Changed
    <3> QED
      BY <1>2, <2>2, <3>1, <3>2 DEF One
  <2> QED
    BY <2>1, <2>2
<1>8. CountsOk'
  <2>1. \A s \in Reps : refcount'[s] = refcount[s] - One(RepOf[p], s) + One(RepOf'[p], s)
    BY <1>2, <1>5, <1>7 DEF One
  <2> QED
    BY <1>1, <1>5, <2>1, CountsOfProfiler DEF cords
<1>9. CordTypes'
  <2>1. \A q \in Profilers : RepOf'[q] = RepOf[q] \/ RepOf[q] = None
    BY <1>5
  <2>2. disturbed' = {}
    BY <1>7, <1>8, <2>1, NoneDisturbed DEF CordzInv, CordzTypes
  <2> QED
    BY <1>1, <1>5, <1>7, <2>2 DEF CordzInv, CordzTypes, CordTypes, cords, handles
<1>10. \A d \in Cords : op[d].pc = "change" => refcount'[tree[d]] = refcount[tree[d]]
  BY <1>2, <1>6, <1>7 DEF One
<1>11. \A d \in Cords : CordOk(d)' /\ ChangeOk(d)' /\ MutexOk(d)'
  BY <1>1, <1>10, CordsSeeNothing
<1> QED
  BY <1>5, <1>8, <1>9, <1>11 DEF CordzInv, CordzTypes

\* The profiler gives the tree back.
LEMMA UnrefCordRepKeeps ==
  ASSUME CordzInfoAssumption, CordzInv, NEW p \in Profilers, UnrefCordRep(p) PROVE CordzInv'
<1> DEFINE n == profiler[p].rep
           w == [profiler[p] EXCEPT !.pc = "next", !.rep = None]
<1>1. /\ profiler[p].pc = "analyze" /\ profiler' = [profiler EXCEPT ![p] = w]
      /\ refcount' = [r \in Reps |-> IF r = n THEN refcount[r] - 1 ELSE refcount[r]]
      /\ UNCHANGED <<cords, disturbed, handles, rep_, mutex_, list, queue, op>>
  BY DEF UnrefCordRep
<1>2. /\ profiler[p] \in Walks /\ n \in Reps \cup {None} /\ profiler[p].at # None
      /\ None \notin Reps /\ refcount \in [Reps -> Nat]
  BY <1>1 DEF CordzInv, CordzTypes, CordTypes, Walks, WalkOk, CordzInfoAssumption
<1>3. w \in Walks /\ w.pc = "next" /\ w.at = profiler[p].at /\ w.to_delete = profiler[p].to_delete /\ w.rep = None
  BY <1>2 DEF Walks, Walking
<1> HIDE DEF w
<1>4. /\ ListTypes' /\ QueueTypes' /\ CordInfosOk' /\ ListOk' /\ QueueOk'
      /\ \A q \in Profilers : WalkOk(q)'
      /\ \A c \in Cords : OldOf'[c] = OldOf[c]
      /\ \A j \in Infos : OwnedOf'[j] = OwnedOf[j]
      /\ \A q \in Profilers \ {p} : RepOf'[q] = RepOf[q]
      /\ RepOf[p] = n /\ RepOf'[p] = None
      /\ profiler' \in [Profilers -> Walks]
  BY <1>1, <1>2, <1>3, WalksOn DEF Walking
<1>5. n # None => refcount[n] >= 1
  BY <1>2, <1>4, HeldIsCounted DEF CordzInv
<1>6. \A d \in Cords : op[d].pc = "change" => n # tree[d] /\ tree[d] \in Reps
  BY <1>4, SoleHolder
<1> HIDE DEF n
<1>7. refcount' \in [Reps -> Nat] /\ \A r \in Reps : refcount'[r] = refcount[r] - One(n, r)
  BY <1>1, <1>2, <1>5 DEF One
<1>8. CountsOk'
  <2>1. \A s \in Reps : refcount'[s] = refcount[s] - One(RepOf[p], s) + One(RepOf'[p], s)
    BY <1>2, <1>4, <1>7 DEF One
  <2> QED
    BY <1>1, <1>4, <2>1, CountsOfProfiler DEF cords
<1>9. CordTypes'
  BY <1>1, <1>4, <1>7 DEF CordzInv, CordzTypes, CordTypes, cords, handles
<1>10. \A d \in Cords : op[d].pc = "change" => refcount'[tree[d]] = refcount[tree[d]]
  BY <1>2, <1>6, <1>7 DEF One
<1>11. \A d \in Cords : CordOk(d)' /\ ChangeOk(d)' /\ MutexOk(d)'
  BY <1>1, <1>10, CordsSeeNothing
<1> QED
  BY <1>4, <1>8, <1>9, <1>11 DEF CordzInv, CordzTypes

\* A snapshot: what is listed now is what the profiler may see.
LEMMA SnapshotKeeps ==
  ASSUME CordzInfoAssumption, CordzInv, NEW p \in Profilers, Snapshot(p) PROVE CordzInv'
<1> DEFINE w == [profiler[p] EXCEPT !.pc = "begin"]
<1>1. /\ profiler[p].pc = "none" /\ Append(p) /\ alive' = alive \cup {p}
      /\ profiler' = [profiler EXCEPT ![p] = w] /\ UNCHANGED <<cords, reps, new, rep_, mutex_, list, op>>
  BY DEF Snapshot
<1>2. /\ profiler[p] \in Walks /\ profiler[p].at = None /\ profiler[p].rep = None /\ profiler[p].to_delete = {}
      /\ p \notin Infos /\ p \in Handles
  BY <1>1 DEF CordzInv, CordzTypes, CordTypes, WalkOk, CordzInfoAssumption, Walking, Handles
<1>3. w \in Walks /\ w.pc = "begin" /\ w.at = None /\ w.to_delete = {} /\ w.rep = None
  BY <1>2 DEF Walks
<1> HIDE DEF w
<1>4. alive' \in SUBSET Handles
  BY <1>1, <1>2 DEF CordzInv, CordzTypes, CordTypes
<1>5. /\ ListTypes' /\ CordInfosOk' /\ ListOk' /\ Linked' = Linked /\ Leaving' = Leaving
      /\ \A c \in Cords : OldOf'[c] = OldOf[c]
      /\ profiler' \in [Profilers -> Walks] /\ profiler'[p] = w
      /\ \A q \in Profilers \ {p} : profiler'[q] = profiler[q] /\ RepOf'[q] = RepOf[q]
      /\ RepOf[p] = profiler[p].rep /\ RepOf'[p] = w.rep
  BY <1>1, <1>3, <1>4, ProfilerMoves
<1>6. \A q \in Profilers : WalkOk(q)'
  BY <1>3, <1>5 DEF WalkOk, CordzInv
<1>7. CordTypes'
  BY <1>1, <1>4, <1>5 DEF CordzInv, CordzTypes, CordTypes, cords, reps
<1>8. \A d \in Cords : CordOk(d)' /\ ChangeOk(d)' /\ MutexOk(d)'
  BY <1>1, CordsSeeNothing DEF reps
<1>9. CountsOk'
  <2>1. Owners' = Owners
    BY <1>1, <1>2 DEF Owners, cords
  <2>2. \A i \in Infos : OwnedOf'[i] = OwnedOf[i]
    BY <1>1, <2>1 DEF OwnedOf
  <2> QED
    BY <1>1, <1>2, <1>3, <1>5, <2>2, HoldersStand DEF cords, reps
<1>10. QueueTypes' /\ QueueOk'
  <2>1. PICK Q \in SUBSET Handles : PlacesOk(Q) /\ \E pos \in [Handles -> Nat] : QueueIs(Q, pos)
    BY TheQueue
  <2>2. PICK pos \in [Handles -> Nat] : QueueIs(Q, pos)
    BY <2>1
  <2>3. p \notin Q /\ p \notin Active
    BY <1>1, <2>1 DEF PlacesOk, Active, Walking
  <2>4. Active' = Active \cup {p} /\ Deleting' = Deleting
    <3>1. \A q \in Profilers : profiler'[q].to_delete = profiler[q].to_delete
      BY <1>2, <1>3, <1>5
    <3>2. Active' = Active \cup {p}
      BY <1>3, <1>5 DEF Active
    <3> QED
      BY <3>1, <3>2, DeletingStands
  <2>5. PICK R : R = Q \cup {p}
    OBVIOUS
  <2>6. /\ QueueTypes'
        /\ \E pos2 \in [Handles -> Nat] : /\ Chain(R, pos2, dq_tail', dq_prev_', dq_next_')
                                          /\ \A k \in Q : pos2[k] = pos[k] /\ pos[k] < pos2[p]
    <3>1. Chain(Q, pos, dq_tail, dq_prev_, dq_next_) /\ CordzTypes /\ p \in Handles \ Q
      BY <1>2, <2>2, <2>3 DEF QueueIs, CordzInv
    <3>2. /\ QueueTypes'
          /\ \E pos2 \in [Handles -> Nat] : /\ Chain(Q \cup {p}, pos2, dq_tail', dq_prev_', dq_next_')
                                            /\ \A k \in Q : pos2[k] = pos[k] /\ pos[k] < pos2[p]
      BY ONLY <1>1, <3>1, CordzInfoAssumption, Q \in SUBSET Handles, pos \in [Handles -> Nat], Appended
    <3> QED
      BY <2>5, <3>2
  <2>7. PICK pos2 \in [Handles -> Nat] : /\ Chain(R, pos2, dq_tail', dq_prev_', dq_next_')
                                         /\ \A k \in Q : pos2[k] = pos[k] /\ pos[k] < pos2[p]
    BY <2>6
  <2>8. PlacesOk(R)'
    <3>1. ASSUME NEW d \in Cords, op'[d].pc # "untracked"
          PROVE  cordz_info'[d] \notin R /\ cordz_info'[d] \notin Deleting'
      <4>1. cordz_info[d] # p
        BY <1>2 DEF CordzInv, CordzTypes, CordTypes, CordzInfoAssumption
      <4> QED
        BY <1>1, <2>1, <2>4, <2>5, <3>1, <4>1 DEF PlacesOk, cords
    <3>2. \A q, s \in Profilers : q # s => profiler'[q].to_delete \cap profiler'[s].to_delete = {}
      <4>1. \A q \in Profilers : profiler'[q].to_delete = profiler[q].to_delete
        BY <1>2, <1>3, <1>5
      <4> QED
        BY <2>1, <4>1 DEF PlacesOk
    <3>3. R \cap Deleting' = {}
      <4>1. Deleting \subseteq Infos
        BY DEF Deleting, CordzInv, CordzTypes, CordTypes, Walks
      <4> QED
        BY <1>2, <2>1, <2>4, <2>5, <4>1 DEF PlacesOk
    <3>4. R \cap Profilers = Active' /\ alive' = Linked' \cup Leaving' \cup R \cup Deleting'
      BY <1>1, <1>5, <2>1, <2>4, <2>5 DEF PlacesOk
    <3> QED
      BY <3>1, <3>2, <3>3, <3>4 DEF PlacesOk
  <2>9. SnapshotFirst(R, pos2)
    <3>1. ASSUME NEW h \in Q PROVE \E q \in R \cap Profilers : pos2[q] =< pos2[h]
      <4>1. PICK q \in Q \cap Profilers : pos[q] =< pos[h]
        BY <2>2 DEF QueueIs, SnapshotFirst
      <4> QED
        BY <2>5, <2>7, <4>1
    <3>2. p \in R \cap Profilers /\ pos2[p] =< pos2[p]
      BY <1>2, <2>5
    <3> QED
      BY <2>5, <3>1, <3>2 DEF SnapshotFirst
  <2>10. ASSUME NEW q \in Active' PROVE \E V \in SUBSET Infos : Seen(q, R, pos2, V)'
    <3>1. CASE q = p
      <4>1. \A i \in Linked : ci_next_[i] \in Linked \cup {None}
        BY DEF CordzInv, ListOk, Chain
      <4>2. Linked \in SUBSET Infos
        BY DEF Linked, At, CordzInv, CordzTypes, CordTypes
      <4>3. PICK V : V = Linked
        OBVIOUS
      <4>4. Seen(p, R, pos2, V)'
        BY <1>1, <1>3, <1>5, <4>1, <4>3 DEF Seen, list
      <4> QED
        BY <3>1, <4>2, <4>3, <4>4
    <3>2. CASE q # p
      <4>1. q \in Active /\ q \in Profilers /\ q \in Q
        BY <2>1, <2>4, <3>2 DEF PlacesOk
      <4>2. PICK V \in SUBSET Infos : Seen(q, Q, pos, V)
        BY <2>2, <4>1 DEF QueueIs
      <4>3. \A j \in V : j \in Linked' \/ j \in Leaving' \/ (j \in R /\ pos2[q] < pos2[j])
        BY <1>5, <2>5, <2>7, <4>1, <4>2 DEF Seen
      <4>4. Seen(q, R, pos2, V)'
        BY <1>1, <1>5, <3>2, <4>1, <4>2, <4>3 DEF Seen, list
      <4> QED
        BY <4>4
    <3> QED
      BY <3>1, <3>2
  <2>11. QueueIs(R, pos2)'
    BY <2>7, <2>9, <2>10 DEF QueueIs, Chain, SnapshotFirst, Lowest, Highest, Adjacent
  <2>12. R \in SUBSET Handles
    BY <1>2, <2>5
  <2> QED
    BY <2>6, <2>8, <2>11, <2>12 DEF QueueOk
<1> QED
  BY <1>5, <1>6, <1>7, <1>8, <1>9, <1>10 DEF CordzInv, CordzTypes

\* What follows the first snapshot up to the next one.
Following(Q, pos, p) == {i \in Q \cap Infos : \A s \in Q \cap Profilers : s # p => pos[i] < pos[s]}

\* It is what UpToSnapshot finds.
LEMMA FollowingIsFound ==
  ASSUME CordzInfoAssumption, NEW Q \in SUBSET Handles, NEW pos \in [Handles -> Nat],
         Chain(Q, pos, dq_tail, dq_prev_, dq_next_), NEW p \in Q \cap Profilers, dq_prev_[p] = None
  PROVE  UpToSnapshot(dq_next_[p]) = Following(Q, pos, p)
<1>0. PICK F : F = Following(Q, pos, p)
  OBVIOUS
<1>1. \A k \in Q : pos[k] \in Nat /\ pos[p] =< pos[k]
  BY DEF Chain, Lowest, CordzInfoAssumption, Handles
<1>2. None \notin Handles /\ Q \cap Infos \subseteq Q /\ \A k \in Q : k \in Infos \/ k \in Profilers
  BY DEF CordzInfoAssumption, Handles
<1>3. F \in SUBSET Infos /\ F \subseteq Q
  BY <1>0 DEF Following
<1>4. ASSUME dq_next_[p] \in Infos PROVE dq_next_[p] \in F
  <2>1. dq_next_[p] \in Q /\ Adjacent(Q, pos, p, dq_next_[p])
    BY <1>2, <1>4 DEF Chain, Handles
  <2>2. ASSUME NEW s \in Q \cap Profilers, s # p PROVE pos[dq_next_[p]] < pos[s]
    <3>1. pos[s] # pos[p] /\ pos[s] # pos[dq_next_[p]]
      BY <1>4, <2>1, <2>2 DEF Chain, CordzInfoAssumption
    <3> QED
      BY <1>1, <2>1, <3>1 DEF Adjacent
  <2> QED
    BY <1>0, <1>4, <2>1, <2>2 DEF Following
<1>5. ASSUME NEW j \in F, dq_next_[j] \in Infos PROVE dq_next_[j] \in F
  <2>1. j \in Q /\ dq_next_[j] \in Q /\ Adjacent(Q, pos, j, dq_next_[j])
    BY <1>2, <1>3, <1>5 DEF Chain, Handles
  <2>2. ASSUME NEW s \in Q \cap Profilers, s # p PROVE pos[dq_next_[j]] < pos[s]
    <3>1. pos[s] # pos[dq_next_[j]] /\ pos[j] < pos[s]
      BY <1>0, <1>5, <2>1, <2>2 DEF Chain, CordzInfoAssumption, Following
    <3> QED
      BY <1>1, <2>1, <3>1 DEF Adjacent
  <2> QED
    BY <1>0, <1>5, <2>1, <2>2 DEF Following
<1>6. UpToSnapshot(dq_next_[p]) \subseteq F
  BY <1>3, <1>4, <1>5 DEF UpToSnapshot
<1>7. ASSUME NEW closed \in SUBSET Infos, dq_next_[p] \in Infos => dq_next_[p] \in closed,
             \A j \in closed : dq_next_[j] \in Infos => dq_next_[j] \in closed
      PROVE  F \subseteq closed
  <2> SUFFICES ASSUME F \ closed # {} PROVE FALSE
    OBVIOUS
  <2>1. PICK m \in F \ closed : \A k \in F \ closed : pos[m] =< pos[k]
    <3>1. F \ closed \in SUBSET Handles
      BY <1>3
    <3> QED
      BY <3>1, LowestOne
  <2>2. m \in Q /\ m \in Infos /\ m # p /\ pos[p] < pos[m]
    <3>1. m \in Q /\ m \in Infos /\ m # p
      BY <1>3, <2>1 DEF CordzInfoAssumption
    <3>2. pos[m] # pos[p]
      BY <3>1 DEF Chain
    <3> QED
      BY <1>1, <3>1, <3>2
  <2>3. PICK d : d = dq_prev_[m]
    OBVIOUS
  <2>4. d \in Q /\ Adjacent(Q, pos, d, m)
    BY <1>1, <2>2, <2>3 DEF Chain, Lowest
  <2>5. dq_next_[d] = m
    BY <1>2, <2>2, <2>3, <2>4, ChainMirror
  <2>6. d # p
    BY <1>7, <2>1, <2>2, <2>5
  <2>7. pos[d] < pos[m] /\ pos[d] \in Nat /\ pos[m] \in Nat
    BY <1>1, <2>2, <2>4 DEF Adjacent
  <2>8. \A s \in Q \cap Profilers : s # p => pos[m] < pos[s]
    BY <1>0, <2>1 DEF Following
  <2>9. d \notin Profilers
    BY <2>4, <2>6, <2>7, <2>8
  <2>10. d \in F
    <3>1. \A s \in Q \cap Profilers : s # p => pos[d] < pos[s]
      BY <1>1, <2>7, <2>8
    <3> QED
      BY <1>0, <1>2, <2>4, <2>9, <3>1 DEF Following
  <2>11. d \in closed
    BY <2>1, <2>7, <2>10
  <2> QED
    BY <1>7, <2>1, <2>2, <2>5, <2>11
<1>8. F \subseteq UpToSnapshot(dq_next_[p])
  BY <1>3, <1>7 DEF UpToSnapshot
<1> QED
  BY <1>0, <1>6, <1>8

\* The last of it is the one that leads out of it.
LEMMA FollowingIsBetween ==
  ASSUME CordzInfoAssumption, NEW Q \in SUBSET Handles, NEW pos \in [Handles -> Nat],
         Chain(Q, pos, dq_tail, dq_prev_, dq_next_), NEW p \in Q \cap Profilers, dq_prev_[p] = None,
         NEW F, F = Following(Q, pos, p), F # {},
         NEW next, next = dq_next_[CHOOSE h \in F : dq_next_[h] \notin F]
  PROVE  next \in Handles \cup {None} /\ Between(Q, pos, {p} \cup F, None, next)
<1>1. \A k \in Q : pos[k] \in Nat /\ pos[p] =< pos[k]
  BY DEF Chain, Lowest, CordzInfoAssumption, Handles
<1>2. None \notin Handles /\ None \notin Q /\ (\A k \in Q : k \in Infos \/ k \in Profilers) /\ Infos \cap Profilers = {}
  BY DEF CordzInfoAssumption, Handles
<1>3. F \subseteq Infos /\ F \subseteq Q /\ \A i \in F : \A s \in Q \cap Profilers : s # p => pos[i] < pos[s]
  BY DEF Following
<1>4. ASSUME NEW h \in F, NEW x \in Q, pos[x] =< pos[h], x # p PROVE x \in F
  <2>1. x \notin Profilers
    BY <1>1, <1>3, <1>4
  <2>2. \A s \in Q \cap Profilers : s # p => pos[x] < pos[s]
    BY <1>1, <1>3, <1>4
  <2> QED
    BY <1>2, <2>1, <2>2 DEF Following
<1>5. \E h \in F : dq_next_[h] \notin F
  <2>1. dq_tail \in Q /\ \A k \in Q : pos[k] =< pos[dq_tail]
    BY <1>3 DEF Chain, Highest
  <2>2. F \in SUBSET Handles /\ pos[dq_tail] \in Nat /\ \A m \in F : pos[m] =< pos[dq_tail]
    BY <1>1, <1>3, <2>1
  <2>3. PICK m \in F : \A k \in F : pos[k] =< pos[m]
    BY <2>2, HighestOne
  <2>4. dq_next_[m] \in Q => pos[m] < pos[dq_next_[m]]
    BY <1>2, <1>3, <2>3 DEF Chain, Adjacent
  <2>5. dq_next_[m] \notin F
    BY <1>1, <1>3, <2>3, <2>4
  <2> QED
    BY <2>5
<1>6. PICK h \in F : dq_next_[h] \notin F /\ next = dq_next_[h]
  <2>1. (CHOOSE h \in F : dq_next_[h] \notin F) \in F /\ dq_next_[CHOOSE h \in F : dq_next_[h] \notin F] \notin F
    BY <1>5
  <2> QED
    BY <2>1
<1>7. /\ h \in Q /\ next \notin F
      /\ \/ next = None /\ Highest(Q, pos, h)
         \/ next \in Q /\ Adjacent(Q, pos, h, next)
  BY <1>3, <1>6 DEF Chain
<1>8. ASSUME next # None PROVE next \in Q \ ({p} \cup F) /\ \A k \in Q : pos[k] =< pos[h] => pos[k] < pos[next]
  <2>1. next \in Q /\ pos[h] < pos[next]
    BY <1>7, <1>8 DEF Adjacent
  <2>2. next # p
    BY <1>1, <1>7, <2>1
  <2>3. pos[h] \in Nat /\ pos[next] \in Nat
    BY <1>1, <1>7, <2>1
  <2>4. \A k \in Q : pos[k] =< pos[h] => pos[k] < pos[next]
    BY <1>1, <2>1, <2>3
  <2>5. next \in Q \ ({p} \cup F)
    BY <1>7, <2>1, <2>2
  <2> QED
    BY <2>4, <2>5
<1>9. \A k \in {p} \cup F : pos[k] =< pos[h]
  <2>1. ASSUME NEW k \in F, pos[h] < pos[k] PROVE FALSE
    <3>1. next # None
      BY <1>1, <1>2, <1>3, <1>7, <2>1 DEF Highest
    <3>2. next \in Q /\ pos[next] =< pos[k]
      BY <1>1, <1>3, <1>7, <2>1, <3>1 DEF Adjacent
    <3>3. next \in F
      BY <1>4, <1>8, <3>1, <3>2
    <3> QED
      BY <1>7, <3>3
  <2> QED
    BY <1>1, <1>3, <1>7, <2>1
<1>10. ASSUME NEW m \in Q \ ({p} \cup F) PROVE next # None /\ pos[next] =< pos[m]
  <2>1. pos[h] < pos[m]
    BY <1>1, <1>4, <1>7, <1>10
  <2>2. next # None
    BY <1>1, <1>2, <1>7, <2>1 DEF Highest
  <2> QED
    BY <1>1, <1>7, <2>1, <2>2 DEF Adjacent
<1>11. {p} \cup F \subseteq Q
  BY <1>3
<1> QED
  BY <1>7, <1>8, <1>9, <1>10, <1>11 DEF Between

\* A snapshot leaves the queue, and F, which follows it, with it.
LEMMA OutOfQueue ==
  ASSUME CordzInfoAssumption, CordzInv, NEW p \in Profilers, NEW w \in Walks,
         profiler' = [profiler EXCEPT ![p] = w], UNCHANGED <<cords, new, rep_, mutex_, list, op>>,
         alive' = alive \ {p}, profiler[p].pc \in {"begin"} \cup Walking,
         NEW Q \in SUBSET Handles, NEW pos \in [Handles -> Nat], PlacesOk(Q), QueueIs(Q, pos),
         NEW F \in SUBSET (Q \cap Infos), \A i \in F : \A s \in Q \cap Profilers : s # p => pos[i] < pos[s],
         w.pc = "deleting", w.at = None, w.to_delete = F,
         NEW R, R = Q \ ({p} \cup F), Chain(R, pos, dq_tail', dq_prev_', dq_next_'), SnapshotFirst(R, pos)
  PROVE  QueueOk'
<1>1. /\ Linked' = Linked /\ Leaving' = Leaving
      /\ profiler'[p] = w /\ \A q \in Profilers \ {p} : profiler'[q] = profiler[q]
  <2>1. alive' \subseteq alive \cup {p} /\ alive' \in SUBSET Handles
    BY DEF CordzInv, CordzTypes, CordTypes
  <2> QED
    BY <2>1, ProfilerMoves
<1>2. /\ p \in Active /\ p \in Q /\ p \notin Infos /\ profiler[p].to_delete = {}
      /\ Infos \cap Profilers = {}
  BY DEF Active, PlacesOk, CordzInfoAssumption, CordzInv, WalkOk, Walking
<1>3. Active' = Active \ {p}
  BY <1>1 DEF Active, Walking
<1>4. Deleting' = Deleting \cup F
  <2>1. Deleting' \subseteq Deleting \cup F
    BY <1>1 DEF Deleting
  <2>2. Deleting \subseteq Deleting'
    <3> SUFFICES ASSUME NEW q \in Profilers, NEW i \in profiler[q].to_delete PROVE i \in Deleting'
      BY DEF Deleting
    <3>1. q # p
      BY <1>2
    <3> QED
      BY <1>1, <3>1 DEF Deleting
  <2>3. F \subseteq Deleting'
    BY <1>1 DEF Deleting
  <2> QED
    BY <2>1, <2>2, <2>3
<1>5. PlacesOk(R)'
  <2>1. \A d \in Cords : op'[d].pc # "untracked" => cordz_info'[d] \notin R /\ cordz_info'[d] \notin Deleting'
    BY <1>4 DEF PlacesOk, cords
  <2>2. ASSUME NEW q \in Profilers, NEW s \in Profilers, q # s
        PROVE  profiler'[q].to_delete \cap profiler'[s].to_delete = {}
    <3>1. \A x \in Profilers \ {p} : profiler[x].to_delete \cap F = {}
      BY DEF PlacesOk, Deleting
    <3> QED
      BY <1>1, <2>2, <3>1 DEF PlacesOk
  <2>3. R \cap Deleting' = {} /\ R \cap Profilers = Active'
    BY <1>2, <1>3, <1>4 DEF PlacesOk
  <2>4. p \notin Linked /\ p \notin Leaving /\ p \notin Deleting /\ p \notin F
    BY <1>2 DEF Linked, Leaving, At, Deleting, CordzInv, CordzTypes, CordTypes, Walks
  <2>5. alive' = Linked' \cup Leaving' \cup R \cup Deleting'
    BY <1>1, <1>4, <2>4 DEF PlacesOk
  <2> QED
    BY <2>1, <2>2, <2>3, <2>5 DEF PlacesOk
<1>6. ASSUME NEW q \in Active' PROVE \E V \in SUBSET Infos : Seen(q, R, pos, V)'
  <2>1. q \in Active /\ q # p /\ q \in Q \cap Profilers
    BY <1>3, <1>6 DEF PlacesOk
  <2>2. PICK V \in SUBSET Infos : Seen(q, Q, pos, V)
    BY <2>1 DEF QueueIs
  <2>3. \A i \in F : ~(pos[q] < pos[i])
    <3>1. \A i \in F : pos[i] < pos[q] /\ pos[i] \in Nat /\ pos[q] \in Nat
      BY <2>1 DEF Handles
    <3> QED
      BY <3>1
  <2>4. \A i \in V : i \in Linked' \/ i \in Leaving' \/ (i \in R /\ pos[q] < pos[i])
    BY <1>1, <1>2, <2>2, <2>3 DEF Seen
  <2>5. Seen(q, R, pos, V)'
    BY <1>1, <2>1, <2>2, <2>4 DEF Seen, list
  <2> QED
    BY <2>5
<1>7. QueueIs(R, pos)'
  BY <1>6 DEF QueueIs, Chain, SnapshotFirst, Lowest, Highest, Adjacent
<1>8. R \in SUBSET Handles
  OBVIOUS
<1> QED
  BY <1>5, <1>7, <1>8 DEF QueueOk

\* The snapshot ends: the first one in the queue takes the infos up to the next with it.
LEMMA EndSnapshotKeeps ==
  ASSUME CordzInfoAssumption, CordzInv, NEW p \in Profilers, EndSnapshot(p) PROVE CordzInv'
<1> DEFINE out0 == IF dq_prev_[p] = None THEN UpToSnapshot(dq_next_[p]) ELSE {}
           next0 == IF out0 = {} THEN dq_next_[p] ELSE dq_next_[CHOOSE h \in out0 : dq_next_[h] \notin out0]
           w0 == [NoSnapshot EXCEPT !.pc = "deleting", !.to_delete = out0]
<1>a. /\ profiler[p].pc \in {"begin", "at"}
      /\ dq_next_' = [h \in Handles |-> IF h = p \/ h \in out0 THEN None
                                        ELSE IF h = dq_prev_[p] THEN next0 ELSE dq_next_[h]]
      /\ dq_prev_' = [h \in Handles |-> IF h = p \/ h \in out0 THEN None
                                        ELSE IF h = next0 THEN dq_prev_[p] ELSE dq_prev_[h]]
      /\ dq_tail' = IF next0 = None THEN dq_prev_[p] ELSE dq_tail
      /\ profiler' = [profiler EXCEPT ![p] = w0]
      /\ alive' = alive \ {p} /\ UNCHANGED <<cords, reps, new, rep_, mutex_, list, op>>
  BY DEF EndSnapshot
<1> HIDE DEF out0, next0, w0
<1>b. PICK out : out = out0
  OBVIOUS
<1>c. PICK next : next = next0
  OBVIOUS
<1>d. PICK w : w = w0
  OBVIOUS
<1>0. /\ out = IF dq_prev_[p] = None THEN UpToSnapshot(dq_next_[p]) ELSE {}
      /\ next = IF out = {} THEN dq_next_[p] ELSE dq_next_[CHOOSE h \in out : dq_next_[h] \notin out]
      /\ w = [NoSnapshot EXCEPT !.pc = "deleting", !.to_delete = out]
  BY <1>b, <1>c, <1>d DEF out0, next0, w0
<1>1. /\ profiler[p].pc \in {"begin", "at"}
      /\ dq_next_' = [h \in Handles |-> IF h = p \/ h \in out THEN None
                                        ELSE IF h = dq_prev_[p] THEN next ELSE dq_next_[h]]
      /\ dq_prev_' = [h \in Handles |-> IF h = p \/ h \in out THEN None
                                        ELSE IF h = next THEN dq_prev_[p] ELSE dq_prev_[h]]
      /\ dq_tail' = IF next = None THEN dq_prev_[p] ELSE dq_tail
      /\ profiler' = [profiler EXCEPT ![p] = w]
      /\ alive' = alive \ {p} /\ UNCHANGED <<cords, reps, new, rep_, mutex_, list, op>>
  BY <1>a, <1>b, <1>c, <1>d
<1>2. PICK Q \in SUBSET Handles : PlacesOk(Q) /\ \E pos \in [Handles -> Nat] : QueueIs(Q, pos)
  BY TheQueue
<1>3. PICK pos \in [Handles -> Nat] : QueueIs(Q, pos)
  BY <1>2
<1>4. Chain(Q, pos, dq_tail, dq_prev_, dq_next_) /\ SnapshotFirst(Q, pos)
  BY <1>3 DEF QueueIs
<1>5. p \in Active /\ p \in Q \cap Profilers
  BY <1>1, <1>2 DEF Active, PlacesOk, Walking
<1>6. \A k \in Q : pos[k] \in Nat
  OBVIOUS
<1>7. /\ None \notin Handles /\ (\A k \in Q : k \in Infos \/ k \in Profilers) /\ Infos \cap Profilers = {}
      /\ Q \subseteq Handles /\ p \in Handles
  BY <1>5 DEF CordzInfoAssumption, Handles
<1>8. PICK before : before = dq_prev_[p]
  OBVIOUS
<1>9. PICK R : R = Q \ ({p} \cup out)
  OBVIOUS
<1>10. /\ out \in SUBSET (Q \cap Infos) /\ (\A i \in out : \A s \in Q \cap Profilers : s # p => pos[i] < pos[s])
       /\ next \in Handles \cup {None} /\ before \in Handles \cup {None}
       /\ Between(Q, pos, {p} \cup out, before, next) /\ SnapshotFirst(R, pos)
  <2>1. before \in Handles \cup {None} /\ dq_next_[p] \in Handles \cup {None}
    BY <1>7, <1>8 DEF CordzInv, CordzTypes, QueueTypes
  <2>2. Between(Q, pos, {p}, dq_prev_[p], dq_next_[p])
    BY ONLY <1>4, <1>5, <1>7, Q \in SUBSET Handles, pos \in [Handles -> Nat], BetweenOne
  <2>3. CASE dq_prev_[p] # None
    <3>1. out = {} /\ next = dq_next_[p] /\ before # None
      BY <1>0, <1>8, <2>3
    <3>2. Between(Q, pos, {p} \cup out, before, next)
      <4>1. {p} \cup out = {p}
        BY <3>1
      <4> QED
        BY <1>8, <2>2, <3>1, <4>1
    <3>3. before \in Q /\ pos[before] < pos[p]
      BY <1>4, <1>5, <1>8, <3>1 DEF Chain, Adjacent
    <3>4. PICK s \in Q \cap Profilers : pos[s] =< pos[before]
      BY <1>4, <3>3 DEF SnapshotFirst
    <3>5. s # p /\ pos[s] < pos[p]
      BY <1>5, <1>6, <3>3, <3>4
    <3>6. ASSUME NEW h \in R PROVE \E q \in R \cap Profilers : pos[q] =< pos[h]
      <4>1. PICK q \in Q \cap Profilers : pos[q] =< pos[h]
        BY <1>4, <1>9 DEF SnapshotFirst
      <4>2. CASE q # p
        BY <1>9, <3>1, <4>1, <4>2
      <4>3. CASE q = p
        <5>1. pos[s] =< pos[h]
          BY <1>5, <1>6, <1>9, <3>5, <4>1, <4>3
        <5> QED
          BY <1>9, <3>1, <3>5, <5>1
      <4> QED
        BY <4>2, <4>3
    <3> QED
      BY <2>1, <3>1, <3>2, <3>6 DEF SnapshotFirst
  <2>4. CASE dq_prev_[p] = None
    <3>1. before = None /\ dq_prev_[p] = None /\ out = UpToSnapshot(dq_next_[p])
      BY <1>0, <1>8, <2>4
    <3>2. out = Following(Q, pos, p)
      BY <1>4, <1>5, <3>1, FollowingIsFound
    <3>3. out \in SUBSET (Q \cap Infos) /\ \A i \in out : \A s \in Q \cap Profilers : s # p => pos[i] < pos[s]
      BY <3>2 DEF Following
    <3>4. next \in Handles \cup {None} /\ Between(Q, pos, {p} \cup out, before, next)
      <4>1. CASE out = {}
        <5>1. {p} \cup out = {p} /\ next = dq_next_[p]
          BY <1>0, <4>1
        <5> QED
          BY <1>8, <2>1, <2>2, <5>1
      <4>2. CASE out # {}
        <5>1. next = dq_next_[CHOOSE h \in out : dq_next_[h] \notin out]
          BY <1>0, <4>2
        <5>2. next \in Handles \cup {None} /\ Between(Q, pos, {p} \cup out, None, next)
          BY <1>4, <1>5, <3>1, <3>2, <4>2, <5>1, FollowingIsBetween
        <5> QED
          BY <3>1, <5>2
      <4> QED
        BY <4>1, <4>2
    <3>5. ASSUME NEW h \in R PROVE \E q \in R \cap Profilers : pos[q] =< pos[h]
      <4>1. CASE h \in Profilers
        BY <1>6, <1>9, <4>1
      <4>2. CASE h \notin Profilers
        <5>1. h \in Q \cap Infos /\ h \notin out
          BY <1>7, <1>9, <4>2
        <5>2. PICK s \in Q \cap Profilers : s # p /\ ~(pos[h] < pos[s])
          BY <3>2, <5>1 DEF Following
        <5>3. s \in R /\ pos[s] =< pos[h]
          BY <1>6, <1>7, <1>9, <3>3, <5>1, <5>2
        <5> QED
          BY <5>2, <5>3
      <4> QED
        BY <4>1, <4>2
    <3> QED
      BY <2>1, <3>3, <3>4, <3>5 DEF SnapshotFirst
  <2> QED
    BY <2>3, <2>4
<1>11. Chain(R, pos, dq_tail', dq_prev_', dq_next_')
  <2>1. PICK M : M = {p} \cup out
    OBVIOUS
  <2>2. Taken(Q, M, before, next, dq_prev_, dq_next_, dq_prev_', dq_next_')
    BY <1>1, <1>7, <1>8, <2>1 DEF Taken
  <2>3. Between(Q, pos, M, before, next)
    BY <1>10, <2>1
  <2>4. Chain(Q \ M, pos, IF next = None THEN before ELSE dq_tail, dq_prev_', dq_next_')
    BY ONLY <1>4, <1>7, <2>2, <2>3, Q \in SUBSET Handles, pos \in [Handles -> Nat], ChainTake
  <2>5. dq_tail' = (IF next = None THEN before ELSE dq_tail) /\ R = Q \ M
    BY <1>1, <1>8, <1>9, <2>1
  <2> QED
    BY <2>4, <2>5
<1>12. w \in Walks /\ w.pc = "deleting" /\ w.at = None /\ w.to_delete = out /\ w.rep = None
  BY <1>0, <1>10 DEF NoSnapshot, Walks
<1>13. profiler[p].pc \in {"begin"} \cup Walking /\ profiler[p].rep = None
  BY <1>1 DEF Walking, CordzInv, WalkOk
<1>14. QueueOk'
  BY <1>1, <1>2, <1>3, <1>9, <1>10, <1>11, <1>12, <1>13, OutOfQueue
<1>15. alive' \in SUBSET Handles /\ alive' \subseteq alive \cup {p}
  BY <1>1 DEF CordzInv, CordzTypes, CordTypes
<1>16. /\ ListTypes' /\ CordInfosOk' /\ ListOk'
       /\ \A c \in Cords : OldOf'[c] = OldOf[c]
       /\ profiler' \in [Profilers -> Walks] /\ profiler'[p] = w
       /\ \A q \in Profilers \ {p} : profiler'[q] = profiler[q] /\ RepOf'[q] = RepOf[q]
       /\ RepOf[p] = profiler[p].rep /\ RepOf'[p] = w.rep
  BY <1>1, <1>12, <1>15, ProfilerMoves
<1>17. \A q \in Profilers : WalkOk(q)'
  BY <1>12, <1>16 DEF WalkOk, CordzInv
<1>18. CordTypes'
  BY <1>1, <1>15, <1>16 DEF CordzInv, CordzTypes, CordTypes, cords, reps
<1>19. QueueTypes'
  <2>1. before \in Handles \cup {None} /\ next \in Handles \cup {None}
    BY <1>10
  <2>2. QueueTypes
    BY DEF CordzInv, CordzTypes
  <2>3. dq_tail' \in Handles \cup {None}
    BY <1>1, <1>8, <2>1, <2>2 DEF QueueTypes
  <2>4. dq_prev_' \in [Handles -> Handles \cup {None}]
    BY <1>1, <1>8, <2>1, <2>2 DEF QueueTypes
  <2>5. dq_next_' \in [Handles -> Handles \cup {None}]
    BY <1>1, <2>1, <2>2 DEF QueueTypes
  <2> QED
    BY <2>3, <2>4, <2>5 DEF QueueTypes
<1>20. \A d \in Cords : CordOk(d)' /\ ChangeOk(d)' /\ MutexOk(d)'
  BY <1>1, CordsSeeNothing DEF reps
<1>21. CountsOk'
  <2>1. Owners' = Owners
    BY <1>1, <1>5, <1>7 DEF Owners, cords
  <2>2. \A i \in Infos : OwnedOf'[i] = OwnedOf[i]
    BY <1>1, <2>1 DEF OwnedOf
  <2> QED
    BY <1>1, <1>12, <1>13, <1>16, <2>2, HoldersStand DEF cords, reps
<1> QED
  BY <1>14, <1>16, <1>17, <1>18, <1>19, <1>20, <1>21 DEF CordzInv, CordzTypes

\* What was taken from the queue is deleted; each of them held its rep.
LEMMA DeleteQueuedKeeps ==
  ASSUME CordzInfoAssumption, CordzInv, NEW p \in Profilers, DeleteQueued(p) PROVE CordzInv'
<1>0. PICK T : T = profiler[p].to_delete
  OBVIOUS
<1>1. /\ profiler[p].pc = "deleting" /\ alive' = alive \ T
      /\ refcount' = [r \in Reps |-> refcount[r] - Cardinality({i \in T : rep_[i] = r})]
      /\ disturbed' = disturbed \cup {q \in Profilers : profiler[q].rep \in {r \in Reps : refcount[r] > 0 /\ refcount'[r] = 0}}
      /\ profiler' = [profiler EXCEPT ![p] = NoSnapshot]
      /\ UNCHANGED <<cords, new, rep_, mutex_, list, queue, op>>
  BY <1>0 DEF DeleteQueued, Deleted, Recount, Changed
<1>2. NoSnapshot \in Walks
  BY DEF NoSnapshot, Walks
<1>3. alive' \in SUBSET Handles /\ alive' \subseteq alive \cup {p}
  BY <1>1 DEF CordzInv, CordzTypes, CordTypes
<1>4. /\ ListTypes' /\ CordInfosOk' /\ ListOk' /\ Linked' = Linked /\ Leaving' = Leaving
      /\ \A c \in Cords : OldOf'[c] = OldOf[c]
      /\ profiler' \in [Profilers -> Walks] /\ profiler'[p] = NoSnapshot
      /\ \A q \in Profilers \ {p} : profiler'[q] = profiler[q] /\ RepOf'[q] = RepOf[q]
      /\ RepOf[p] = profiler[p].rep /\ RepOf'[p] = NoSnapshot.rep
  BY <1>1, <1>2, <1>3, ProfilerMoves
<1>5. \A q \in Profilers : RepOf'[q] = RepOf[q]
  BY <1>1, <1>4 DEF NoSnapshot, CordzInv, WalkOk
<1>6. \A q \in Profilers : WalkOk(q)'
  BY <1>4 DEF WalkOk, CordzInv, NoSnapshot
<1>7. PICK Q \in SUBSET Handles : PlacesOk(Q) /\ \E pos \in [Handles -> Nat] : QueueIs(Q, pos)
  BY TheQueue
<1>8. PICK pos \in [Handles -> Nat] : QueueIs(Q, pos)
  BY <1>7
<1>9. /\ T \subseteq Infos /\ T \subseteq Deleting /\ T \subseteq alive
      /\ \A c \in Cords : op[c].pc # "untracked" => cordz_info[c] \notin T
  BY <1>0, <1>7 DEF Deleting, PlacesOk, CordzInv, CordzTypes, CordTypes, Walks
<1>10. T \subseteq Owners /\ Owners' = Owners \ T
  <2>1. T \subseteq Owners
    BY <1>9 DEF Owners
  <2>2. Owners' = Owners \ T
    BY <1>1 DEF Owners, cords
  <2> QED
    BY <2>1, <2>2
<1>11. /\ \A i \in T : OwnedOf[i] = rep_[i] /\ OwnedOf'[i] = None
       /\ \A i \in Infos : i \notin T => OwnedOf'[i] = OwnedOf[i]
  BY <1>1, <1>9, <1>10 DEF OwnedOf
<1>12. None \notin Reps /\ refcount \in [Reps -> Nat]
  BY DEF CordzInfoAssumption, CordzInv, CordzTypes, CordTypes
<1>13. ASSUME NEW r \in Reps PROVE refcount'[r] = Holders(r)' /\ refcount'[r] \in Nat
  <2>1. Count(OwnedOf', Infos, r) = Count(OwnedOf, Infos, r) - Cardinality({i \in T : rep_[i] = r})
    <3>1. \A i \in Infos : IF i \in T THEN OwnedOf'[i] # r ELSE OwnedOf'[i] = OwnedOf[i]
      BY <1>11, <1>12
    <3>2. {i \in T : rep_[i] = r} = {i \in T : OwnedOf[i] = r}
      BY <1>11
    <3>3. IsFiniteSet(Infos) /\ T \in SUBSET Infos
      BY <1>9 DEF CordzInfoAssumption
    <3>4. Count(OwnedOf', Infos, r) = Count(OwnedOf, Infos, r) - Cardinality({i \in T : OwnedOf[i] = r})
      <4>1. PICK f : f = OwnedOf
        OBVIOUS
      <4>2. PICK g : g = OwnedOf'
        OBVIOUS
      <4>3. GivesUp(f, g, Infos, T, r)
        BY <3>1, <4>1, <4>2 DEF GivesUp
      <4>4. Count(g, Infos, r) = Count(f, Infos, r) - Count(f, T, r)
        BY ONLY <3>3, <4>3, CountTake
      <4> QED
        BY <4>1, <4>2, <4>4 DEF Count
    <3> QED
      BY <3>2, <3>4
  <2>2. Count(tree', Cords, r) = Count(tree, Cords, r)
    BY <1>1 DEF cords
  <2>3. Count(OldOf', Cords, r) = Count(OldOf, Cords, r)
    BY <1>4, CountSame
  <2>4. Count(RepOf', Profilers, r) = Count(RepOf, Profilers, r)
    BY <1>5, CountSame
  <2>5. refcount[r] = Holders(r)
    BY DEF CordzInv, CountsOk
  <2>6. Holders(r)' = Count(tree', Cords, r) + Count(OldOf', Cords, r)
                      + Count(RepOf', Profilers, r) + Count(OwnedOf', Infos, r)
    BY DEF Holders, Count
  <2>7. /\ Count(tree, Cords, r) \in Nat /\ Count(OldOf, Cords, r) \in Nat
        /\ Count(RepOf, Profilers, r) \in Nat /\ Count(OwnedOf, Infos, r) \in Nat
    BY HeldIsCounted DEF CordzInv
  <2>8. Count(OwnedOf', Infos, r) \in Nat
    BY CountIsNat DEF CordzInfoAssumption
  <2>9. refcount'[r] = refcount[r] - Cardinality({i \in T : rep_[i] = r})
    BY <1>1
  <2>10. Cardinality({i \in T : rep_[i] = r}) \in Nat
    <3>1. {i \in T : rep_[i] = r} \subseteq Infos
      BY <1>9
    <3>2. IsFiniteSet(Infos)
      BY DEF CordzInfoAssumption
    <3> QED
      BY <3>1, <3>2, FS_Subset, FS_CardinalityType
  <2> QED
    BY <2>1, <2>2, <2>3, <2>4, <2>5, <2>6, <2>7, <2>8, <2>9, <2>10 DEF Holders
<1>14. CountsOk' /\ refcount' \in [Reps -> Nat]
  BY <1>1, <1>13 DEF CountsOk
<1>15. CordTypes'
  <2>1. disturbed' = {}
    BY <1>1, <1>5, <1>14, NoneDisturbed DEF CordzInv, CordzTypes
  <2> QED
    BY <1>1, <1>3, <1>4, <1>14, <2>1 DEF CordzInv, CordzTypes, CordTypes, cords
<1>16. ASSUME NEW d \in Cords, op[d].pc = "change" PROVE refcount'[tree[d]] = refcount[tree[d]]
  <2>1. tree[d] \in Reps /\ \A i \in T : rep_[i] # tree[d]
    BY <1>9, <1>11, <1>16, SoleHolder
  <2>2. {i \in T : rep_[i] = tree[d]} = {}
    BY <2>1
  <2>3. refcount'[tree[d]] = refcount[tree[d]] - Cardinality({i \in T : rep_[i] = tree[d]})
    BY <1>1, <2>1
  <2> QED
    BY <1>12, <2>1, <2>2, <2>3, FS_EmptySet
<1>17. \A d \in Cords : CordOk(d)' /\ ChangeOk(d)' /\ MutexOk(d)'
  BY <1>1, <1>16, CordsSeeNothing
<1>18. QueueTypes'
  BY <1>1 DEF CordzInv, CordzTypes, QueueTypes, queue
<1>19. QueueOk'
  <2>1. Active' = Active
    BY <1>1, <1>4 DEF Active, NoSnapshot, Walking
  <2>2. Deleting' = Deleting \ T
    <3>1. \A q \in Profilers \ {p} : profiler[q].to_delete \cap T = {}
      BY <1>0, <1>7 DEF PlacesOk
    <3>2. Deleting' \subseteq Deleting \ T
      BY <1>4, <3>1 DEF Deleting, NoSnapshot
    <3>3. Deleting \ T \subseteq Deleting'
      BY <1>0, <1>4 DEF Deleting
    <3> QED
      BY <3>2, <3>3
  <2>3. PlacesOk(Q)'
    <3>1. \A d \in Cords : op'[d].pc # "untracked" => cordz_info'[d] \notin Q /\ cordz_info'[d] \notin Deleting'
      BY <1>1, <1>7, <2>2 DEF PlacesOk, cords
    <3>2. \A q, s \in Profilers : q # s => profiler'[q].to_delete \cap profiler'[s].to_delete = {}
      <4>1. \A q \in Profilers : profiler'[q].to_delete \subseteq profiler[q].to_delete
        BY <1>4 DEF NoSnapshot
      <4> QED
        BY <1>7, <4>1 DEF PlacesOk
    <3>3. Q \cap Deleting' = {} /\ Q \cap Profilers = Active'
      BY <1>7, <2>1, <2>2 DEF PlacesOk
    <3>4. T \cap Linked = {} /\ T \cap Leaving = {} /\ T \cap Q = {}
      <4>1. T \cap Linked = {}
        BY <1>9 DEF Linked, At, InList, Resting
      <4>2. T \cap Leaving = {}
        BY <1>9 DEF Leaving, At, OnTheWay
      <4> QED
        BY <1>7, <1>9, <4>1, <4>2 DEF PlacesOk
    <3>5. alive' = Linked' \cup Leaving' \cup Q \cup Deleting'
      BY <1>1, <1>4, <1>7, <2>2, <3>4 DEF PlacesOk
    <3> QED
      BY <3>1, <3>2, <3>3, <3>5 DEF PlacesOk
  <2>4. ASSUME NEW q \in Active' PROVE \E V \in SUBSET Infos : Seen(q, Q, pos, V)'
    <3>1. q \in Active /\ q \in Profilers /\ q # p
      BY <1>1, <2>1, <2>4 DEF Active, Walking
    <3>2. PICK V \in SUBSET Infos : Seen(q, Q, pos, V)
      BY <1>8, <3>1 DEF QueueIs
    <3>3. Seen(q, Q, pos, V)'
      BY <1>1, <1>4, <3>1, <3>2 DEF Seen, list
    <3> QED
      BY <3>3
  <2>5. QueueIs(Q, pos)'
    BY <1>1, <1>8, <2>4 DEF QueueIs, Chain, SnapshotFirst, Lowest, Highest, Adjacent, queue
  <2> QED
    BY <2>3, <2>5 DEF QueueOk
<1> QED
  BY <1>4, <1>6, <1>14, <1>15, <1>17, <1>18, <1>19 DEF CordzInv, CordzTypes

-----------------------------------------------------------------------------
(* The invariant holds, and the properties follow from it.                 *)

\* Nothing is sampled at first.
LEMMA CordzBegins ==
  ASSUME CordzInfoAssumption, Init PROVE CordzInv
<1> USE DEF Init
<1>1. None \notin Cords /\ None \notin Infos /\ None \notin Profilers /\ None \notin Reps
  BY DEF CordzInfoAssumption
<1>2. \A c \in Cords : op[c] = Idle /\ Idle.pc = "idle" /\ Idle \in Places
  BY DEF Idle, Places, Rests, Resting
<1>3. \A p \in Profilers : /\ profiler[p] = NoSnapshot /\ NoSnapshot \in Walks
                           /\ profiler[p].pc = "none" /\ profiler[p].at = None
                           /\ profiler[p].rep = None /\ profiler[p].to_delete = {}
  BY DEF NoSnapshot, Walks
<1>4. CordTypes
  BY <1>2, <1>3 DEF CordTypes
<1>5. ListTypes /\ QueueTypes
  BY DEF ListTypes, QueueTypes
<1>6. ASSUME NEW c \in Cords PROVE CordOk(c) /\ ChangeOk(c) /\ MutexOk(c)
  BY <1>1, <1>2 DEF CordOk, ChangeOk, MutexOk, Resting, Moving, Updating
<1>7. \A p \in Profilers : WalkOk(p)
  BY <1>3 DEF WalkOk
<1>8. Linked = {} /\ Leaving = {} /\ Deleting = {} /\ Active = {}
  <2>1. Linked = {} /\ Leaving = {}
    BY DEF Linked, Leaving, At
  <2>2. Deleting = {}
    BY <1>3 DEF Deleting
  <2>3. Active = {}
    BY <1>3 DEF Active, Walking
  <2> QED
    BY <2>1, <2>2, <2>3
<1>9. CountsOk
  <2> SUFFICES ASSUME NEW r \in Reps PROVE refcount[r] = Holders(r)
    BY DEF CountsOk
  <2>1. {c \in Cords : tree[c] = r} = {} /\ {c \in Cords : OldOf[c] = r} = {}
    BY <1>1, <1>2 DEF OldOf, Moving
  <2>2. {p \in Profilers : RepOf[p] = r} = {} /\ {i \in Infos : OwnedOf[i] = r} = {}
    BY <1>1, <1>3 DEF RepOf, OwnedOf, Owners
  <2>3. Count(tree, Cords, r) = 0 /\ Count(OldOf, Cords, r) = 0
    BY <2>1, FS_EmptySet DEF Count
  <2>4. Count(RepOf, Profilers, r) = 0 /\ Count(OwnedOf, Infos, r) = 0
    BY <2>2, FS_EmptySet DEF Count
  <2> QED
    BY <2>3, <2>4 DEF Holders
<1>10. CordInfosOk
  BY <1>1 DEF CordInfosOk
<1>11. ListOk
  <2>1. [i \in Infos |-> 0] \in [Infos -> Nat]
    OBVIOUS
  <2>2. \A pos : Chain(Linked, pos, head, ci_next_, ci_prev_)
    BY <1>8 DEF Chain
  <2> QED
    BY <2>1, <2>2 DEF ListOk
<1>12. QueueOk
  <2>1. [h \in Handles |-> 0] \in [Handles -> Nat]
    OBVIOUS
  <2>2. PlacesOk({})
    BY <1>3, <1>8 DEF PlacesOk
  <2>3. \A pos : QueueIs({}, pos)
    BY <1>8 DEF QueueIs, Chain, SnapshotFirst
  <2> QED
    BY <2>1, <2>2, <2>3 DEF QueueOk
<1> QED
  BY <1>4, <1>5, <1>6, <1>7, <1>9, <1>10, <1>11, <1>12 DEF CordzInv, CordzTypes

\* Every step keeps it,
LEMMA CordzKeeps ==
  ASSUME CordzInfoAssumption, CordzInv, Next PROVE CordzInv'
<1>1. ASSUME NEW c \in Cords, CordStep(c) PROVE CordzInv'
  <2>1. CASE \E d \in Cords : Copy(c, d) \/ Assign(c, d)
    BY <2>1, CopyKeeps, AssignKeeps
  <2>2. CASE Create(c) \/ Clear(c)
    BY <2>2, CreateKeeps, ClearKeeps
  <2>3. CASE BeginUpdate(c) \/ IsOne(c) \/ Update(c)
    BY <2>3, BeginUpdateKeeps, IsOneKeeps, UpdateKeeps
  <2>4. CASE Replace(c) \/ RemoveAll(c) \/ EndUpdate(c)
    BY <2>4, ReplaceKeeps, RemoveAllKeeps, EndUpdateKeeps
  <2>5. CASE Unlink(c) \/ SafeToDelete(c) \/ ExtendLife(c)
    BY <2>5, UnlinkKeeps, SafeToDeleteKeeps, ExtendLifeKeeps
  <2>6. CASE Delete(c) \/ Queue(c) \/ Untracked(c)
    BY <2>6, DeleteKeeps, QueueKeeps, UntrackedKeeps
  <2> QED
    BY <1>1, <2>1, <2>2, <2>3, <2>4, <2>5, <2>6 DEF CordStep
<1>2. ASSUME NEW p \in Profilers, ProfilerStep(p) PROVE CordzInv'
  <2>1. CASE Snapshot(p) \/ Head(p) \/ RefCordRep(p)
    BY <2>1, SnapshotKeeps, HeadKeeps, RefCordRepKeeps
  <2>2. CASE UnrefCordRep(p) \/ NextInfo(p)
    BY <2>2, UnrefCordRepKeeps, NextInfoKeeps
  <2>3. CASE EndSnapshot(p) \/ DeleteQueued(p)
    BY <2>3, EndSnapshotKeeps, DeleteQueuedKeeps
  <2> QED
    BY <1>2, <2>1, <2>2, <2>3 DEF ProfilerStep
<1> QED
  BY <1>1, <1>2 DEF Next

\* and so does none.
LEMMA CordzStands ==
  ASSUME CordzInfoAssumption, CordzInv, UNCHANGED vars PROVE CordzInv'
<1>1. /\ UNCHANGED <<cords, reps, handles, rep_, mutex_, list, queue, op, profiler>>
      /\ UNCHANGED <<tree, cordz_info, refcount, disturbed, new, alive>>
  BY DEF vars, cords, reps, handles
<1>2. CordTypes' /\ ListTypes' /\ QueueTypes'
  BY <1>1 DEF CordzInv, CordzTypes, CordTypes, ListTypes, QueueTypes, list, queue
<1>3. \A d \in Cords : CordOk(d)' /\ ChangeOk(d)' /\ MutexOk(d)'
  BY <1>1, CordsSeeNothing
<1>4. \A p \in Profilers : WalkOk(p)'
  BY <1>1, WalksStand
<1>5. CountsOk'
  <2>1. Owners' = Owners
    BY <1>1 DEF Owners
  <2>2. \A i \in Infos : OwnedOf'[i] = OwnedOf[i]
    BY <1>1, <2>1 DEF OwnedOf
  <2>3. \A d \in Cords : OldOf'[d] = OldOf[d]
    BY <1>1 DEF OldOf
  <2>4. \A p \in Profilers : RepOf'[p] = RepOf[p]
    BY <1>1 DEF RepOf
  <2> QED
    BY <1>1, <2>2, <2>3, <2>4, HoldersStand
<1>6. CordInfosOk'
  BY <1>1 DEF CordzInv, CordInfosOk, list
<1>7. Linked' = Linked /\ Leaving' = Leaving
  BY <1>1, AtStands DEF Linked, Leaving
<1>8. ListOk'
  BY <1>1, <1>7, ListStands DEF CordzInv
<1>9. QueueStandsStill
  <2>1. Active' = Active
    BY <1>1 DEF Active
  <2> QED
    BY <1>1, <1>7, <2>1 DEF QueueStandsStill, list
<1>10. QueueOk'
  BY <1>9, QueueStands DEF CordzInv, CordzTypes
<1> QED
  BY <1>2, <1>3, <1>4, <1>5, <1>6, <1>8, <1>10 DEF CordzInv, CordzTypes

\* Each count is the number of its holders.
LEMMA HoldersCount ==
  ASSUME CordzInfoAssumption, CordzInv PROVE CountsAreHolders
<1> SUFFICES ASSUME NEW r \in Reps
             PROVE  refcount[r] =
                      Cardinality({c \in Cords : tree[c] = r})
                      + Cardinality({c \in Cords : op[c].pc \notin {"idle", "update", "change", "unlock"} /\ op[c].old = r})
                      + Cardinality({p \in Profilers : profiler[p].rep = r})
                      + Cardinality({i \in Owners : rep_[i] = r})
  BY DEF CountsAreHolders
<1>1. r # None
  BY DEF CordzInfoAssumption
<1>2. {c \in Cords : op[c].pc \notin {"idle", "update", "change", "unlock"} /\ op[c].old = r} = {c \in Cords : OldOf[c] = r}
  <2>1. \A c \in Cords : op[c].pc \in Moving <=> op[c].pc \notin {"idle", "update", "change", "unlock"}
    BY ThePlaces DEF CordzInv, CordzTypes, Moving, Resting
  <2> QED
    BY <1>1, <2>1 DEF OldOf
<1>3. {p \in Profilers : profiler[p].rep = r} = {p \in Profilers : RepOf[p] = r}
  BY DEF RepOf
<1>4. {i \in Owners : rep_[i] = r} = {i \in Infos : OwnedOf[i] = r}
  <2>1. Owners \subseteq Infos
    BY DEF Owners
  <2> QED
    BY <1>1, <2>1 DEF OwnedOf
<1>5. refcount[r] = Holders(r)
  BY DEF CordzInv, CountsOk
<1> QED
  BY <1>2, <1>3, <1>4, <1>5 DEF Holders, Count

\* When all is done, only what is tracked is left: without a snapshot the queue is empty.
LEMMA NoneLeaked ==
  ASSUME CordzInfoAssumption, CordzInv PROVE NothingIsLeaked
<1> SUFFICES ASSUME \A p \in Profilers : profiler[p] = NoSnapshot, \A c \in Cords : op[c] = Idle
             PROVE  alive = {cordz_info[c] : c \in Cords} \ {None}
  BY DEF NothingIsLeaked
<1>1. PICK Q \in SUBSET Handles : PlacesOk(Q) /\ \E pos \in [Handles -> Nat] : QueueIs(Q, pos)
  BY TheQueue
<1>2. Active = {} /\ Deleting = {}
  BY DEF Active, Deleting, NoSnapshot, Walking
<1>3. Q = {}
  BY <1>1, <1>2 DEF QueueIs, SnapshotFirst, PlacesOk
<1>4. Linked = {cordz_info[c] : c \in Cords} \ {None} /\ Leaving = {}
  BY DEF Linked, Leaving, At, InList, Resting, OnTheWay, Idle
<1> QED
  BY <1>1, <1>2, <1>3, <1>4 DEF PlacesOk

\* A walk of the list meets what is linked.
LEMMA ListLeads ==
  ASSUME CordzInfoAssumption, CordzInv PROVE ListIsExact
<1>1. Linked \in SUBSET Infos /\ None \notin Infos
  BY DEF Linked, At, CordzInv, CordzTypes, CordTypes, CordzInfoAssumption
<1>2. PICK pos \in [Infos -> Nat] : Chain(Linked, pos, head, ci_next_, ci_prev_)
  BY DEF CordzInv, ListOk
<1>3. Listed \subseteq Linked
  <2>1. Linked \cup {None} \in SUBSET (Infos \cup {None}) /\ head \in Linked \cup {None}
        /\ \A j \in (Linked \cup {None}) \ {None} : ci_next_[j] \in Linked \cup {None}
    BY <1>1, <1>2 DEF Chain
  <2>2. \A i \in Listed : i \in Linked \cup {None} /\ i \in Infos
    BY <2>1 DEF Listed
  <2> QED
    BY <1>1, <2>2
<1>4. ASSUME NEW closed \in SUBSET (Infos \cup {None}), head \in closed,
             \A j \in closed \ {None} : ci_next_[j] \in closed
      PROVE  Linked \subseteq closed
  <2>1. \A j \in closed \cap Linked : ci_next_[j] \in closed
    BY <1>1, <1>4
  <2> QED
    BY ONLY <1>1, <1>2, <1>4, <2>1, ChainDown
<1>5. Linked \subseteq Listed
  BY <1>1, <1>4 DEF Listed
<1>6. Linked = {cordz_info[c] : c \in {d \in Cords : op[d].pc \in {"idle", "update", "change", "unlock", "unlink"}}} \ {None}
  <2>1. InList = {"idle", "update", "change", "unlock", "unlink"}
    BY DEF InList, Resting
  <2> QED
    BY <2>1 DEF Linked, At
<1> QED
  BY <1>3, <1>5, <1>6 DEF ListIsExact

\* All of it.
LEMMA CordzHolds ==
  ASSUME CordzInfoAssumption, CordzInv
  PROVE  CountsAreHolders /\ NothingIsLeaked /\ ListIsExact /\ InspectedIsAlive /\ AnalyzedIsStable
<1>1. AnalyzedIsStable
  BY DEF AnalyzedIsStable, CordzInv, CordzTypes, CordTypes
<1> QED
  BY <1>1, HoldersCount, NoneLeaked, ListLeads, InspectedLives

\* Whatever the threads of any cords and profilers do: none of the counts is off, none of the
\* infos is leaked or missing from the list, and what a profiler sees stays while it sees it.
THEOREM CordzIsSafe ==
  ASSUME CordzInfoAssumption
  PROVE  Spec => [](/\ CountsAreHolders /\ NothingIsLeaked /\ ListIsExact
                    /\ InspectedIsAlive /\ AnalyzedIsStable)
<1>1. Init => CordzInv
  BY CordzBegins
<1>2. CordzInv /\ [Next]_vars => CordzInv'
  BY CordzKeeps, CordzStands
<1>3. CordzInv => /\ CountsAreHolders /\ NothingIsLeaked /\ ListIsExact
                  /\ InspectedIsAlive /\ AnalyzedIsStable
  BY CordzHolds
<1> QED
  BY <1>1, <1>2, <1>3, PTL DEF Spec
=============================================================================
