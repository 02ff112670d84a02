---------------------------- MODULE CondVar_proofs ----------------------------
(***************************************************************************)
(* Proofs about Mutex and CondVar, for any number of threads that run any  *)
(* legal programs, in any order of priorities. There are two parts.        *)
(*                                                                         *)
(* The lock. The inductive invariant MInv says where in a call a thread    *)
(* may hold the lock and what it will hold at the end (Calls), who has the *)
(* spinlock in the word and what the word is meanwhile (Spin), and what    *)
(* the bits and the reader count of the word say of the holders (Word).    *)
(*                                                                         *)
(* The queue of the mutex and the list of its condition variable: no       *)
(* waiter is lost or listed twice, and calls that wait for a condition     *)
(* return when they may. The inductive invariant CInv says of every thread *)
(* where it is listed, and that it waits there for what it should (Lists), *)
(* what the bits of the word say of the queue (Bits), that a designated    *)
(* waker is awake (Desig), what an unlocker remembers of its search        *)
(* (Searches), and what a thread in a call waits for (Conds). Most steps   *)
(* leave the lists alone (Simple); the others move a few threads from one  *)
(* list to another (Regroup).                                              *)
(***************************************************************************)
EXTENDS CondVar, FiniteSetTheorems, WellFoundedInduction, TLAPS

-----------------------------------------------------------------------------
(* The lock.                                                               *)

BitFields == {"rdr", "wr", "desig", "wait", "wrwait", "spin", "cnt"}
IsWord(w) == DOMAIN w = BitFields /\ w.cnt \in Nat

LocFields == {"pc", "held", "blocked", "timed", "mode", "v", "w", "pw", "oldh", "wrw",
              "wakes", "fer", "op", "res"}
SynchFields == {"queued", "next", "wake", "sem", "how", "cond"}

\* Where a thread is.
Outside == {"run", "release", "fer", "ferqueue"}
InCalls == {"loop", "block", "remove", "removing", "unlink", "cvblock", "increment", "enqueue"}
Releasing == {"us", "nolist", "list"}
Waking == {"wakeNext", "wakeState", "wakePost"}
Spinning == {"increment", "enqueue", "unlink", "nolist", "list", "ferqueue"}

\* What a thread will hold when its call has ended.
Target(t) ==
  IF \/ loc[t].pc \in InCalls
     \/ loc[t].pc \in Releasing /\ loc[t].mode # "unlock"
     \/ loc[t].pc \in Waking /\ loc[t].mode \in {"block", "cvblock"} THEN synch[t].how
  ELSE IF \/ loc[t].pc \in {"run", "fer", "ferqueue"}
          \/ loc[t].pc \in Waking /\ loc[t].mode = "fer" THEN loc[t].held
  ELSE None

ThreadTypes(t) ==
  /\ DOMAIN loc[t] = LocFields /\ DOMAIN synch[t] = SynchFields
  /\ loc[t].pc \in Outside \cup InCalls \cup Releasing \cup Waking
  /\ loc[t].held \in {None, W, R} /\ synch[t].how \in {W, R}
  /\ IsWord(loc[t].v)
  /\ loc[t].pc \in Releasing => loc[t].mode \in {"unlock", "requeue", "cvenqueue", "cv"}
  /\ loc[t].pc \in Waking => loc[t].mode \in {"run", "block", "cvblock", "fer"}
  /\ loc[t].pc \in Outside \cup InCalls => loc[t].mode = "unlock"
  /\ prog[t] \in Seq(Operations)

\* A call holds the lock where it releases it, and else only the client does.
Call(t) ==
  /\ loc[t].held # None => \/ loc[t].pc \in Outside \cup Releasing
                           \/ loc[t].pc \in Waking /\ loc[t].mode = "fer"
  /\ loc[t].pc \in Releasing => loc[t].held # None
  /\ loc[t].pc = "release" => loc[t].held = W
  /\ loc[t].pc = "increment" => synch[t].how = R
  /\ Legal(prog[t], Target(t))

Calls == \A t \in Threads : ThreadTypes(t) /\ Call(t)

Shapes ==
  /\ IsWord(mu_) /\ DOMAIN head = {"readers", "unlocking"} /\ head.readers \in Nat
  /\ DOMAIN loc = Threads /\ DOMAIN synch = Threads /\ DOMAIN prog = Threads

\* One thread has the spinlock; nobody else sets or clears the wait bit then, and
\* nobody else touches the word at all while an unlocker looks at the queue.
Spin ==
  /\ \A t, u \in Threads : loc[t].pc \in Spinning /\ loc[u].pc \in Spinning => t = u
  /\ mu_.spin <=> \E t \in Threads : loc[t].pc \in Spinning
  /\ \A t \in Threads :
       /\ loc[t].pc \in Spinning => (mu_.wait <=> loc[t].pc # "nolist")
       /\ loc[t].pc = "list" => mu_ = [loc[t].v EXCEPT !.spin = TRUE] /\ ~loc[t].v.spin

Readers == {t \in Threads : loc[t].held = R}

\* The bits are those of the holders, of a thread that removes itself, and of a
\* reader that is about to count itself in; the count is that of the readers.
Word ==
  /\ \A t, u \in Threads : loc[t].held = W /\ loc[u].held = W => t = u
  /\ \A t, u \in Threads : ~(loc[t].pc = "unlink" /\ loc[u].held = W)
  /\ mu_.wr <=> \E t \in Threads : loc[t].held = W \/ loc[t].pc = "unlink"
  /\ mu_.rdr <=> \E t \in Threads : loc[t].held = R \/ loc[t].pc = "increment"
  /\ ~(mu_.wr /\ mu_.rdr)
  /\ mu_.wait => mu_.cnt = 0
  /\ (IF mu_.wait THEN head.readers ELSE mu_.cnt) = Cardinality(Readers)

MInv == Shapes /\ Calls /\ Spin /\ Word

-----------------------------------------------------------------------------
(* Programs.                                                               *)

\* The first operation of a legal program is used as it may be, and the rest is legal.
LEMMA LegalStep ==
  ASSUME NEW p \in Seq(Operations), p # <<>>, NEW before, Legal(p, before)
  PROVE  /\ Head(p) \in Operations /\ Tail(p) \in Seq(Operations)
         /\ \E after \in {None, W, R} : Uses(Head(p), before, after) /\ Legal(Tail(p), after)
<1>1. PICK held \in [1..Len(p) + 1 -> {None, W, R}] :
        held[1] = before /\ \A i \in 1..Len(p) : Uses(p[i], held[i], held[i + 1])
  BY DEF Legal
<1>2. Len(p) \in Nat \ {0} /\ Head(p) = p[1] /\ Tail(p) \in Seq(Operations) /\ Len(Tail(p)) = Len(p) - 1
      /\ \A i \in 1..Len(Tail(p)) : Tail(p)[i] = p[i + 1]
  OBVIOUS
<1>3. Legal(Tail(p), held[2])
  <2> DEFINE rest == [i \in 1..Len(Tail(p)) + 1 |-> held[i + 1]]
  <2>1. rest \in [1..Len(Tail(p)) + 1 -> {None, W, R}] /\ rest[1] = held[2]
    BY <1>2
  <2>2. \A i \in 1..Len(Tail(p)) : Uses(Tail(p)[i], rest[i], rest[i + 1])
    BY <1>1, <1>2
  <2> QED
    BY <2>1, <2>2 DEF Legal
<1>4. Uses(Head(p), before, held[2]) /\ held[2] \in {None, W, R}
  BY <1>1, <1>2
<1> QED
  BY <1>2, <1>3, <1>4

\* A set of numbers has a least one (Min of the community modules).
LEMMA LeastOne ==
  ASSUME NEW S \in SUBSET Nat, S # {}
  PROVE  Min(S) \in S /\ \A n \in S : Min(S) =< n
<1> DEFINE less == OpToRel(<, Nat)
<1>1. \A n, m \in Nat : n < m => <<n, m>> \in less
  BY DEF OpToRel
<1>2. IsWellFoundedOn(less, Nat)
  BY NatLessThanWellFounded
<1> HIDE DEF less
<1>3. PICK n \in S : \A m \in S : ~(<<m, n>> \in less)
  BY ONLY S \in SUBSET Nat, S # {}, <1>2, WFMin
<1>4. \A m \in S : n =< m
  <2>1. TAKE m \in S
  <2>2. n \in Nat /\ m \in Nat /\ ~(m < n)
    BY <1>1, <1>3
  <2> QED
    BY <2>2
<1> QED
  BY <1>3, <1>4 DEF Min

\* What follows an Unlock is legal for a thread that holds nothing.
LEMMA LegalAfterUnlock ==
  ASSUME NEW p \in Seq(Operations), NEW before, Legal(p, before),
         NEW end \in 1..Len(p), p[end] = "Unlock"
  PROVE  SubSeq(p, end + 1, Len(p)) \in Seq(Operations) /\ Legal(SubSeq(p, end + 1, Len(p)), None)
<1> DEFINE q == SubSeq(p, end + 1, Len(p))
<1>1. PICK held \in [1..Len(p) + 1 -> {None, W, R}] :
        held[1] = before /\ \A i \in 1..Len(p) : Uses(p[i], held[i], held[i + 1])
  BY DEF Legal
<1>2. q \in Seq(Operations) /\ Len(q) = Len(p) - end /\ \A i \in 1..Len(q) : q[i] = p[i + end]
  OBVIOUS
<1>3. held[end + 1] = None
  BY <1>1 DEF Uses, Acquisitions
<1> DEFINE rest == [i \in 1..Len(q) + 1 |-> held[i + end]]
<1>4. rest \in [1..Len(q) + 1 -> {None, W, R}] /\ rest[1] = None
  BY <1>2, <1>3
<1>5. \A i \in 1..Len(q) : Uses(q[i], rest[i], rest[i + 1])
  BY <1>1, <1>2
<1> HIDE DEF q
<1>6. Legal(q, None)
  BY <1>4, <1>5 DEF Legal
<1> QED
  BY <1>2, <1>6 DEF q

-----------------------------------------------------------------------------
(* What all steps have in common: one thread moves, and its step is looked at in  *)
(* terms of where the thread is, what it holds, and the word.                     *)

\* Thread t moves; of the others at most the queueing fields change.
Frame(t) ==
  /\ DOMAIN loc' = Threads /\ DOMAIN synch' = Threads /\ DOMAIN prog' = Threads
  /\ \A u \in Threads \ {t} : /\ loc'[u] = loc[u] /\ prog'[u] = prog[u]
                              /\ DOMAIN synch'[u] = SynchFields /\ synch'[u].how = synch[u].how

LEMMA OthersKept ==
  ASSUME Calls, NEW t \in Threads, Frame(t), ThreadTypes(t)', Call(t)'
  PROVE  Calls'
<1>1. ASSUME NEW u \in Threads \ {t}
      PROVE  ThreadTypes(u)' /\ Call(u)'
  <2>1. loc'[u] = loc[u] /\ prog'[u] = prog[u] /\ DOMAIN synch'[u] = SynchFields
        /\ synch'[u].how = synch[u].how /\ ThreadTypes(u) /\ Call(u)
    BY DEF Frame, Calls
  <2>2. ThreadTypes(u)'
    BY <2>1 DEF ThreadTypes
  <2>3. Target(u)' = Target(u)
    BY <2>1 DEF Target
  <2>4. Call(u)'
    BY <2>1, <2>3 DEF Call
  <2> QED
    BY <2>2, <2>4
<1> QED
  BY <1>1 DEF Calls

\* Thread t is then at l, holds h and is in mode m.
Moved(t, l, h, m) ==
  /\ DOMAIN loc' = Threads /\ \A u \in Threads \ {t} : loc'[u] = loc[u]
  /\ DOMAIN loc'[t] = LocFields
  /\ loc'[t].pc = l /\ loc'[t].held = h /\ loc'[t].mode = m /\ IsWord(loc'[t].v)

\* Nobody changes how a thread acquires.
SynchKept ==
  DOMAIN synch' = Threads
  /\ \A u \in Threads : DOMAIN synch'[u] = SynchFields /\ synch'[u].how = synch[u].how

\* The readers are finitely many, and their number follows who comes and goes.
LEMMA ReaderCount ==
  ASSUME NEW S \in SUBSET Threads, NEW t \in Threads
  PROVE  /\ IsFiniteSet(S) /\ Cardinality(S) \in Nat /\ (Cardinality(S) = 0 <=> S = {})
         /\ t \notin S => Cardinality(S \cup {t}) = Cardinality(S) + 1
         /\ t \in S => /\ Cardinality(S \ {t}) = Cardinality(S) - 1 /\ Cardinality(S) > 0
                       /\ Cardinality(S) = 1 => S = {t}
<1>1. IsFiniteSet(S)
  BY MutexAssumption, FS_Subset
<1>2. Cardinality(S) \in Nat /\ (Cardinality(S) = 0 <=> S = {})
  BY <1>1, FS_CardinalityType, FS_EmptySet
<1>3. t \notin S => Cardinality(S \cup {t}) = Cardinality(S) + 1
  BY <1>1, FS_AddElement
<1>4. t \in S => IsFiniteSet(S \ {t}) /\ Cardinality(S \ {t}) = Cardinality(S) - 1
  BY <1>1, FS_RemoveElement
<1>5. IsFiniteSet(S \ {t}) => (Cardinality(S \ {t}) = 0 <=> S \ {t} = {})
  BY FS_EmptySet
<1> QED
  BY <1>1, <1>2, <1>3, <1>4, <1>5

LEMMA ReadersChange ==
  ASSUME NEW t \in Threads, Frame(t)
  PROVE  /\ loc'[t].held = R => Readers' = Readers \cup {t}
         /\ loc'[t].held # R => Readers' = Readers \ {t}
         /\ (loc'[t].held = R <=> loc[t].held = R) => Readers' = Readers
  BY DEF Frame, Readers

\* A step that neither takes nor releases spinlock or lock.
LEMMA QuietStep ==
  ASSUME MInv, NEW t \in Threads, Frame(t), ThreadTypes(t)', Call(t)', UNCHANGED mu_, UNCHANGED head,
         loc'[t].held = loc[t].held,
         \/ loc[t].pc \notin Spinning /\ loc'[t].pc \notin Spinning
         \/ loc'[t].pc = loc[t].pc /\ loc'[t].v = loc[t].v
  PROVE  MInv'
<1>1. Readers' = Readers
  BY ReadersChange
<1>2. Spin'
  BY DEF MInv, Spin, Frame, Spinning
<1>3. Word'
  BY <1>1 DEF MInv, Word, Frame, Spinning
<1> QED
  BY <1>2, <1>3, OthersKept DEF MInv, Shapes, Frame

\* A step that takes the lock when it is free.
LEMMA AcquiringStep ==
  ASSUME MInv, NEW t \in Threads, Frame(t), ThreadTypes(t)', Call(t)', UNCHANGED head, NEW how \in {W, R}, NEW b,
         CanAcquire(how), mu_' = Acquired(how, b),
         loc[t].held = None, loc'[t].held = how,
         loc[t].pc \notin Spinning, loc'[t].pc \notin Spinning
  PROVE  MInv'
<1> USE MutexAssumption DEF W, R
<1>1. IsWord(mu_)' /\ (mu_'.wait <=> mu_.wait) /\ (mu_'.spin <=> mu_.spin)
      /\ (how = W => mu_'.wr /\ (mu_'.rdr <=> mu_.rdr) /\ mu_'.cnt = mu_.cnt)
      /\ (how = R => (mu_'.wr <=> mu_.wr) /\ mu_'.rdr /\ mu_'.cnt = mu_.cnt + 1)
  <2>1. CASE how = W
    BY <2>1 DEF MInv, Shapes, IsWord, BitFields, Acquired
  <2>2. CASE how = R
    <3>1. DOMAIN mu_ = BitFields /\ mu_.cnt \in Nat
      BY DEF MInv, Shapes, IsWord
    <3>2. DOMAIN mu_' = BitFields /\ (mu_'.wait <=> mu_.wait) /\ (mu_'.spin <=> mu_.spin)
      BY <2>2, <3>1 DEF Acquired, BitFields
    <3>3. mu_'.rdr
      BY <2>2, <3>1 DEF Acquired, BitFields
    <3>4. mu_'.cnt = mu_.cnt + 1
      BY <2>2, <3>1 DEF Acquired, BitFields
    <3>5. mu_'.wr <=> mu_.wr
      BY <2>2, <3>1 DEF Acquired, BitFields
    <3> QED
      BY <2>2, <3>1, <3>2, <3>3, <3>4, <3>5 DEF IsWord
  <2> QED
    BY <2>1, <2>2
<1>2. \A u \in Threads : loc[u].pc # "list"
  BY DEF MInv, Spin, Word, Calls, Call, ThreadTypes, Releasing, Spinning, CanAcquire
<1>3. Spin'
  BY <1>1, <1>2 DEF MInv, Spin, Frame, Spinning
<1>4. ASSUME how = W PROVE Word'
  <2>1. Readers' = Readers /\ mu_'.cnt = mu_.cnt
    BY <1>1, <1>4, ReadersChange
  <2> QED
    BY <1>1, <1>3, <1>4, <2>1 DEF MInv, Word, Frame, Spinning, CanAcquire
<1>5. ASSUME how = R PROVE Word'
  <2>1. Readers' = Readers \cup {t} /\ t \notin Readers /\ mu_'.cnt = mu_.cnt + 1
    BY <1>1, <1>5, ReadersChange DEF Readers
  <2>2. Cardinality(Readers') = Cardinality(Readers) + 1
    BY <2>1, ReaderCount DEF Readers
  <2> QED
    BY <1>1, <1>3, <1>5, <2>1, <2>2 DEF MInv, Word, Frame, Spinning, CanAcquire
<1> QED
  BY <1>1, <1>3, <1>4, <1>5, OthersKept DEF MInv, Shapes, Frame

-----------------------------------------------------------------------------
(* The steps that touch neither lock nor spinlock.                         *)

LEMMA BlockEndKeeps ==
  ASSUME MInv, NEW t \in Threads, BlockEnd(t) PROVE MInv'
<1> USE DEF BlockEnd, At
<1>1. loc[t].pc = "block" /\ UNCHANGED <<mu_, head, prog>>
  BY DEF shared
<1>2. Moved(t, "loop", loc[t].held, loc[t].mode)
  BY DEF MInv, Shapes, Calls, ThreadTypes, Moved, LocFields, IsWord, BitFields
<1>3. SynchKept
  BY DEF MInv, Shapes, Calls, ThreadTypes, SynchKept, SynchFields
<1>4. ThreadTypes(t)' /\ Call(t)' /\ Frame(t)
  BY ONLY <1>1, <1>2, <1>3, MInv, t \in Threads
  DEF MInv, Shapes, Calls, ThreadTypes, Call, Target, Moved, SynchKept, Frame, Outside, InCalls,
      Releasing, Waking, IsWord
<1> QED
  BY <1>1, <1>2, <1>3, <1>4, QuietStep DEF Moved, Spinning

LEMMA DecrementKeeps ==
  ASSUME MInv, NEW t \in Threads, Decrement(t) PROVE MInv'
<1> USE DEF Decrement
<1>1. UNCHANGED <<mu_, head, loc, prog>>
  BY DEF shared
<1>2. SynchKept
  BY DEF MInv, Shapes, Calls, ThreadTypes, SynchKept, SynchFields
<1>3. ThreadTypes(t)' /\ Call(t)' /\ Frame(t)
  BY <1>1, <1>2 DEF MInv, Shapes, Calls, ThreadTypes, Call, Target, SynchKept, Frame
<1> QED
  BY <1>1, <1>3, QuietStep

LEMMA BlockTimeoutKeeps ==
  ASSUME MInv, NEW t \in Threads, BlockTimeout(t) PROVE MInv'
<1> USE DEF BlockTimeout, At, Goto
<1>1. loc[t].pc = "block" /\ UNCHANGED <<mu_, head, prog>>
  BY DEF shared
<1>2. Moved(t, "remove", loc[t].held, loc[t].mode)
  BY DEF MInv, Shapes, Calls, ThreadTypes, Moved, LocFields, IsWord, BitFields
<1>3. SynchKept
  BY DEF MInv, Shapes, Calls, ThreadTypes, SynchKept, SynchFields
<1>4. ThreadTypes(t)' /\ Call(t)' /\ Frame(t)
  BY ONLY <1>1, <1>2, <1>3, MInv, t \in Threads
  DEF MInv, Shapes, Calls, ThreadTypes, Call, Target, Moved, SynchKept, Frame, Outside, InCalls,
      Releasing, Waking, IsWord
<1> QED
  BY <1>1, <1>2, <1>3, <1>4, QuietStep DEF Moved, Spinning

LEMMA TryRemoveNotKeeps ==
  ASSUME MInv, NEW t \in Threads, TryRemoveNot(t) PROVE MInv'
<1> USE DEF TryRemoveNot, At, Goto
<1>1. loc[t].pc = "remove" /\ UNCHANGED <<mu_, head, prog>>
  BY DEF shared
<1>2. Moved(t, "removing", loc[t].held, loc[t].mode)
  BY DEF MInv, Shapes, Calls, ThreadTypes, Moved, LocFields, IsWord, BitFields
<1>3. SynchKept
  BY DEF MInv, Shapes, Calls, ThreadTypes, SynchKept, SynchFields
<1>4. ThreadTypes(t)' /\ Call(t)' /\ Frame(t)
  BY ONLY <1>1, <1>2, <1>3, MInv, t \in Threads
  DEF MInv, Shapes, Calls, ThreadTypes, Call, Target, Moved, SynchKept, Frame, Outside, InCalls,
      Releasing, Waking, IsWord
<1> QED
  BY <1>1, <1>2, <1>3, <1>4, QuietStep DEF Moved, Spinning

LEMMA RemovedKeeps ==
  ASSUME MInv, NEW t \in Threads, Removed(t) PROVE MInv'
<1> USE DEF Removed, At
<1>1. loc[t].pc = "removing" /\ UNCHANGED <<mu_, head, prog>>
  BY DEF shared
<1>2. Moved(t, "block", loc[t].held, loc[t].mode)
  BY DEF MInv, Shapes, Calls, ThreadTypes, Moved, LocFields, IsWord, BitFields
<1>3. SynchKept
  BY DEF MInv, Shapes, Calls, ThreadTypes, SynchKept, SynchFields
<1>4. ThreadTypes(t)' /\ Call(t)' /\ Frame(t)
  BY ONLY <1>1, <1>2, <1>3, MInv, t \in Threads
  DEF MInv, Shapes, Calls, ThreadTypes, Call, Target, Moved, SynchKept, Frame, Outside, InCalls,
      Releasing, Waking, IsWord
<1> QED
  BY <1>1, <1>2, <1>3, <1>4, QuietStep DEF Moved, Spinning

LEMMA TransKeeps ==
  ASSUME MInv, NEW t \in Threads, Trans(t) PROVE MInv'
<1> USE DEF Trans, At
<1>1. loc[t].pc = "cvblock" /\ UNCHANGED <<mu_, head, prog>>
  BY DEF shared
<1>2. Moved(t, "loop", loc[t].held, loc[t].mode)
  BY DEF MInv, Shapes, Calls, ThreadTypes, Moved, LocFields, IsWord, BitFields
<1>3. SynchKept
  BY DEF MInv, Shapes, Calls, ThreadTypes, SynchKept, SynchFields
<1>4. ThreadTypes(t)' /\ Call(t)' /\ Frame(t)
  BY ONLY <1>1, <1>2, <1>3, MInv, t \in Threads
  DEF MInv, Shapes, Calls, ThreadTypes, Call, Target, Moved, SynchKept, Frame, Outside, InCalls,
      Releasing, Waking, IsWord
<1> QED
  BY <1>1, <1>2, <1>3, <1>4, QuietStep DEF Moved, Spinning

LEMMA TimeoutKeeps ==
  ASSUME MInv, NEW t \in Threads, Timeout(t) PROVE MInv'
<1> USE DEF Timeout, At
<1>1. loc[t].pc = "cvblock" /\ UNCHANGED <<mu_, head, prog>>
  BY DEF shared
<1>2. Moved(t, "cvblock", loc[t].held, loc[t].mode)
  BY DEF MInv, Shapes, Calls, ThreadTypes, Moved, LocFields, IsWord, BitFields
<1>3. SynchKept
  BY DEF MInv, Shapes, Calls, ThreadTypes, SynchKept, SynchFields
<1>4. ThreadTypes(t)' /\ Call(t)' /\ Frame(t)
  BY ONLY <1>1, <1>2, <1>3, MInv, t \in Threads
  DEF MInv, Shapes, Calls, ThreadTypes, Call, Target, Moved, SynchKept, Frame, Outside, InCalls,
      Releasing, Waking, IsWord
<1> QED
  BY <1>1, <1>2, <1>3, <1>4, QuietStep DEF Moved, Spinning

LEMMA WakeNextKeeps ==
  ASSUME MInv, NEW t \in Threads, WakeNext(t) PROVE MInv'
<1> USE DEF WakeNext, At, Goto
<1>1. loc[t].pc = "wakeNext" /\ UNCHANGED <<mu_, head, prog>>
  BY DEF shared
<1>2. Moved(t, "wakeState", loc[t].held, loc[t].mode)
  BY DEF MInv, Shapes, Calls, ThreadTypes, Moved, LocFields, IsWord, BitFields
<1>3. SynchKept
  BY DEF MInv, Shapes, Calls, ThreadTypes, SynchKept, SynchFields
<1>4. ThreadTypes(t)' /\ Call(t)' /\ Frame(t)
  BY ONLY <1>1, <1>2, <1>3, MInv, t \in Threads
  DEF MInv, Shapes, Calls, ThreadTypes, Call, Target, Moved, SynchKept, Frame, Outside, InCalls,
      Releasing, Waking, IsWord
<1> QED
  BY <1>1, <1>2, <1>3, <1>4, QuietStep DEF Moved, Spinning

LEMMA WakeStateKeeps ==
  ASSUME MInv, NEW t \in Threads, WakeState(t) PROVE MInv'
<1> USE DEF WakeState, At, Goto
<1>1. loc[t].pc = "wakeState" /\ UNCHANGED <<mu_, head, prog>>
  BY DEF shared
<1>2. Moved(t, "wakePost", loc[t].held, loc[t].mode)
  BY DEF MInv, Shapes, Calls, ThreadTypes, Moved, LocFields, IsWord, BitFields
<1>3. SynchKept
  BY DEF MInv, Shapes, Calls, ThreadTypes, SynchKept, SynchFields
<1>4. ThreadTypes(t)' /\ Call(t)' /\ Frame(t)
  BY ONLY <1>1, <1>2, <1>3, MInv, t \in Threads
  DEF MInv, Shapes, Calls, ThreadTypes, Call, Target, Moved, SynchKept, Frame, Outside, InCalls,
      Releasing, Waking, IsWord
<1> QED
  BY <1>1, <1>2, <1>3, <1>4, QuietStep DEF Moved, Spinning

\* The last to be woken has been: the call goes on, or ends.
LEMMA WakePostKeeps ==
  ASSUME MInv, NEW t \in Threads, WakePost(t) PROVE MInv'
<1> USE DEF WakePost, At
<1>1. loc[t].pc = "wakePost" /\ UNCHANGED <<mu_, head, prog>>
  BY DEF shared
<1>2. \/ Moved(t, "wakeNext", loc[t].held, loc[t].mode)
      \/ Moved(t, loc[t].mode, loc[t].held, "unlock")
  <2> DEFINE l == [loc[t] EXCEPT !.wakes = Tail(@)]
  <2>1. l.pc = loc[t].pc /\ l.held = loc[t].held /\ l.mode = loc[t].mode /\ l.v = loc[t].v
        /\ DOMAIN l = LocFields /\ IsWord(l.v)
    BY DEF MInv, Calls, ThreadTypes, LocFields
  <2>2. \/ loc' = [loc EXCEPT ![t] = [l EXCEPT !.pc = "wakeNext"]]
        \/ loc' = [loc EXCEPT ![t] = [l EXCEPT !.pc = l.mode, !.mode = "unlock"]]
    OBVIOUS
  <2> HIDE DEF l, WakePost
  <2>3. ASSUME loc' = [loc EXCEPT ![t] = [l EXCEPT !.pc = "wakeNext"]]
        PROVE  Moved(t, "wakeNext", loc[t].held, loc[t].mode)
    BY <2>1, <2>3 DEF MInv, Shapes, Moved, LocFields
  <2>4. ASSUME loc' = [loc EXCEPT ![t] = [l EXCEPT !.pc = l.mode, !.mode = "unlock"]]
        PROVE  Moved(t, loc[t].mode, loc[t].held, "unlock")
    BY <2>1, <2>4 DEF MInv, Shapes, Moved, LocFields
  <2> QED
    BY <2>2, <2>3, <2>4
<1>3. SynchKept
  BY DEF MInv, Shapes, Calls, ThreadTypes, SynchKept, SynchFields
<1>4. ThreadTypes(t)' /\ Call(t)' /\ Frame(t)
  BY ONLY <1>1, <1>2, <1>3, MInv, t \in Threads
  DEF MInv, Shapes, Calls, ThreadTypes, Call, Target, Moved, SynchKept, Frame, Outside, InCalls,
      Releasing, Waking, IsWord
<1> QED
  BY <1>1, <1>2, <1>3, <1>4, QuietStep DEF Moved, Spinning, MInv, Calls, ThreadTypes, Waking

LEMMA FerWakeKeeps ==
  ASSUME MInv, NEW t \in Threads, FerWake(t) PROVE MInv'
<1> USE DEF FerWake, Fers, At
<1>1. loc[t].pc = "fer" /\ UNCHANGED <<mu_, head, prog>>
  BY DEF shared
<1>2. Moved(t, "wakeState", loc[t].held, "fer")
  BY DEF MInv, Shapes, Calls, ThreadTypes, Moved, LocFields, IsWord, BitFields
<1>3. SynchKept
  BY DEF MInv, Shapes, Calls, ThreadTypes, SynchKept, SynchFields
<1>4. ThreadTypes(t)' /\ Call(t)' /\ Frame(t)
  BY ONLY <1>1, <1>2, <1>3, MInv, t \in Threads
  DEF MInv, Shapes, Calls, ThreadTypes, Call, Target, Moved, SynchKept, Frame, Outside, InCalls,
      Releasing, Waking, IsWord
<1> QED
  BY <1>1, <1>2, <1>3, <1>4, QuietStep DEF Moved, Spinning

LEMMA SignalledKeeps ==
  ASSUME MInv, NEW t \in Threads, Signalled(t) PROVE MInv'
<1> USE DEF Signalled, At, Idle, Free
<1>1. loc[t].pc = "fer" /\ UNCHANGED <<mu_, head, prog>>
  BY DEF shared
<1>2. Moved(t, "run", loc[t].held, "unlock")
  BY DEF MInv, Shapes, Calls, ThreadTypes, Moved, LocFields, IsWord, BitFields
<1>3. SynchKept
  BY DEF MInv, Shapes, Calls, ThreadTypes, SynchKept, SynchFields
<1>4. ThreadTypes(t)' /\ Call(t)' /\ Frame(t)
  BY ONLY <1>1, <1>2, <1>3, MInv, t \in Threads
  DEF MInv, Shapes, Calls, ThreadTypes, Call, Target, Moved, SynchKept, Frame, Outside, InCalls,
      Releasing, Waking, IsWord
<1> QED
  BY <1>1, <1>2, <1>3, <1>4, QuietStep DEF Moved, Spinning

LEMMA CondVarEnqueueKeeps ==
  ASSUME MInv, NEW t \in Threads, CondVarEnqueue(t) PROVE MInv'
<1> USE DEF CondVarEnqueue, At
<1>1. loc[t].pc \in {"nolist", "list"} /\ loc[t].mode = "cvenqueue" /\ UNCHANGED <<mu_, head, prog>>
  BY DEF shared
<1>2. Moved(t, loc[t].pc, loc[t].held, "cv") /\ loc'[t].v = loc[t].v
  BY DEF MInv, Shapes, Calls, ThreadTypes, Moved, LocFields
<1>3. SynchKept
  BY DEF MInv, Shapes, Calls, ThreadTypes, SynchKept, SynchFields
<1>4. ThreadTypes(t)' /\ Call(t)' /\ Frame(t)
  BY ONLY <1>1, <1>2, <1>3, MInv, t \in Threads
  DEF MInv, Shapes, Calls, ThreadTypes, Call, Target, Moved, SynchKept, Frame, Outside, InCalls,
      Releasing, Waking, IsWord
<1> QED
  BY <1>1, <1>2, <1>3, <1>4, QuietStep DEF Moved

-----------------------------------------------------------------------------
(* The steps that begin a call and touch neither lock nor spinlock.        *)

\* Thread t goes on with its program.
Popped(t) ==
  /\ DOMAIN prog' = Threads /\ \A u \in Threads \ {t} : prog'[u] = prog[u]
  /\ prog'[t] \in Seq(Operations)

\* Thread t acquires as how from now on.
SynchSet(t, how) ==
  /\ DOMAIN synch' = Threads /\ synch'[t].how = how
  /\ \A u \in Threads : DOMAIN synch'[u] = SynchFields /\ (u # t => synch'[u].how = synch[u].how)

LEMMA StartIsLegal ==
  ASSUME MInv, NEW t \in Threads, NEW ops, Starts(t, ops), Pop(t)
  PROVE  /\ loc[t].pc = "run" /\ loc[t].mode = "unlock" /\ Head(prog[t]) \in ops \cap Operations
         /\ Popped(t)
         /\ \E after \in {None, W, R} : /\ Uses(Head(prog[t]), loc[t].held, after)
                                        /\ Legal(prog'[t], after)
<1>1. loc[t].pc = "run" /\ prog[t] # <<>> /\ Head(prog[t]) \in ops /\ prog[t] \in Seq(Operations)
      /\ loc[t].mode = "unlock"
  BY DEF Starts, At, MInv, Calls, ThreadTypes, Outside
<1>2. Legal(prog[t], loc[t].held)
  BY <1>1 DEF MInv, Calls, Call, Target, InCalls, Releasing, Waking
<1>3. DOMAIN prog' = Threads /\ prog'[t] = Tail(prog[t]) /\ \A u \in Threads \ {t} : prog'[u] = prog[u]
  BY DEF Pop, MInv, Shapes
<1> QED
  BY <1>1, <1>2, <1>3, LegalStep DEF Popped

\* The thread is where its program has it.
LEMMA CallGoesOn ==
  ASSUME MInv, NEW t \in Threads, NEW l, NEW h \in {None, W, R}, NEW m, Moved(t, l, h, m),
         NEW how \in {W, R}, SynchSet(t, how), Popped(t),
         NEW after, Legal(prog'[t], after),
         \/ l = "run" /\ m = "unlock" /\ after = h
         \/ l = "fer" /\ m = "unlock" /\ after = h
         \/ l = "release" /\ m = "unlock" /\ after = None /\ h = W
         \/ l = "us" /\ m = "unlock" /\ after = None /\ h # None
         \/ l = "us" /\ m \in {"requeue", "cvenqueue"} /\ after = how /\ h # None
         \/ l = "loop" /\ m = "unlock" /\ after = how /\ h = None
  PROVE  ThreadTypes(t)' /\ Call(t)' /\ Frame(t)
<1>1. Frame(t)
  BY DEF Moved, SynchSet, Popped, Frame
<1>2. ThreadTypes(t)'
  BY DEF Moved, SynchSet, Popped, ThreadTypes, Outside, InCalls, Releasing, Waking, IsWord
<1>3. Target(t)' = after
  BY DEF Moved, SynchSet, Target, InCalls, Releasing, Waking
<1>4. Call(t)'
  BY <1>3 DEF Moved, SynchSet, Call, Outside, InCalls, Releasing, Waking
<1> QED
  BY <1>1, <1>2, <1>4

LEMMA AwaitKeeps ==
  ASSUME MInv, NEW t \in Threads, Await(t) PROVE MInv'
<1> USE MutexAssumption DEF W, R
<1>1. Starts(t, {"Await", "AwaitWithDeadline"}) /\ Pop(t) /\ UNCHANGED <<mu_, head>>
  BY DEF Await, shared
<1>2. PICK after \in {None, W, R} : Uses(Head(prog[t]), loc[t].held, after) /\ Legal(prog'[t], after)
  BY <1>1, StartIsLegal
<1>3. after = loc[t].held /\ after # None /\ loc[t].pc = "run" /\ Popped(t) /\ loc[t].held \in {None, W, R}
  BY <1>1, <1>2, StartIsLegal DEF Uses, Acquisitions
<1>4. \/ Moved(t, "run", loc[t].held, "unlock") /\ SynchSet(t, synch[t].how)
      \/ Moved(t, "us", loc[t].held, "requeue") /\ SynchSet(t, loc[t].held)
  <2> DEFINE l == [Idle EXCEPT !.held = loc[t].held, !.op = Head(prog[t])]
             m == [l EXCEPT !.pc = "us", !.mode = "requeue", !.blocked = TRUE,
                            !.timed = Head(prog[t]) # "Await"]
  <2>1. DOMAIN l = LocFields /\ l.pc = "run" /\ l.held = loc[t].held /\ l.mode = "unlock" /\ IsWord(l.v)
    BY DEF Idle, Free, LocFields, IsWord, BitFields
  <2>2. DOMAIN m = LocFields /\ m.pc = "us" /\ m.held = loc[t].held /\ m.mode = "requeue" /\ IsWord(m.v)
    BY <2>1 DEF LocFields
  <2>3. \/ loc' = [loc EXCEPT ![t] = l] /\ UNCHANGED synch
        \/ /\ loc' = [loc EXCEPT ![t] = m]
           /\ synch' = [synch EXCEPT ![t].how = loc[t].held, ![t].cond = "data"]
    BY DEF Await
  <2> HIDE DEF l, m
  <2>4. ASSUME loc' = [loc EXCEPT ![t] = l], UNCHANGED synch
        PROVE  Moved(t, "run", loc[t].held, "unlock") /\ SynchSet(t, synch[t].how)
    BY <2>1, <2>4 DEF MInv, Shapes, Calls, ThreadTypes, Moved, SynchSet
  <2>5. ASSUME loc' = [loc EXCEPT ![t] = m]
        PROVE  Moved(t, "us", loc[t].held, "requeue")
    BY <2>2, <2>5 DEF MInv, Shapes, Moved
  <2>6. ASSUME synch' = [synch EXCEPT ![t].how = loc[t].held, ![t].cond = "data"]
        PROVE  SynchSet(t, loc[t].held)
    BY <2>6 DEF MInv, Shapes, Calls, ThreadTypes, SynchSet, SynchFields
  <2> QED
    BY <2>3, <2>4, <2>5, <2>6
<1>5. synch[t].how \in {W, R}
  BY DEF MInv, Calls, ThreadTypes
<1>6. ThreadTypes(t)' /\ Call(t)' /\ Frame(t)
  BY <1>2, <1>3, <1>4, <1>5, CallGoesOn
<1> QED
  BY <1>1, <1>3, <1>4, <1>6, QuietStep DEF Moved, Spinning

LEMMA WriteKeeps ==
  ASSUME MInv, NEW t \in Threads, Write(t) PROVE MInv'
<1> USE MutexAssumption DEF W, R
<1>1. Starts(t, {"Set", "Clear"}) /\ Pop(t) /\ UNCHANGED <<mu_, head, synch>>
  BY DEF Write, shared
<1>2. PICK after \in {None, W, R} : Uses(Head(prog[t]), loc[t].held, after) /\ Legal(prog'[t], after)
  BY <1>1, StartIsLegal
<1>3. after = loc[t].held /\ loc[t].pc = "run" /\ Popped(t) /\ loc[t].held \in {None, W, R}
  BY <1>1, <1>2, StartIsLegal DEF Uses, Acquisitions
<1>4. Moved(t, "run", loc[t].held, "unlock")
  BY DEF Write, MInv, Shapes, Calls, ThreadTypes, Moved, Idle, Free, LocFields, IsWord, BitFields
<1>5. synch[t].how \in {W, R} /\ SynchSet(t, synch[t].how)
  BY <1>1 DEF MInv, Shapes, Calls, ThreadTypes, SynchSet
<1>6. ThreadTypes(t)' /\ Call(t)' /\ Frame(t)
  BY <1>2, <1>3, <1>4, <1>5, CallGoesOn
<1> QED
  BY <1>1, <1>3, <1>4, <1>6, QuietStep DEF Moved, Spinning

LEMMA WaitKeeps ==
  ASSUME MInv, NEW t \in Threads, Wait(t) PROVE MInv'
<1> USE MutexAssumption DEF W, R
<1>1. Starts(t, {"Wait", "WaitWithTimeout"}) /\ UNCHANGED <<mu_, head>>
  BY DEF Wait, shared
<1>2. loc[t].pc = "run" /\ prog[t] \in Seq(Operations) /\ Legal(prog[t], loc[t].held) /\ loc[t].held \in {None, W, R}
      /\ synch[t].how \in {W, R}
  BY <1>1 DEF Starts, At, MInv, Calls, ThreadTypes, Call, Target, InCalls, Releasing, Waking
<1>3. PICK after \in {None, W, R} : Uses(Head(prog[t]), loc[t].held, after) /\ Legal(Tail(prog[t]), after)
  BY <1>1, <1>2, LegalStep DEF Starts
<1>4. after = loc[t].held /\ after # None
  BY <1>1, <1>3 DEF Uses, Acquisitions, Starts
<1>5. Popped(t) /\ Legal(prog'[t], loc[t].held)
  <2>1. CASE Pop(t)
    <3>1. Popped(t)
      BY <1>1, <2>1, StartIsLegal
    <3> QED
      BY <1>3, <1>4, <2>1, <3>1 DEF Pop, MInv, Shapes
  <2>2. CASE UNCHANGED prog
    BY <1>2, <2>2 DEF Popped, MInv, Shapes
  <2> QED
    BY <2>1, <2>2 DEF Wait
<1>6. \/ Moved(t, "run", loc[t].held, "unlock") /\ SynchSet(t, synch[t].how)
      \/ Moved(t, "us", loc[t].held, "cvenqueue") /\ SynchSet(t, loc[t].held)
  <2> DEFINE l == [Idle EXCEPT !.held = loc[t].held]
             m == [Idle EXCEPT !.pc = "us", !.held = loc[t].held, !.mode = "cvenqueue",
                               !.timed = (Head(prog[t]) = "WaitWithTimeout")]
  <2>1. DOMAIN l = LocFields /\ l.pc = "run" /\ l.held = loc[t].held /\ l.mode = "unlock" /\ IsWord(l.v)
    BY DEF Idle, Free, LocFields, IsWord, BitFields
  <2>2. DOMAIN m = LocFields /\ m.pc = "us" /\ m.held = loc[t].held /\ m.mode = "cvenqueue" /\ IsWord(m.v)
    BY DEF Idle, Free, LocFields, IsWord, BitFields
  <2>3. \/ loc' = [loc EXCEPT ![t] = l] /\ UNCHANGED synch
        \/ /\ loc' = [loc EXCEPT ![t] = m]
           /\ synch' = [synch EXCEPT ![t].how = loc[t].held, ![t].cond = None]
    BY DEF Wait
  <2> HIDE DEF l, m
  <2>4. ASSUME loc' = [loc EXCEPT ![t] = l], UNCHANGED synch
        PROVE  Moved(t, "run", loc[t].held, "unlock") /\ SynchSet(t, synch[t].how)
    BY <2>1, <2>4 DEF MInv, Shapes, Calls, ThreadTypes, Moved, SynchSet
  <2>5. ASSUME loc' = [loc EXCEPT ![t] = m]
        PROVE  Moved(t, "us", loc[t].held, "cvenqueue")
    BY <2>2, <2>5 DEF MInv, Shapes, Moved
  <2>6. ASSUME synch' = [synch EXCEPT ![t].how = loc[t].held, ![t].cond = None]
        PROVE  SynchSet(t, loc[t].held)
    BY <2>6 DEF MInv, Shapes, Calls, ThreadTypes, SynchSet, SynchFields
  <2> QED
    BY <2>3, <2>4, <2>5, <2>6
<1>7. ThreadTypes(t)' /\ Call(t)' /\ Frame(t)
  BY <1>2, <1>4, <1>5, <1>6, CallGoesOn
<1> QED
  BY <1>1, <1>2, <1>6, <1>7, QuietStep DEF Moved, Spinning

LEMMA SignalKeeps ==
  ASSUME MInv, NEW t \in Threads, Signal(t) PROVE MInv'
<1> USE MutexAssumption DEF W, R
<1>1. Starts(t, {"Signal", "SignalAll"}) /\ Pop(t) /\ UNCHANGED <<mu_, head, synch>>
  BY DEF Signal, shared
<1>2. PICK after \in {None, W, R} : Uses(Head(prog[t]), loc[t].held, after) /\ Legal(prog'[t], after)
  BY <1>1, StartIsLegal
<1>3. after = loc[t].held /\ loc[t].pc = "run" /\ Popped(t) /\ loc[t].held \in {None, W, R}
  BY <1>1, <1>2, StartIsLegal DEF Uses, Acquisitions
<1>4. Moved(t, "run", loc[t].held, "unlock") \/ Moved(t, "fer", loc[t].held, "unlock")
  BY DEF Signal, MInv, Shapes, Calls, ThreadTypes, Moved, Idle, Free, LocFields, IsWord, BitFields
<1>5. synch[t].how \in {W, R} /\ SynchSet(t, synch[t].how)
  BY <1>1 DEF MInv, Shapes, Calls, ThreadTypes, SynchSet
<1>6. ThreadTypes(t)' /\ Call(t)' /\ Frame(t)
  BY <1>2, <1>3, <1>4, <1>5, CallGoesOn
<1> QED
  BY <1>1, <1>3, <1>4, <1>6, QuietStep DEF Moved, Spinning

\* A failed attempt: the program goes on after the first Unlock.
LEMMA TryLockFailsKeeps ==
  ASSUME MInv, NEW t \in Threads, TryLockFails(t) PROVE MInv'
<1> USE MutexAssumption DEF W, R
<1> DEFINE p == prog[t]
           at == {i \in 1..Len(p) : p[i] = "Unlock"}
           end == IF at # {} THEN Min(at) ELSE 0
<1>1. UNCHANGED <<mu_, head, loc, synch>> /\ prog' = [prog EXCEPT ![t] = SubSeq(p, end + 1, Len(p))]
      /\ loc[t].pc = "run" /\ p # <<>> /\ Head(p) \in {"TryLock", "ReaderTryLock"}
  BY DEF TryLockFails, shared, Starts, At, SelectInSeq
<1>2. p \in Seq(Operations) /\ Legal(p, loc[t].held) /\ loc[t].held \in {None, W, R} /\ synch[t].how \in {W, R}
  BY <1>1 DEF MInv, Calls, ThreadTypes, Call, Target, InCalls, Releasing, Waking
<1>3. loc[t].held = None
  BY <1>1, <1>2, LegalStep DEF Uses, Acquisitions
<1>4. SubSeq(p, end + 1, Len(p)) \in Seq(Operations) /\ Legal(SubSeq(p, end + 1, Len(p)), None)
  <2>1. CASE at = {}
    <3>1. SubSeq(p, end + 1, Len(p)) = p
      BY <1>2, <2>1
    <3> QED
      BY <1>2, <1>3, <3>1
  <2>2. CASE at # {}
    <3>1. at \in SUBSET Nat
      BY <1>2
    <3>2. end \in at
      BY <2>2, <3>1, LeastOne
    <3> QED
      BY <1>2, <3>2, LegalAfterUnlock
  <2> QED
    BY <2>1, <2>2
<1>5. Popped(t) /\ Legal(prog'[t], None)
  BY <1>1, <1>4 DEF Popped, MInv, Shapes
<1>6. Moved(t, "run", None, loc[t].mode) /\ loc[t].mode = "unlock"
  BY <1>1, <1>3 DEF Moved, MInv, Shapes, Calls, ThreadTypes, Outside
<1>7. SynchSet(t, synch[t].how)
  BY <1>1 DEF MInv, Shapes, Calls, ThreadTypes, SynchSet
<1>8. ThreadTypes(t)' /\ Call(t)' /\ Frame(t)
  BY <1>2, <1>5, <1>6, <1>7, CallGoesOn
<1> QED
  BY <1>1, <1>8, QuietStep

-----------------------------------------------------------------------------
(* The steps that take the lock or release it without the spinlock.        *)

\* A writer leaves: nobody else has lock or spinlock with a list to look at.
LEMMA WriterLeaves ==
  ASSUME MInv, NEW t \in Threads, Frame(t), ThreadTypes(t)', Call(t)', UNCHANGED head,
         loc[t].held = W, loc'[t].held = None, loc[t].pc \notin Spinning, loc'[t].pc \notin Spinning,
         mu_' = [mu_ EXCEPT !.wr = FALSE, !.wrwait = FALSE]
  PROVE  MInv'
<1> USE MutexAssumption DEF W, R
<1>1. IsWord(mu_)' /\ (mu_'.wait <=> mu_.wait) /\ (mu_'.spin <=> mu_.spin) /\ (mu_'.rdr <=> mu_.rdr)
      /\ ~mu_'.wr /\ mu_'.cnt = mu_.cnt
  BY DEF MInv, Shapes, IsWord, BitFields
<1>2. \A u \in Threads : loc[u].pc # "list"
  BY DEF MInv, Word, Calls, Call, ThreadTypes, Releasing, Spinning
<1>3. Spin'
  BY <1>1, <1>2 DEF MInv, Spin, Frame, Spinning
<1>4. Readers' = Readers
  BY ReadersChange
<1>5. Word'
  BY <1>1, <1>3, <1>4 DEF MInv, Word, Frame, Spinning
<1> QED
  BY <1>1, <1>3, <1>5, OthersKept DEF MInv, Shapes, Frame

\* A reader leaves whose count is in the word.
LEMMA ReaderLeaves ==
  ASSUME MInv, NEW t \in Threads, Frame(t), ThreadTypes(t)', Call(t)', UNCHANGED head,
         loc[t].held = R, loc'[t].held = None, loc[t].pc \notin Spinning, loc'[t].pc \notin Spinning,
         ~mu_.wait, mu_' = OneReaderLess
  PROVE  MInv'
<1> USE MutexAssumption DEF W, R
<1>1. Readers' = Readers \ {t} /\ t \in Readers
  BY ReadersChange DEF Readers
<1>2. /\ Cardinality(Readers') = Cardinality(Readers) - 1 /\ Cardinality(Readers) > 0
      /\ Cardinality(Readers) \in Nat /\ (Cardinality(Readers') = 0 <=> Readers' = {})
  <2>1. Readers \in SUBSET Threads /\ Readers' \in SUBSET Threads
    BY <1>1 DEF Readers
  <2> QED
    BY <1>1, <2>1, ReaderCount
<1>3. mu_.cnt = Cardinality(Readers)
  BY DEF MInv, Word
<1>4. IsWord(mu_)'
  BY <1>2, <1>3 DEF MInv, Shapes, IsWord, BitFields, OneReaderLess
<1>5. (mu_'.wait <=> mu_.wait) /\ (mu_'.spin <=> mu_.spin) /\ (mu_'.wr <=> mu_.wr)
      /\ mu_'.cnt = mu_.cnt - 1 /\ (mu_'.rdr <=> mu_.cnt # 1)
  BY DEF MInv, Shapes, IsWord, BitFields, OneReaderLess
<1>6. \A u \in Threads : loc[u].pc \notin {"list", "increment"}
  BY DEF MInv, Spin, Spinning
<1>7. Spin'
  BY <1>5, <1>6 DEF MInv, Spin, Frame, Spinning
<1>8. mu_'.rdr <=> \E u \in Threads : loc'[u].held = R \/ loc'[u].pc = "increment"
  <2>1. mu_'.rdr <=> Readers' # {}
    BY <1>2, <1>3, <1>5
  <2>2. \A u \in Threads : loc'[u].pc # "increment"
    BY <1>6 DEF Frame, Spinning
  <2> QED
    BY <2>1, <2>2 DEF Readers
<1>9. Word'
  BY <1>1, <1>2, <1>3, <1>5, <1>7, <1>8 DEF MInv, Word, Frame, Spinning
<1> QED
  BY <1>4, <1>7, <1>9, OthersKept DEF MInv, Shapes, Frame

\* Who has the lock returns, or gives it up to queue itself.
LEMMA GotLockMoves ==
  ASSUME NEW t \in Threads, DOMAIN loc = Threads, NEW how, NEW l,
         DOMAIN l = LocFields, IsWord(l.v), GotLock(t, how, l)
  PROVE  Moved(t, "run", how, "unlock") \/ Moved(t, "us", how, "requeue")
<1> DEFINE r == [Idle EXCEPT !.held = how, !.op = l.op,
                             !.res = synch'[t].cond # None \/ l.op = "none" \/ data]
           b == [l EXCEPT !.pc = "us", !.held = how, !.mode = "requeue"]
<1>1. DOMAIN r = LocFields /\ r.pc = "run" /\ r.held = how /\ r.mode = "unlock" /\ IsWord(r.v)
  <2> HIDE DEF IsWord
  <2>1. DOMAIN r = LocFields /\ r.pc = "run" /\ r.held = how /\ r.mode = "unlock" /\ r.v = Free
    BY DEF Idle, LocFields
  <2>2. IsWord(Free)
    BY DEF IsWord, Free, BitFields
  <2> QED
    BY <2>1, <2>2
<1>2. DOMAIN b = LocFields /\ b.pc = "us" /\ b.held = how /\ b.mode = "requeue" /\ IsWord(b.v)
  BY DEF LocFields
<1>3. loc' = [loc EXCEPT ![t] = r] \/ loc' = [loc EXCEPT ![t] = b]
  BY DEF GotLock
<1> HIDE DEF r, b
<1>4. ASSUME loc' = [loc EXCEPT ![t] = r]
      PROVE  Moved(t, "run", how, "unlock")
  BY <1>1, <1>4 DEF Moved
<1>5. ASSUME loc' = [loc EXCEPT ![t] = b]
      PROVE  Moved(t, "us", how, "requeue")
  BY <1>2, <1>5 DEF Moved
<1> QED
  BY <1>3, <1>4, <1>5

LEMMA LoopAcquireKeeps ==
  ASSUME MInv, NEW t \in Threads, LoopAcquire(t) PROVE MInv'
<1> USE MutexAssumption DEF W, R
<1> DEFINE how == synch[t].how
<1>1. loc[t].pc = "loop" /\ CanAcquire(how) /\ mu_' = Acquired(how, loc[t].blocked)
      /\ UNCHANGED <<head, prog, synch>>
  BY DEF LoopAcquire, At
<1>2. how \in {W, R} /\ loc[t].held = None /\ DOMAIN loc[t] = LocFields /\ IsWord(loc[t].v)
      /\ Legal(prog'[t], how) /\ Popped(t) /\ SynchSet(t, how) /\ DOMAIN loc = Threads
  BY <1>1 DEF MInv, Shapes, Calls, ThreadTypes, Call, Target, InCalls, Outside, Releasing, Waking, Popped, SynchSet
<1>3. Moved(t, "run", how, "unlock") \/ Moved(t, "us", how, "requeue")
  BY <1>2, GotLockMoves DEF LoopAcquire
<1>4. ThreadTypes(t)' /\ Call(t)' /\ Frame(t)
  BY <1>2, <1>3, CallGoesOn
<1> QED
  BY <1>1, <1>2, <1>3, <1>4, AcquiringStep DEF Moved, Spinning

LEMMA LockAnyKeeps ==
  ASSUME MInv, NEW t \in Threads, LockAny(t) PROVE MInv'
<1> USE MutexAssumption DEF W, R
<1> DEFINE a == Acquisitions[Head(prog[t])]
           how == a.how
           l == [Idle EXCEPT !.timed = a.timed,
                             !.op = IF a.when THEN Head(prog[t]) ELSE "none"]
           b == [l EXCEPT !.pc = "loop"]
<1>1. Starts(t, DOMAIN Acquisitions) /\ Pop(t) /\ UNCHANGED head
      /\ synch' = [synch EXCEPT ![t].how = how, ![t].cond = IF a.when THEN "data" ELSE None]
      /\ \/ CanAcquire(how) /\ mu_' = Acquired(how, FALSE) /\ GotLock(t, how, l)
         \/ loc' = [loc EXCEPT ![t] = b] /\ UNCHANGED mu_
  BY DEF LockAny
<1>2. DOMAIN l = LocFields /\ IsWord(l.v) /\ l.held = None /\ l.mode = "unlock"
      /\ DOMAIN b = LocFields /\ IsWord(b.v) /\ b.held = None /\ b.mode = "unlock" /\ b.pc = "loop"
  BY DEF Idle, Free, LocFields, IsWord, BitFields
<1> HIDE DEF l, b
<1>3. PICK after \in {None, W, R} : Uses(Head(prog[t]), loc[t].held, after) /\ Legal(prog'[t], after)
  BY <1>1, StartIsLegal
<1>4. loc[t].held = None /\ after = how /\ how \in {W, R} /\ Popped(t) /\ loc[t].pc = "run" /\ loc[t].mode = "unlock"
  BY <1>1, <1>3, StartIsLegal DEF Uses, Acquisitions
<1>5. SynchSet(t, how)
  BY <1>1, <1>4 DEF SynchSet, MInv, Shapes, Calls, ThreadTypes, SynchFields
<1> HIDE DEF how
<1>6. ASSUME CanAcquire(how), mu_' = Acquired(how, FALSE), GotLock(t, how, l)
      PROVE  MInv'
  <2>1. Moved(t, "run", how, "unlock") \/ Moved(t, "us", how, "requeue")
    BY <1>2, <1>6, GotLockMoves DEF MInv, Shapes
  <2>2. ThreadTypes(t)' /\ Call(t)' /\ Frame(t)
    BY <1>3, <1>4, <1>5, <2>1, CallGoesOn
  <2> QED
    BY <1>1, <1>4, <1>6, <2>1, <2>2, AcquiringStep DEF Moved, Spinning
<1>7. ASSUME loc' = [loc EXCEPT ![t] = b], UNCHANGED mu_
      PROVE  MInv'
  <2>1. Moved(t, "loop", None, "unlock")
    BY <1>2, <1>7 DEF Moved, MInv, Shapes
  <2>2. ThreadTypes(t)' /\ Call(t)' /\ Frame(t)
    BY <1>3, <1>4, <1>5, <2>1, CallGoesOn
  <2> QED
    BY <1>1, <1>4, <1>7, <2>1, <2>2, QuietStep DEF Moved, Spinning
<1> QED
  BY <1>1, <1>6, <1>7

LEMMA TryLockKeeps ==
  ASSUME MInv, NEW t \in Threads, TryLock(t) PROVE MInv'
<1> USE MutexAssumption DEF W, R
<1> DEFINE how == Tries(t)
<1>1. Starts(t, {"TryLock", "ReaderTryLock"}) /\ Pop(t) /\ UNCHANGED <<head, synch>>
      /\ CanAcquire(how) /\ mu_' = Acquired(how, FALSE)
      /\ loc' = [loc EXCEPT ![t] = [Idle EXCEPT !.held = how]]
  BY DEF TryLock
<1>2. PICK after \in {None, W, R} : Uses(Head(prog[t]), loc[t].held, after) /\ Legal(prog'[t], after)
  BY <1>1, StartIsLegal
<1>3. loc[t].held = None /\ after = how /\ how \in {W, R} /\ Popped(t) /\ loc[t].pc = "run"
  BY <1>1, <1>2, StartIsLegal DEF Uses, Acquisitions, Tries
<1> HIDE DEF how
<1>4. Moved(t, "run", how, "unlock")
  BY <1>1 DEF Moved, MInv, Shapes, Idle, Free, LocFields, IsWord, BitFields
<1>5. synch[t].how \in {W, R} /\ SynchSet(t, synch[t].how)
  BY <1>1 DEF MInv, Shapes, Calls, ThreadTypes, SynchSet
<1>6. ThreadTypes(t)' /\ Call(t)' /\ Frame(t)
  BY <1>2, <1>3, <1>4, <1>5, CallGoesOn
<1> QED
  BY <1>1, <1>3, <1>4, <1>6, AcquiringStep DEF Moved, Spinning

LEMMA UnlockKeeps ==
  ASSUME MInv, NEW t \in Threads, Unlock(t) PROVE MInv'
<1> USE MutexAssumption DEF W, R
<1> DEFINE l == [Idle EXCEPT !.held = loc[t].held]
           fast == [l EXCEPT !.pc = "release", !.v = mu_]
           slow == [l EXCEPT !.pc = "us"]
<1>1. Starts(t, {"Unlock"}) /\ Pop(t) /\ UNCHANGED <<head, synch>>
  BY DEF Unlock
<1>2. PICK after \in {None, W, R} : Uses(Head(prog[t]), loc[t].held, after) /\ Legal(prog'[t], after)
  BY <1>1, StartIsLegal
<1>3. loc[t].held \in {W, R} /\ after = None /\ Popped(t) /\ loc[t].pc = "run"
  <2>1. loc[t].held \in {None, W, R}
    BY DEF MInv, Calls, ThreadTypes
  <2> QED
    BY <1>1, <1>2, <2>1, StartIsLegal DEF Uses, Acquisitions
<1>4. \/ loc[t].held = W /\ loc' = [loc EXCEPT ![t] = fast] /\ mu_' = mu_
      \/ loc[t].held = R /\ FastReader /\ loc' = [loc EXCEPT ![t] = Idle] /\ mu_' = OneReaderLess
      \/ loc' = [loc EXCEPT ![t] = slow] /\ mu_' = mu_
  <2>1. l.held = loc[t].held
    BY DEF Idle
  <2>2. CASE loc[t].held = W /\ FastWriter
    BY <2>1, <2>2 DEF Unlock
  <2>3. CASE loc[t].held = R /\ FastReader
    BY <2>1, <2>3 DEF Unlock
  <2>4. CASE ~(loc[t].held = W /\ FastWriter) /\ ~(loc[t].held = R /\ FastReader)
    BY <2>1, <2>4 DEF Unlock
  <2> QED
    BY <2>2, <2>3, <2>4
<1>5. DOMAIN fast = LocFields /\ fast.pc = "release" /\ fast.held = loc[t].held /\ fast.mode = "unlock"
      /\ IsWord(fast.v)
  BY DEF MInv, Shapes, Idle, LocFields
<1>6. DOMAIN slow = LocFields /\ slow.pc = "us" /\ slow.held = loc[t].held /\ slow.mode = "unlock"
      /\ IsWord(slow.v)
  BY DEF Idle, Free, LocFields, IsWord, BitFields
<1> HIDE DEF fast, slow, l
<1>7. synch[t].how \in {W, R} /\ SynchSet(t, synch[t].how)
  BY <1>1 DEF MInv, Shapes, Calls, ThreadTypes, SynchSet
<1>8. ASSUME loc[t].held = W, loc' = [loc EXCEPT ![t] = fast], mu_' = mu_
      PROVE  MInv'
  <2>1. Moved(t, "release", W, "unlock")
    BY <1>5, <1>8 DEF MInv, Shapes, Moved
  <2>2. ThreadTypes(t)' /\ Call(t)' /\ Frame(t)
    BY <1>2, <1>3, <1>7, <2>1, CallGoesOn
  <2> QED
    BY <1>1, <1>3, <1>8, <2>1, <2>2, QuietStep DEF Moved, Spinning
<1>9. ASSUME loc[t].held = R, FastReader, loc' = [loc EXCEPT ![t] = Idle], mu_' = OneReaderLess
      PROVE  MInv'
  <2>1. Moved(t, "run", None, "unlock")
    BY <1>9 DEF MInv, Shapes, Moved, Idle, Free, LocFields, IsWord, BitFields
  <2>2. ThreadTypes(t)' /\ Call(t)' /\ Frame(t)
    BY <1>2, <1>3, <1>7, <2>1, CallGoesOn
  <2> QED
    BY <1>1, <1>3, <1>9, <2>1, <2>2, ReaderLeaves DEF Moved, Spinning, FastReader
<1>10. ASSUME loc' = [loc EXCEPT ![t] = slow], mu_' = mu_
      PROVE  MInv'
  <2>1. Moved(t, "us", loc[t].held, "unlock")
    BY <1>6, <1>10 DEF MInv, Shapes, Moved
  <2>2. ThreadTypes(t)' /\ Call(t)' /\ Frame(t)
    BY <1>2, <1>3, <1>7, <2>1, CallGoesOn
  <2> QED
    BY <1>1, <1>3, <1>10, <2>1, <2>2, QuietStep DEF Moved, Spinning
<1> QED
  BY <1>4, <1>8, <1>9, <1>10

\* A thread within a call.
LEMMA WithinCall ==
  ASSUME MInv, NEW t \in Threads, UNCHANGED prog, UNCHANGED synch
  PROVE  /\ Popped(t) /\ synch[t].how \in {W, R} /\ SynchSet(t, synch[t].how) /\ SynchKept
         /\ Legal(prog'[t], Target(t))
BY DEF MInv, Shapes, Calls, ThreadTypes, Call, Popped, SynchSet, SynchKept

LEMMA ReleaseKeeps ==
  ASSUME MInv, NEW t \in Threads, Release(t) PROVE MInv'
<1> USE MutexAssumption DEF W, R
<1> DEFINE slow == [Idle EXCEPT !.held = W, !.pc = "us"]
<1>1. loc[t].pc = "release" /\ loc[t].held = W /\ UNCHANGED <<head, synch, prog>>
  BY DEF Release, At, MInv, Calls, Call
<1>2. Target(t) = None
  BY <1>1 DEF Target, InCalls, Releasing, Waking
<1>3. \/ loc' = [loc EXCEPT ![t] = Idle] /\ mu_' = [mu_ EXCEPT !.wr = FALSE, !.wrwait = FALSE]
      \/ loc' = [loc EXCEPT ![t] = slow] /\ UNCHANGED mu_
  BY DEF Release
<1>4. DOMAIN slow = LocFields /\ slow.pc = "us" /\ slow.held = W /\ slow.mode = "unlock" /\ IsWord(slow.v)
  BY DEF Idle, Free, LocFields, IsWord, BitFields
<1> HIDE DEF slow
<1>5. ASSUME loc' = [loc EXCEPT ![t] = Idle], mu_' = [mu_ EXCEPT !.wr = FALSE, !.wrwait = FALSE]
      PROVE  MInv'
  <2>1. Moved(t, "run", None, "unlock")
    BY <1>5 DEF MInv, Shapes, Moved, Idle, Free, LocFields, IsWord, BitFields
  <2>2. ThreadTypes(t)' /\ Call(t)' /\ Frame(t)
    BY <1>1, <1>2, <2>1, WithinCall, CallGoesOn
  <2> QED
    BY <1>1, <1>5, <2>1, <2>2, WriterLeaves DEF Moved, Spinning
<1>6. ASSUME loc' = [loc EXCEPT ![t] = slow], UNCHANGED mu_
      PROVE  MInv'
  <2>1. Moved(t, "us", W, "unlock")
    BY <1>4, <1>6 DEF MInv, Shapes, Moved
  <2>2. ThreadTypes(t)' /\ Call(t)' /\ Frame(t)
    BY <1>1, <1>2, <2>1, WithinCall, CallGoesOn
  <2> QED
    BY <1>1, <1>6, <2>1, <2>2, QuietStep DEF Moved, Spinning
<1> QED
  BY <1>3, <1>5, <1>6

LEMMA UnlockFastKeeps ==
  ASSUME MInv, NEW t \in Threads, UnlockFast(t) PROVE MInv'
<1> USE MutexAssumption DEF W, R
<1>1. loc[t].pc = "us" /\ loc[t].mode = "unlock" /\ UNCHANGED <<head, synch, prog>>
      /\ loc' = [loc EXCEPT ![t] = Idle] /\ (FastWriter \/ FastReader)
  BY DEF UnlockFast, At
<1>2. Target(t) = None /\ loc[t].held \in {W, R}
  BY <1>1 DEF Target, InCalls, Releasing, Waking, MInv, Calls, Call, ThreadTypes
<1>3. Moved(t, "run", None, "unlock")
  BY <1>1 DEF MInv, Shapes, Moved, Idle, Free, LocFields, IsWord, BitFields
<1>4. ThreadTypes(t)' /\ Call(t)' /\ Frame(t)
  BY <1>1, <1>2, <1>3, WithinCall, CallGoesOn
<1>5. (mu_.wr => loc[t].held = W) /\ (mu_.rdr => loc[t].held = R)
  BY <1>2 DEF MInv, Word
<1>6. CASE FastWriter
  <2>1. mu_' = [mu_ EXCEPT !.wr = FALSE, !.wrwait = FALSE]
    BY <1>6 DEF UnlockFast
  <2> QED
    BY <1>1, <1>3, <1>4, <1>5, <1>6, <2>1, WriterLeaves DEF Moved, Spinning, FastWriter
<1>7. CASE ~FastWriter /\ FastReader
  <2>1. mu_' = OneReaderLess
    BY <1>7 DEF UnlockFast
  <2> QED
    BY <1>1, <1>3, <1>4, <1>5, <1>7, <2>1, ReaderLeaves DEF Moved, Spinning, FastReader
<1> QED
  BY <1>1, <1>6, <1>7

-----------------------------------------------------------------------------
(* Taking and releasing the spinlock.                                      *)

\* The word says the same of the holders.
SameLock == (mu_'.wr <=> mu_.wr) /\ (mu_'.rdr <=> mu_.rdr) /\ (mu_'.wait <=> mu_.wait) /\ mu_'.cnt = mu_.cnt

LEMMA SpinTaken ==
  ASSUME MInv, NEW t \in Threads, Frame(t), ThreadTypes(t)', Call(t)', UNCHANGED head, SameLock, IsWord(mu_)',
         ~mu_.spin, mu_'.spin, loc'[t].held = loc[t].held,
         loc'[t].pc \in Spinning \ {"increment", "unlink"},
         mu_.wait <=> loc'[t].pc # "nolist",
         loc'[t].pc = "list" => mu_' = [loc'[t].v EXCEPT !.spin = TRUE] /\ ~loc'[t].v.spin
  PROVE  MInv'
<1>1. \A u \in Threads : loc[u].pc \notin Spinning
  BY DEF MInv, Spin
<1>2. Spin'
  BY <1>1 DEF MInv, Spin, Frame, SameLock, Spinning
<1>3. Readers' = Readers
  BY ReadersChange
<1>4. Word'
  BY <1>1, <1>3 DEF MInv, Word, Frame, SameLock, Spinning
<1> QED
  BY <1>2, <1>4, OthersKept DEF MInv, Shapes, Frame

LEMMA SpinReleased ==
  ASSUME MInv, NEW t \in Threads, Frame(t), ThreadTypes(t)', Call(t)', SameLock, IsWord(mu_)',
         DOMAIN head' = {"readers", "unlocking"}, head'.readers = head.readers,
         ~mu_'.spin, loc'[t].held = loc[t].held,
         loc[t].pc \in Spinning \ {"increment", "unlink"}, loc'[t].pc \notin Spinning
  PROVE  MInv'
<1>1. \A u \in Threads \ {t} : loc[u].pc \notin Spinning
  BY DEF MInv, Spin
<1>2. Spin'
  BY <1>1 DEF MInv, Spin, Frame, SameLock, Spinning
<1>3. Readers' = Readers
  BY ReadersChange
<1>4. Word'
  BY <1>1, <1>3 DEF MInv, Word, Frame, SameLock, Spinning
<1> QED
  BY <1>2, <1>4, OthersKept DEF MInv, Shapes, Frame

\* The first waiter takes the reader count with it.
LEMMA CountMoves ==
  ASSUME MInv, NEW t \in Threads, Frame(t), ThreadTypes(t)', Call(t)', IsWord(mu_)',
         ~mu_.spin, ~mu_.wait, mu_'.wait, (mu_'.wr <=> mu_.wr), (mu_'.rdr <=> mu_.rdr), mu_'.cnt = 0,
         ~mu_'.spin, DOMAIN head' = {"readers", "unlocking"}, head'.readers = mu_.cnt,
         loc'[t].held = loc[t].held, loc'[t].pc \notin Spinning
  PROVE  MInv'
<1>1. \A u \in Threads : loc[u].pc \notin Spinning
  BY DEF MInv, Spin
<1>2. Spin'
  BY <1>1 DEF MInv, Spin, Frame, Spinning
<1>3. Readers' = Readers
  BY ReadersChange
<1>4. Word'
  BY <1>1, <1>3 DEF MInv, Word, Frame, Spinning
<1> QED
  BY <1>2, <1>4, OthersKept DEF MInv, Shapes, Frame, IsWord

\* The last holder leaves and releases the spinlock.
LEMMA LastLeaves ==
  ASSUME MInv, NEW t \in Threads, Frame(t), ThreadTypes(t)', Call(t)', IsWord(mu_)',
         \A u \in Threads \ {t} : loc[u].held = None,
         loc[t].pc \in Spinning, loc'[t].pc \notin Spinning, loc'[t].held = None,
         ~mu_'.spin, ~mu_'.wr, ~mu_'.rdr, mu_'.cnt = 0,
         DOMAIN head' = {"readers", "unlocking"}, head'.readers = 0
  PROVE  MInv'
<1> USE MutexAssumption DEF W, R
<1>1. \A u \in Threads \ {t} : loc[u].pc \notin Spinning
  BY DEF MInv, Spin
<1>2. Spin'
  BY <1>1 DEF MInv, Spin, Frame, Spinning
<1>3. Readers' = {}
  BY DEF Readers, Frame
<1>4. Cardinality(Readers') = 0
  BY <1>3, FS_EmptySet
<1>5. Word'
  BY <1>1, <1>4 DEF MInv, Word, Frame, Spinning
<1> QED
  BY <1>2, <1>5, OthersKept DEF MInv, Shapes, Frame

LEMMA LoopQueueKeeps ==
  ASSUME MInv, NEW t \in Threads, LoopQueue(t) PROVE MInv'
<1> USE DEF LoopQueue, At, Goto
<1>1. loc[t].pc = "loop" /\ UNCHANGED <<head, prog, synch>> /\ mu_.wait /\ ~mu_.spin
  OBVIOUS
<1>2. Moved(t, "enqueue", loc[t].held, loc[t].mode)
  BY DEF MInv, Shapes, Calls, ThreadTypes, Moved, LocFields, IsWord, BitFields
<1>3. ThreadTypes(t)' /\ Call(t)' /\ Frame(t)
  BY ONLY <1>1, <1>2, MInv, t \in Threads, WithinCall
  DEF MInv, Shapes, Calls, ThreadTypes, Call, Target, Moved, SynchKept, Frame, Outside, InCalls,
      Releasing, Waking, IsWord
<1>4. SameLock /\ IsWord(mu_)' /\ mu_'.spin
  BY <1>1 DEF MInv, Shapes, SameLock, IsWord, BitFields
<1> QED
  BY ONLY <1>1, <1>2, <1>3, <1>4, MInv, t \in Threads, SpinTaken DEF Moved, Spinning

LEMMA FerSpinKeeps ==
  ASSUME MInv, NEW t \in Threads, FerSpin(t) PROVE MInv'
<1> USE DEF FerSpin, Fers, At, Goto
<1>1. loc[t].pc = "fer" /\ UNCHANGED <<head, prog, synch>> /\ mu_.wait /\ ~mu_.spin
  OBVIOUS
<1>2. Moved(t, "ferqueue", loc[t].held, loc[t].mode)
  BY DEF MInv, Shapes, Calls, ThreadTypes, Moved, LocFields, IsWord, BitFields
<1>3. ThreadTypes(t)' /\ Call(t)' /\ Frame(t)
  BY ONLY <1>1, <1>2, MInv, t \in Threads, WithinCall
  DEF MInv, Shapes, Calls, ThreadTypes, Call, Target, Moved, SynchKept, Frame, Outside, InCalls,
      Releasing, Waking, IsWord
<1>4. SameLock /\ IsWord(mu_)' /\ mu_'.spin
  BY <1>1 DEF MInv, Shapes, SameLock, IsWord, BitFields
<1> QED
  BY ONLY <1>1, <1>2, <1>3, <1>4, MInv, t \in Threads, SpinTaken DEF Moved, Spinning

LEMMA UnlockSpinKeeps ==
  ASSUME MInv, NEW t \in Threads, UnlockSpin(t) PROVE MInv'
<1> USE DEF UnlockSpin, At
<1>1. loc[t].pc = "us" /\ UNCHANGED <<head, prog, synch>> /\ ~mu_.spin /\ mu_' = [mu_ EXCEPT !.spin = TRUE]
  OBVIOUS
<1>2. /\ Moved(t, loc'[t].pc, loc[t].held, loc[t].mode) /\ loc'[t].v = mu_
      /\ loc'[t].pc = IF mu_.wait THEN "list" ELSE "nolist"
  BY DEF MInv, Shapes, Calls, ThreadTypes, Moved, LocFields
<1>3. ThreadTypes(t)' /\ Call(t)' /\ Frame(t)
  BY ONLY <1>1, <1>2, MInv, t \in Threads, WithinCall
  DEF MInv, Shapes, Calls, ThreadTypes, Call, Target, Moved, SynchKept, Frame, Outside, InCalls,
      Releasing, Waking, IsWord
<1>4. SameLock /\ IsWord(mu_)' /\ mu_'.spin
  BY <1>1 DEF MInv, Shapes, SameLock, IsWord, BitFields
<1> QED
  BY ONLY <1>1, <1>2, <1>3, <1>4, MInv, t \in Threads, SpinTaken DEF Moved, Spinning

\* What a thread writes that queues itself, or another.
LEMMA QueuedKept ==
  ASSUME MInv, NEW x, NEW c, synch' = [synch EXCEPT ![x] = Queued(@, synch[x].how, c)]
  PROVE  SynchKept
<1> DEFINE s == Queued(synch[x], synch[x].how, c)
<1>1. x \in Threads => DOMAIN s = SynchFields /\ s.how = synch[x].how
  BY DEF MInv, Calls, ThreadTypes, Queued, SynchFields
<1>2. synch' = [synch EXCEPT ![x] = s]
  OBVIOUS
<1> HIDE DEF s
<1> QED
  BY <1>1, <1>2 DEF MInv, Shapes, Calls, ThreadTypes, SynchKept

LEMMA LoopEnqueueKeeps ==
  ASSUME MInv, NEW t \in Threads, LoopEnqueue(t) PROVE MInv'
<1> USE DEF LoopEnqueue, At, Goto
<1>1. loc[t].pc = "enqueue" /\ UNCHANGED <<head, prog>>
  OBVIOUS
<1>2. Moved(t, "block", loc[t].held, loc[t].mode)
  BY DEF MInv, Shapes, Calls, ThreadTypes, Moved, LocFields, IsWord, BitFields
<1>3. SynchKept
  BY QueuedKept
<1>4. ThreadTypes(t)' /\ Call(t)' /\ Frame(t)
  BY ONLY <1>1, <1>2, <1>3, MInv, t \in Threads
  DEF MInv, Shapes, Calls, ThreadTypes, Call, Target, Moved, SynchKept, Frame, Outside, InCalls,
      Releasing, Waking, IsWord
<1>5. mu_.wait
  BY <1>1 DEF MInv, Spin, Spinning
<1>6. SameLock /\ IsWord(mu_)' /\ ~mu_'.spin
  BY <1>5 DEF MInv, Shapes, SameLock, IsWord, BitFields
<1> QED
  BY ONLY <1>1, <1>2, <1>4, <1>6, MInv, t \in Threads, SpinReleased DEF Moved, Spinning, MInv, Shapes

LEMMA SearchKeeps ==
  ASSUME MInv, NEW t \in Threads, Search(t) PROVE MInv'
<1> USE DEF At
<1>1. loc[t].pc = "list" /\ mu_' = loc[t].v /\ UNCHANGED prog
      /\ head' = [head EXCEPT !.unlocking = TRUE]
  BY DEF Search
<1>2. Moved(t, "us", loc[t].held, loc[t].mode)
  <2>1. DOMAIN loc = Threads /\ DOMAIN loc[t] = LocFields
    BY DEF MInv, Shapes, Calls, ThreadTypes
  <2>2. /\ DOMAIN loc' = DOMAIN loc /\ \A u \in Threads \ {t} : loc'[u] = loc[u]
        /\ DOMAIN loc'[t] = DOMAIN loc[t] /\ loc'[t].pc = "us" /\ loc'[t].v = Free
        /\ loc'[t].held = loc[t].held /\ loc'[t].mode = loc[t].mode
    BY <2>1 DEF Search, LocFields
  <2>3. IsWord(Free)
    BY DEF Free, IsWord, BitFields
  <2> QED
    BY ONLY <2>1, <2>2, <2>3 DEF Moved
<1>3. SynchKept
  <2>1. PICK seen, woken :
          synch' = [x \in Threads |-> IF x \in ToSet(seen)
                      THEN [synch[x] EXCEPT !.wake = x \in woken] ELSE synch[x]]
    BY DEF Search
  <2> HIDE DEF ToSet
  <2> QED
    BY <2>1 DEF MInv, Shapes, Calls, ThreadTypes, SynchKept, SynchFields
<1>4. ThreadTypes(t)' /\ Call(t)' /\ Frame(t)
  BY ONLY <1>1, <1>2, <1>3, MInv, t \in Threads
  DEF MInv, Shapes, Calls, ThreadTypes, Call, Target, Moved, SynchKept, Frame, Outside, InCalls,
      Releasing, Waking, IsWord
<1>5. mu_ = [loc[t].v EXCEPT !.spin = TRUE] /\ ~loc[t].v.spin /\ IsWord(loc[t].v)
  BY <1>1 DEF MInv, Spin, Calls, ThreadTypes
<1>6. SameLock /\ IsWord(mu_)' /\ ~mu_'.spin
  BY <1>1, <1>5 DEF SameLock, IsWord, BitFields
<1>7. DOMAIN head' = {"readers", "unlocking"} /\ head'.readers = head.readers
  BY <1>1 DEF MInv, Shapes
<1> QED
  BY ONLY <1>1, <1>2, <1>4, <1>6, <1>7, MInv, t \in Threads, SpinReleased DEF Moved, Spinning

LEMMA LoopFirstWaiterKeeps ==
  ASSUME MInv, NEW t \in Threads, LoopFirstWaiter(t) PROVE MInv'
<1> USE DEF LoopFirstWaiter, At, Goto
<1>1. loc[t].pc = "loop" /\ UNCHANGED prog /\ ~mu_.spin /\ ~mu_.wait
      /\ head' = [readers |-> mu_.cnt, unlocking |-> FALSE]
  OBVIOUS
<1>2. Moved(t, "block", loc[t].held, loc[t].mode)
  BY DEF MInv, Shapes, Calls, ThreadTypes, Moved, LocFields, IsWord, BitFields
<1>3. SynchKept
  BY QueuedKept
<1>4. ThreadTypes(t)' /\ Call(t)' /\ Frame(t)
  BY ONLY <1>1, <1>2, <1>3, MInv, t \in Threads
  DEF MInv, Shapes, Calls, ThreadTypes, Call, Target, Moved, SynchKept, Frame, Outside, InCalls,
      Releasing, Waking, IsWord
<1>5. mu_'.wait /\ (mu_'.wr <=> mu_.wr) /\ (mu_'.rdr <=> mu_.rdr) /\ mu_'.cnt = 0 /\ ~mu_'.spin /\ IsWord(mu_)'
  BY <1>1 DEF MInv, Shapes, IsWord, BitFields
<1>6. DOMAIN head' = {"readers", "unlocking"} /\ head'.readers = mu_.cnt
  BY <1>1
<1> QED
  BY ONLY <1>1, <1>2, <1>4, <1>5, <1>6, MInv, t \in Threads, CountMoves DEF Moved, Spinning

LEMMA FerAloneKeeps ==
  ASSUME MInv, NEW t \in Threads, FerAlone(t) PROVE MInv'
<1> USE DEF FerAlone, Fers, At
<1>1. loc[t].pc = "fer" /\ UNCHANGED prog /\ ~mu_.spin /\ ~mu_.wait
      /\ head' = [readers |-> mu_.cnt, unlocking |-> FALSE]
  OBVIOUS
<1>2. Moved(t, "fer", loc[t].held, loc[t].mode)
  BY DEF MInv, Shapes, Calls, ThreadTypes, Moved, LocFields, IsWord, BitFields
<1>3. SynchKept
  BY QueuedKept
<1>4. ThreadTypes(t)' /\ Call(t)' /\ Frame(t)
  BY ONLY <1>1, <1>2, <1>3, MInv, t \in Threads
  DEF MInv, Shapes, Calls, ThreadTypes, Call, Target, Moved, SynchKept, Frame, Outside, InCalls,
      Releasing, Waking, IsWord
<1>5. mu_'.wait /\ (mu_'.wr <=> mu_.wr) /\ (mu_'.rdr <=> mu_.rdr) /\ mu_'.cnt = 0 /\ ~mu_'.spin /\ IsWord(mu_)'
  BY <1>1 DEF MInv, Shapes, IsWord, BitFields
<1>6. DOMAIN head' = {"readers", "unlocking"} /\ head'.readers = mu_.cnt
  BY <1>1
<1> QED
  BY ONLY <1>1, <1>2, <1>4, <1>5, <1>6, MInv, t \in Threads, CountMoves DEF Moved, Spinning

LEMMA FerQueueKeeps ==
  ASSUME MInv, NEW t \in Threads, FerQueue(t) PROVE MInv'
<1> USE DEF FerQueue, At
<1>1. loc[t].pc = "ferqueue" /\ UNCHANGED <<head, prog>>
  OBVIOUS
<1>2. Moved(t, "fer", loc[t].held, loc[t].mode)
  BY DEF MInv, Shapes, Calls, ThreadTypes, Moved, LocFields, IsWord, BitFields
<1>3. SynchKept
  BY QueuedKept
<1>4. ThreadTypes(t)' /\ Call(t)' /\ Frame(t)
  BY ONLY <1>1, <1>2, <1>3, MInv, t \in Threads
  DEF MInv, Shapes, Calls, ThreadTypes, Call, Target, Moved, SynchKept, Frame, Outside, InCalls,
      Releasing, Waking, IsWord
<1>5. mu_.wait
  BY <1>1 DEF MInv, Spin, Spinning
<1>6. SameLock /\ IsWord(mu_)' /\ ~mu_'.spin
  BY <1>5 DEF MInv, Shapes, SameLock, IsWord, BitFields
<1> QED
  BY ONLY <1>1, <1>2, <1>4, <1>6, MInv, t \in Threads, SpinReleased DEF Moved, Spinning, MInv, Shapes

-----------------------------------------------------------------------------
(* The steps that change the lock under the spinlock.                      *)

\* A reader takes the spinlock and sets the reader bit: no writer has the lock.
LEMMA LoopIncrementKeeps ==
  ASSUME MInv, NEW t \in Threads, LoopIncrement(t) PROVE MInv'
<1> USE MutexAssumption DEF W, R
<1>1. loc[t].pc = "loop" /\ UNCHANGED <<head, prog, synch>> /\ mu_.wait /\ ~mu_.spin /\ ~mu_.wr /\ synch[t].how = R
      /\ mu_' = [mu_ EXCEPT !.desig = @ /\ ~loc[t].blocked, !.spin = TRUE, !.rdr = TRUE]
  BY DEF LoopIncrement, MayIncrement, At
<1>2. Moved(t, "increment", loc[t].held, loc[t].mode) /\ loc[t].held = None
  <2>1. Moved(t, "increment", loc[t].held, loc[t].mode)
    BY <1>1 DEF LoopIncrement, Goto, MInv, Shapes, Calls, ThreadTypes, Moved, LocFields, IsWord, BitFields
  <2>2. loc[t].held = None
    BY <1>1 DEF MInv, Calls, Call, Outside, Releasing, Waking
  <2> QED
    BY <2>1, <2>2
<1>3. ThreadTypes(t)' /\ Call(t)' /\ Frame(t)
  BY ONLY <1>1, <1>2, MInv, t \in Threads, WithinCall
  DEF MInv, Shapes, Calls, ThreadTypes, Call, Target, Moved, SynchKept, Frame, Outside, InCalls,
      Releasing, Waking, IsWord
<1>4. IsWord(mu_)' /\ mu_'.spin /\ mu_'.rdr /\ ~mu_'.wr /\ mu_'.wait /\ mu_'.cnt = mu_.cnt
  BY <1>1 DEF MInv, Shapes, IsWord, BitFields
<1>5. \A u \in Threads : loc[u].pc \notin Spinning
  BY <1>1 DEF MInv, Spin
<1>6. Readers' = Readers
  BY <1>2, <1>3, ReadersChange DEF Moved
<1>7. Spin'
  BY ONLY <1>1, <1>2, <1>4, <1>5, MInv, t \in Threads DEF MInv, Spin, Moved, Spinning
<1>8. Word'
  BY ONLY <1>1, <1>2, <1>4, <1>5, <1>6, MInv, t \in Threads, MutexAssumption DEF MInv, Word, Moved, Spinning, W, R
<1> QED
  BY <1>1, <1>3, <1>4, <1>7, <1>8, OthersKept DEF MInv, Shapes, Frame

\* It counts itself in.
LEMMA IncrementKeeps ==
  ASSUME MInv, NEW t \in Threads, Increment(t) PROVE MInv'
<1> USE MutexAssumption DEF W, R
<1>1. loc[t].pc = "increment" /\ UNCHANGED <<prog, synch>> /\ head' = [head EXCEPT !.readers = @ + 1]
      /\ mu_' = [mu_ EXCEPT !.spin = FALSE, !.rdr = TRUE] /\ GotLock(t, R, loc[t])
  BY DEF Increment, At
<1>2. synch[t].how = R /\ loc[t].held = None /\ DOMAIN loc[t] = LocFields /\ IsWord(loc[t].v)
      /\ Legal(prog'[t], R) /\ Popped(t) /\ SynchSet(t, R) /\ DOMAIN loc = Threads
  BY <1>1 DEF MInv, Shapes, Calls, ThreadTypes, Call, Target, InCalls, Outside, Releasing, Waking, Popped, SynchSet
<1>3. Moved(t, "run", R, "unlock") \/ Moved(t, "us", R, "requeue")
  BY <1>1, <1>2, GotLockMoves
<1>4. ThreadTypes(t)' /\ Call(t)' /\ Frame(t)
  BY <1>2, <1>3, CallGoesOn
<1>5. \A u \in Threads \ {t} : loc[u].pc \notin Spinning
  BY <1>1 DEF MInv, Spin, Spinning
<1>6. mu_.wait /\ mu_.rdr /\ ~mu_.wr
  BY <1>1 DEF MInv, Spin, Word, Spinning
<1>7. IsWord(mu_)' /\ ~mu_'.spin /\ mu_'.rdr /\ ~mu_'.wr /\ mu_'.wait /\ mu_'.cnt = mu_.cnt
  BY <1>1, <1>6 DEF MInv, Shapes, IsWord, BitFields
<1>8. DOMAIN head' = {"readers", "unlocking"} /\ head'.readers = head.readers + 1
  BY <1>1 DEF MInv, Shapes
<1>9. Cardinality(Readers') = Cardinality(Readers) + 1
  <2>1. Readers' = Readers \cup {t} /\ t \notin Readers /\ Readers \in SUBSET Threads
    BY <1>2, <1>3, <1>4, ReadersChange DEF Readers, Moved
  <2> QED
    BY <2>1, ReaderCount
<1>10. Spin'
  BY ONLY <1>1, <1>3, <1>5, <1>7, MInv, t \in Threads DEF MInv, Spin, Moved, Spinning
<1>11. Word'
  BY ONLY <1>1, <1>2, <1>3, <1>5, <1>6, <1>7, <1>8, <1>9, MInv, t \in Threads, MutexAssumption
  DEF MInv, Word, Moved, Spinning, W, R
<1> QED
  BY <1>4, <1>7, <1>8, <1>10, <1>11, OthersKept DEF MInv, Shapes, Frame

\* A thread that removes itself takes spinlock and lock: nobody has them.
LEMMA TryRemoveKeeps ==
  ASSUME MInv, NEW t \in Threads, TryRemove(t) PROVE MInv'
<1> USE MutexAssumption DEF W, R
<1>1. loc[t].pc \in {"remove", "removing"} /\ UNCHANGED <<head, prog, synch>>
      /\ mu_.wait /\ ~mu_.spin /\ ~mu_.wr /\ ~mu_.rdr
      /\ mu_' = [mu_ EXCEPT !.spin = TRUE, !.wr = TRUE]
  BY DEF TryRemove, CanRemove, pc
<1>2. Moved(t, "unlink", loc[t].held, loc[t].mode) /\ loc[t].held = None
  <2>1. Moved(t, "unlink", loc[t].held, loc[t].mode)
    BY <1>1 DEF TryRemove, Goto, MInv, Shapes, Calls, ThreadTypes, Moved, LocFields, IsWord, BitFields
  <2>2. loc[t].held = None
    BY <1>1 DEF MInv, Calls, Call, Outside, Releasing, Waking
  <2> QED
    BY <2>1, <2>2
<1>3. ThreadTypes(t)' /\ Call(t)' /\ Frame(t)
  BY ONLY <1>1, <1>2, MInv, t \in Threads, WithinCall
  DEF MInv, Shapes, Calls, ThreadTypes, Call, Target, Moved, SynchKept, Frame, Outside, InCalls,
      Releasing, Waking, IsWord
<1>4. IsWord(mu_)' /\ mu_'.spin /\ ~mu_'.rdr /\ mu_'.wr /\ mu_'.wait /\ mu_'.cnt = mu_.cnt
  BY <1>1 DEF MInv, Shapes, IsWord, BitFields
<1>5. \A u \in Threads : loc[u].pc \notin Spinning
  BY <1>1 DEF MInv, Spin
<1>6. Readers' = Readers
  BY <1>2, <1>3, ReadersChange DEF Moved
<1>7. Spin'
  BY ONLY <1>1, <1>2, <1>4, <1>5, MInv, t \in Threads DEF MInv, Spin, Moved, Spinning
<1>8. Word'
  BY ONLY <1>1, <1>2, <1>4, <1>5, <1>6, MInv, t \in Threads, MutexAssumption DEF MInv, Word, Moved, Spinning, W, R
<1> QED
  BY <1>1, <1>3, <1>4, <1>7, <1>8, OthersKept DEF MInv, Shapes, Frame

\* It releases both.
LEMMA UnlinkKeeps ==
  ASSUME MInv, NEW t \in Threads, Unlink(t) PROVE MInv'
<1> USE MutexAssumption DEF W, R
<1>1. loc[t].pc = "unlink" /\ UNCHANGED prog /\ head' = NoHead
      /\ mu_' = [Free EXCEPT !.desig = mu_.desig, !.wait = queue' # <<>>]
  BY DEF Unlink, At
<1>2. Moved(t, "removing", loc[t].held, loc[t].mode) /\ loc[t].held = None
  <2>1. Moved(t, "removing", loc[t].held, loc[t].mode)
    BY <1>1 DEF Unlink, Goto, MInv, Shapes, Calls, ThreadTypes, Moved, LocFields, IsWord, BitFields
  <2>2. loc[t].held = None
    BY <1>1 DEF MInv, Calls, Call, Outside, Releasing, Waking
  <2> QED
    BY <2>1, <2>2
<1>3. SynchKept
  <2>1. \/ synch' = [synch EXCEPT ![t].next = FALSE, ![t].queued = FALSE]
        \/ synch' = synch
    BY DEF Unlink
  <2>2. DOMAIN synch = Threads /\ \A x \in Threads : DOMAIN synch[x] = SynchFields
    BY DEF MInv, Shapes, Calls, ThreadTypes
  <2> QED
    <3>1. CASE synch' = synch
      BY ONLY <2>2, <3>1 DEF SynchKept
    <3>2. CASE synch' = [synch EXCEPT ![t].next = FALSE, ![t].queued = FALSE]
      <4>1. DOMAIN synch' = Threads
        BY ONLY <2>2, <3>2
      <4>2. \A u \in Threads : DOMAIN synch'[u] = DOMAIN synch[u] /\ synch'[u].how = synch[u].how
        BY ONLY <2>2, <3>2 DEF SynchFields
      <4> QED
        BY ONLY <2>2, <4>1, <4>2 DEF SynchKept
    <3> QED
      BY ONLY <2>1, <3>1, <3>2
<1>4. ThreadTypes(t)' /\ Call(t)' /\ Frame(t)
  BY ONLY <1>1, <1>2, <1>3, MInv, t \in Threads
  DEF MInv, Shapes, Calls, ThreadTypes, Call, Target, Moved, SynchKept, Frame, Outside, InCalls,
      Releasing, Waking, IsWord
<1>5. \A u \in Threads \ {t} : loc[u].held = None
  BY <1>1 DEF MInv, Word, Calls, ThreadTypes
<1>6. IsWord(mu_)' /\ ~mu_'.spin /\ ~mu_'.wr /\ ~mu_'.rdr /\ mu_'.cnt = 0
  BY <1>1 DEF Free, IsWord, BitFields
<1>7. DOMAIN head' = {"readers", "unlocking"} /\ head'.readers = 0
  BY <1>1 DEF NoHead
<1> QED
  BY ONLY <1>1, <1>2, <1>4, <1>5, <1>6, <1>7, MInv, t \in Threads, LastLeaves DEF Moved, Spinning

-----------------------------------------------------------------------------
(* UnlockSlow: releasing lock and spinlock.                                *)

\* Where a thread is after UnlockSlow, by what it was to do.
AfterMode(m) == IF m = "unlock" THEN "run" ELSE IF m = "requeue" THEN "block" ELSE "cvblock"

LEMMA AfterMoves ==
  ASSUME MInv, NEW t \in Threads, loc[t].pc \in {"list", "nolist"}, loc[t].mode # "cvenqueue",
         NEW wakes, loc' = [loc EXCEPT ![t] = After(loc[t], wakes)], SynchKept, UNCHANGED prog
  PROVE  /\ Frame(t) /\ ThreadTypes(t)' /\ Call(t)'
         /\ loc'[t].held = None /\ loc'[t].pc \notin Spinning
<1> USE MutexAssumption DEF W, R
<1> DEFINE a == AfterMode(loc[t].mode)
           b == [Idle EXCEPT !.pc = IF loc[t].mode = "requeue" THEN "block" ELSE "cvblock",
                             !.op = loc[t].op, !.timed = loc[t].timed, !.blocked = loc[t].blocked]
           next == IF loc[t].mode = "unlock" THEN Idle ELSE b
           waker == [next EXCEPT !.pc = "wakeNext", !.wakes = wakes, !.mode = next.pc]
<1>1. loc[t].mode \in {"unlock", "requeue", "cv"}
  BY DEF MInv, Calls, ThreadTypes, Releasing
<1>2. DOMAIN Idle = LocFields /\ Idle.pc = "run" /\ Idle.held = None /\ Idle.mode = "unlock" /\ IsWord(Idle.v)
  BY DEF Idle, Free, LocFields, IsWord, BitFields
<1>3. DOMAIN b = LocFields /\ b.held = None /\ b.mode = "unlock" /\ IsWord(b.v)
      /\ b.pc = IF loc[t].mode = "requeue" THEN "block" ELSE "cvblock"
  BY DEF Idle, Free, LocFields, IsWord, BitFields
<1> HIDE DEF b
<1>4. DOMAIN next = LocFields /\ next.held = None /\ next.mode = "unlock" /\ IsWord(next.v) /\ next.pc = a
  BY <1>1, <1>2, <1>3 DEF AfterMode
<1>5. After(loc[t], wakes) = IF wakes = <<>> THEN next ELSE waker
  <2>1. Then(loc[t]).run = Idle /\ Then(loc[t]).wait = b
    BY DEF Then, b
  <2> QED
    BY <2>1 DEF After
<1> HIDE DEF next, a
<1>6. DOMAIN waker = LocFields /\ waker.held = None /\ waker.mode = a /\ waker.pc = "wakeNext" /\ IsWord(waker.v)
  BY <1>4 DEF LocFields
<1> HIDE DEF waker
<1>7. Moved(t, a, None, "unlock") \/ Moved(t, "wakeNext", None, a)
  <2>1. CASE wakes = <<>>
    BY <1>4, <1>5, <2>1 DEF MInv, Shapes, Moved
  <2>2. CASE wakes # <<>>
    BY <1>5, <1>6, <2>2 DEF MInv, Shapes, Moved
  <2> QED
    BY <2>1, <2>2
<1>8. a = IF loc[t].mode = "unlock" THEN "run" ELSE IF loc[t].mode = "requeue" THEN "block" ELSE "cvblock"
  BY DEF a, AfterMode
<1>9. Frame(t)
  BY <1>7 DEF MInv, Shapes, Moved, SynchKept, Frame
<1>10. ThreadTypes(t)'
  BY ONLY <1>1, <1>7, <1>8, MInv, t \in Threads, SynchKept, UNCHANGED prog, MutexAssumption
  DEF MInv, Calls, ThreadTypes, Moved, SynchKept, Outside, InCalls, Releasing, Waking, W, R
<1>11. Target(t)' = Target(t)
  BY ONLY <1>1, <1>7, <1>8, loc[t].pc \in {"list", "nolist"}, t \in Threads, SynchKept
  DEF Target, Moved, SynchKept, InCalls, Releasing, Waking
<1>12. Call(t)'
  BY ONLY <1>7, <1>8, <1>11, MInv, t \in Threads, UNCHANGED prog
  DEF MInv, Calls, Call, Moved, Outside, InCalls, Releasing, Waking
<1> QED
  BY <1>7, <1>8, <1>9, <1>10, <1>12 DEF Moved, Spinning

LEMMA RequeuedKept ==
  ASSUME MInv, NEW t \in Threads, synch' = SynchRequeued(t)
  PROVE  SynchKept
<1>1. CASE loc[t].mode = "requeue"
  BY <1>1, QueuedKept DEF SynchRequeued
<1>2. CASE loc[t].mode # "requeue"
  BY <1>2 DEF SynchRequeued, MInv, Shapes, Calls, ThreadTypes, SynchKept
<1> QED
  BY <1>1, <1>2

\* An unlocker that has the spinlock has the lock, and the word says how.
LEMMA UnlockerHolds ==
  ASSUME MInv, NEW t \in Threads, loc[t].pc \in {"list", "nolist"}
  PROVE  /\ \/ /\ loc[t].held = W /\ mu_.wr /\ ~mu_.rdr /\ Readers = {} /\ Cardinality(Readers) = 0
               /\ \A u \in Threads \ {t} : loc[u].held = None
            \/ /\ loc[t].held = R /\ mu_.rdr /\ ~mu_.wr /\ t \in Readers
               /\ Cardinality(Readers) > 0 /\ Cardinality(Readers \ {t}) = Cardinality(Readers) - 1
               /\ Cardinality(Readers) = 1 <=> Readers \ {t} = {}
               /\ \A u \in Threads : loc[u].held # W
         /\ Cardinality(Readers) \in Nat
         /\ \A u \in Threads \ {t} : loc[u].pc \notin Spinning
<1> USE MutexAssumption DEF W, R
<1>1. \A u \in Threads \ {t} : loc[u].pc \notin Spinning
  BY DEF MInv, Spin, Spinning
<1>2. loc[t].held \in {W, R}
  BY DEF MInv, Calls, Call, ThreadTypes, Releasing
<1>3. CASE loc[t].held = W
  <2>1. mu_.wr /\ ~mu_.rdr
    BY <1>3 DEF MInv, Word
  <2>2. Readers = {} /\ \A u \in Threads \ {t} : loc[u].held = None
    BY <1>3, <2>1 DEF MInv, Word, Readers, Calls, ThreadTypes
  <2> QED
    BY <1>1, <1>3, <2>1, <2>2, FS_EmptySet
<1>4. CASE loc[t].held = R
  <2>1. mu_.rdr /\ ~mu_.wr /\ t \in Readers /\ \A u \in Threads : loc[u].held # W
    BY <1>4 DEF MInv, Word, Readers
  <2>2. Readers \in SUBSET Threads /\ Readers \ {t} \in SUBSET Threads
    BY DEF Readers
  <2>3. /\ Cardinality(Readers) \in Nat /\ Cardinality(Readers) > 0
        /\ Cardinality(Readers \ {t}) = Cardinality(Readers) - 1
    BY <2>1, <2>2, ReaderCount
  <2>4. Cardinality(Readers \ {t}) = 0 <=> Readers \ {t} = {}
    BY <2>2, ReaderCount
  <2> QED
    BY <1>1, <1>4, <2>1, <2>3, <2>4
<1> QED
  BY <1>2, <1>3, <1>4

\* The lock is released while other threads may hold it as readers.
LEMMA OneLeaves ==
  ASSUME MInv, NEW t \in Threads, loc[t].pc \in {"list", "nolist"},
         Frame(t), ThreadTypes(t)', Call(t)', IsWord(mu_)',
         loc'[t].held = None, loc'[t].pc \notin Spinning, ~mu_'.spin, ~mu_'.wr,
         DOMAIN head' = {"readers", "unlocking"}, head'.readers \in Nat,
         mu_'.wait => mu_'.cnt = 0,
         mu_'.rdr <=> mu_.rdr /\ Cardinality(Readers) # 1,
         (IF mu_'.wait THEN head'.readers ELSE mu_'.cnt)
           = IF mu_.rdr THEN Cardinality(Readers) - 1 ELSE 0
  PROVE  MInv'
<1> USE MutexAssumption DEF W, R
<1>1. Readers' = Readers \ {t} /\ Readers' \in SUBSET Threads /\ Readers \in SUBSET Threads
  BY ReadersChange DEF Readers
<1>2. Cardinality(Readers') = IF mu_.rdr THEN Cardinality(Readers) - 1 ELSE 0
  BY <1>1, UnlockerHolds, FS_EmptySet
<1>3. mu_'.rdr <=> Readers' # {}
  BY <1>1, UnlockerHolds
<1>4. \A u \in Threads : loc'[u].pc \notin Spinning /\ loc'[u].held # W
  <2>1. \A u \in Threads \ {t} : loc[u].pc \notin Spinning /\ loc[u].held # W
    BY UnlockerHolds
  <2>2. ASSUME NEW u \in Threads
        PROVE  loc'[u].pc \notin Spinning /\ loc'[u].held # W
    BY ONLY <2>1, t \in Threads, u \in Threads, Frame(t), MutexAssumption, loc'[t].held = None,
            loc'[t].pc \notin Spinning DEF Frame, W
  <2> QED
    BY <2>2
<1>5. Spin'
  BY <1>4 DEF Spin, Spinning
<1>6. Word'
  BY <1>2, <1>3, <1>4 DEF Word, Readers, Spinning
<1> QED
  BY <1>5, <1>6, OthersKept DEF MInv, Shapes, Frame

\* The last holder is at the list.
LEMMA LastAtList ==
  ASSUME MInv, NEW t \in Threads, loc[t].pc = "list", ~NotLastReader(t)
  PROVE  \A u \in Threads \ {t} : loc[u].held = None
<1> USE MutexAssumption DEF W, R
<1>1. mu_.wait /\ (mu_.rdr <=> loc[t].v.rdr) /\ head.readers = Cardinality(Readers)
  BY DEF MInv, Spin, Word, Spinning, Calls, ThreadTypes, IsWord, BitFields
<1>2. CASE mu_.rdr
  <2>1. Readers \in SUBSET Threads /\ t \in Readers /\ \A u \in Threads : loc[u].held # W
    BY <1>2, UnlockerHolds DEF Readers
  <2>2. Cardinality(Readers) = 1
    <3>1. ~(head.readers > 1)
      BY <1>1, <1>2 DEF NotLastReader
    <3>2. Cardinality(Readers) \in Nat /\ Cardinality(Readers) > 0
      BY <1>2, UnlockerHolds
    <3> QED
      BY <1>1, <3>1, <3>2
  <2>3. Readers = {t}
    BY <1>2, <2>1, <2>2, UnlockerHolds
  <2> QED
    BY <2>1, <2>3 DEF Readers, MInv, Calls, ThreadTypes
<1>3. CASE ~mu_.rdr
  BY <1>3, UnlockerHolds
<1> QED
  BY <1>2, <1>3

LEMMA UnlockAloneKeeps ==
  ASSUME MInv, NEW t \in Threads, UnlockAlone(t) PROVE MInv'
<1>1. loc[t].pc = "nolist" /\ loc[t].mode = "requeue" /\ UNCHANGED prog
      /\ head' = [readers |-> IF mu_.cnt > 0 THEN mu_.cnt - 1 ELSE 0, unlocking |-> FALSE]
      /\ mu_' = [mu_ EXCEPT !.spin = FALSE, !.wait = TRUE, !.wrwait = FALSE, !.cnt = 0,
                            !.wr = FALSE, !.rdr = @ /\ ~(~mu_.wr /\ mu_.cnt = 1)]
      /\ loc' = [loc EXCEPT ![t] = After(loc[t], <<>>)]
  BY DEF UnlockAlone, At
<1>2. SynchKept
  BY QueuedKept DEF UnlockAlone
<1>3. Frame(t) /\ ThreadTypes(t)' /\ Call(t)' /\ loc'[t].held = None /\ loc'[t].pc \notin Spinning
  BY <1>1, <1>2, AfterMoves
<1>4. ~mu_.wait /\ mu_.cnt = Cardinality(Readers) /\ mu_.cnt \in Nat /\ (mu_.rdr => ~mu_.wr /\ mu_.cnt > 0)
      /\ (~mu_.rdr => mu_.cnt = 0)
  <2>1. ~mu_.wait /\ mu_.cnt = Cardinality(Readers)
    BY <1>1 DEF MInv, Spin, Word, Spinning
  <2> QED
    BY <1>1, <2>1, UnlockerHolds
<1>5. IsWord(mu_)'
  BY <1>1 DEF MInv, Shapes, IsWord, BitFields
<1>6. ~mu_'.spin /\ ~mu_'.wr /\ mu_'.wait /\ mu_'.cnt = 0 /\ (mu_'.rdr <=> mu_.rdr /\ mu_.cnt # 1)
  BY <1>1, <1>4 DEF MInv, Shapes, IsWord, BitFields
<1>7. DOMAIN head' = {"readers", "unlocking"} /\ head'.readers \in Nat
      /\ head'.readers = IF mu_.rdr THEN Cardinality(Readers) - 1 ELSE 0
  BY <1>1, <1>4
<1> QED
  BY ONLY <1>1, <1>3, <1>4, <1>5, <1>6, <1>7, MInv, t \in Threads, OneLeaves

LEMMA UnlockToCvKeeps ==
  ASSUME MInv, NEW t \in Threads, UnlockToCv(t) PROVE MInv'
<1>1. loc[t].pc = "nolist" /\ loc[t].mode = "cv" /\ UNCHANGED <<prog, synch, head>>
      /\ mu_' = [mu_ EXCEPT !.spin = FALSE, !.wrwait = FALSE, !.wr = FALSE,
                            !.cnt = IF @ > 0 THEN @ - 1 ELSE @,
                            !.rdr = @ /\ ~(~mu_.wr /\ mu_.cnt = 1)]
      /\ loc' = [loc EXCEPT ![t] = After(loc[t], <<>>)]
  BY DEF UnlockToCv, At
<1>2. SynchKept
  BY <1>1, WithinCall
<1>3. Frame(t) /\ ThreadTypes(t)' /\ Call(t)' /\ loc'[t].held = None /\ loc'[t].pc \notin Spinning
  BY <1>1, <1>2, AfterMoves
<1>4. ~mu_.wait /\ mu_.cnt = Cardinality(Readers) /\ mu_.cnt \in Nat /\ (mu_.rdr => ~mu_.wr /\ mu_.cnt > 0)
      /\ (~mu_.rdr => mu_.cnt = 0)
  <2>1. ~mu_.wait /\ mu_.cnt = Cardinality(Readers)
    BY <1>1 DEF MInv, Spin, Word, Spinning
  <2> QED
    BY <1>1, <2>1, UnlockerHolds
<1>5. IsWord(mu_)'
  BY <1>1, <1>4 DEF MInv, Shapes, IsWord, BitFields
<1>6. ~mu_'.spin /\ ~mu_'.wr /\ ~mu_'.wait /\ (mu_'.rdr <=> mu_.rdr /\ mu_.cnt # 1)
      /\ mu_'.cnt = IF mu_.rdr THEN Cardinality(Readers) - 1 ELSE 0
  <2>1. DOMAIN mu_ = BitFields
    BY DEF MInv, Shapes, IsWord
  <2>2. ~mu_'.spin /\ ~mu_'.wr /\ ~mu_'.wait
    BY <1>1, <1>4, <2>1 DEF BitFields
  <2>3. mu_'.rdr <=> mu_.rdr /\ mu_.cnt # 1
    BY <1>1, <1>4, <2>1 DEF BitFields
  <2>4. mu_'.cnt = IF mu_.cnt > 0 THEN mu_.cnt - 1 ELSE mu_.cnt
    BY <1>1, <2>1 DEF BitFields
  <2> QED
    BY <1>4, <2>2, <2>3, <2>4
<1>7. DOMAIN head' = {"readers", "unlocking"} /\ head'.readers \in Nat
  BY <1>1 DEF MInv, Shapes
<1> QED
  BY ONLY <1>1, <1>3, <1>4, <1>5, <1>6, <1>7, MInv, t \in Threads, OneLeaves

LEMMA UnlockReaderKeeps ==
  ASSUME MInv, NEW t \in Threads, UnlockReader(t) PROVE MInv'
<1>1. loc[t].pc = "list" /\ loc[t].mode # "cvenqueue" /\ UNCHANGED prog /\ loc[t].v.rdr /\ head.readers > 1
      /\ head' = [head EXCEPT !.readers = @ - 1]
      /\ mu_' = [loc[t].v EXCEPT !.wait = TRUE]
      /\ loc' = [loc EXCEPT ![t] = After(loc[t], <<>>)]
  BY DEF UnlockReader, At, NotLastReader
<1>2. SynchKept
  BY RequeuedKept DEF UnlockReader
<1>3. Frame(t) /\ ThreadTypes(t)' /\ Call(t)' /\ loc'[t].held = None /\ loc'[t].pc \notin Spinning
  BY <1>1, <1>2, AfterMoves
<1>4. mu_.wait /\ head.readers = Cardinality(Readers) /\ head.readers \in Nat /\ mu_.cnt = 0
  BY <1>1 DEF MInv, Shapes, Spin, Word, Spinning
<1>5. mu_ = [loc[t].v EXCEPT !.spin = TRUE] /\ ~loc[t].v.spin /\ IsWord(loc[t].v)
  BY <1>1 DEF MInv, Spin, Calls, ThreadTypes
<1>6. mu_.rdr /\ ~mu_.wr
  BY <1>1, <1>5 DEF MInv, Word, IsWord, BitFields
<1>7. IsWord(mu_)' /\ ~mu_'.spin /\ (mu_'.wr <=> mu_.wr) /\ (mu_'.rdr <=> mu_.rdr) /\ mu_'.cnt = mu_.cnt /\ mu_'.wait
  BY <1>1, <1>5 DEF IsWord, BitFields
<1>8. DOMAIN head' = {"readers", "unlocking"} /\ head'.readers = head.readers - 1
  BY <1>1 DEF MInv, Shapes
<1>9. head'.readers \in Nat /\ Cardinality(Readers) # 1
  BY <1>1, <1>4, <1>8
<1> QED
  BY ONLY <1>1, <1>3, <1>4, <1>6, <1>7, <1>8, <1>9, MInv, t \in Threads, OneLeaves

LEMMA UnlockNobodyKeeps ==
  ASSUME MInv, NEW t \in Threads, UnlockNobody(t) PROVE MInv'
<1>1. loc[t].pc = "list" /\ loc[t].mode # "cvenqueue" /\ UNCHANGED prog /\ ~NotLastReader(t) /\ head' = NoHead
      /\ mu_' = [loc[t].v EXCEPT !.rdr = FALSE, !.wr = FALSE, !.wrwait = FALSE, !.wait = TRUE]
      /\ loc' = [loc EXCEPT ![t] = After(loc[t], <<>>)]
  BY DEF UnlockNobody, At
<1>2. SynchKept
  BY RequeuedKept DEF UnlockNobody
<1>3. Frame(t) /\ ThreadTypes(t)' /\ Call(t)' /\ loc'[t].held = None /\ loc'[t].pc \notin Spinning
  BY <1>1, <1>2, AfterMoves
<1>4. mu_.wait /\ mu_.cnt = 0
  BY <1>1 DEF MInv, Spin, Word, Spinning
<1>5. mu_ = [loc[t].v EXCEPT !.spin = TRUE] /\ ~loc[t].v.spin /\ IsWord(loc[t].v)
  BY <1>1 DEF MInv, Spin, Calls, ThreadTypes
<1>6. IsWord(mu_)' /\ ~mu_'.spin /\ ~mu_'.wr /\ ~mu_'.rdr /\ mu_'.cnt = 0
  BY <1>1, <1>4, <1>5 DEF IsWord, BitFields
<1>7. DOMAIN head' = {"readers", "unlocking"} /\ head'.readers = 0
  BY <1>1 DEF NoHead
<1>8. \A u \in Threads \ {t} : loc[u].held = None
  BY <1>1, LastAtList
<1> QED
  BY ONLY <1>1, <1>3, <1>6, <1>7, <1>8, MInv, t \in Threads, LastLeaves DEF Spinning

LEMMA UnlockWakeKeeps ==
  ASSUME MInv, NEW t \in Threads, UnlockWake(t) PROVE MInv'
<1>1. loc[t].pc = "list" /\ loc[t].mode # "cvenqueue" /\ UNCHANGED prog /\ ~NotLastReader(t) /\ head' = NoHead
      /\ synch' = SynchRequeued(t)
  BY DEF UnlockWake, At
<1>2. \E q, wrw : mu_' = WakingWord(q, wrw)
  BY DEF UnlockWake
<1>3. \E wakes : loc' = [loc EXCEPT ![t] = After(loc[t], wakes)]
  BY DEF UnlockWake
<1>4. SynchKept
  BY <1>1, RequeuedKept
<1>5. Frame(t) /\ ThreadTypes(t)' /\ Call(t)' /\ loc'[t].held = None /\ loc'[t].pc \notin Spinning
  BY <1>1, <1>3, <1>4, AfterMoves
<1>6. IsWord(mu_)' /\ ~mu_'.spin /\ ~mu_'.wr /\ ~mu_'.rdr /\ mu_'.cnt = 0
  BY <1>2 DEF WakingWord, Free, IsWord, BitFields
<1>7. DOMAIN head' = {"readers", "unlocking"} /\ head'.readers = 0
  BY <1>1 DEF NoHead
<1>8. \A u \in Threads \ {t} : loc[u].held = None
  BY <1>1, LastAtList
<1> QED
  BY ONLY <1>1, <1>5, <1>6, <1>7, <1>8, MInv, t \in Threads, LastLeaves DEF Spinning

-----------------------------------------------------------------------------
(* The invariant and what follows from it.                                 *)

LEMMA MInvInit == Init => MInv
<1> SUFFICES ASSUME Init PROVE MInv
  OBVIOUS
<1> USE MutexAssumption DEF W, R
<1>1. mu_ = Free /\ head = NoHead /\ loc = [t \in Threads |-> Idle] /\ prog \in Programs
      /\ synch = [t \in Threads |-> [queued |-> FALSE, next |-> FALSE, wake |-> FALSE,
                                     sem |-> 0, how |-> W, cond |-> None]]
  BY DEF Init
<1>2. Idle.pc = "run" /\ Idle.held = None /\ Idle.mode = "unlock" /\ DOMAIN Idle = LocFields /\ IsWord(Idle.v)
      /\ IsWord(Free) /\ Free.cnt = 0
      /\ ~Free.wr /\ ~Free.rdr /\ ~Free.wait /\ ~Free.spin
  BY DEF Idle, Free, LocFields, IsWord, BitFields
<1>3. Shapes
  BY <1>1, <1>2, CondVarAssumption DEF Shapes, NoHead
<1>4. ASSUME NEW t \in Threads
      PROVE  ThreadTypes(t) /\ Call(t)
  <2>1. prog[t] \in Seq(Operations) /\ Legal(prog[t], None)
    BY <1>1, CondVarAssumption
  <2>2. loc[t].pc = "run" /\ loc[t].held = None /\ loc[t].mode = "unlock" /\ DOMAIN loc[t] = LocFields
        /\ IsWord(loc[t].v)
    BY <1>1, <1>2
  <2>3. DOMAIN synch[t] = SynchFields /\ synch[t].how = W
    BY <1>1 DEF SynchFields
  <2>4. Target(t) = None
    BY <2>2 DEF Target, InCalls, Releasing, Waking
  <2>5. ThreadTypes(t)
    BY <2>1, <2>2, <2>3 DEF ThreadTypes, Outside, InCalls, Releasing, Waking
  <2>6. Call(t)
    BY <2>1, <2>2, <2>4 DEF Call, Outside, Releasing
  <2> QED
    BY <2>5, <2>6
<1>5. \A t \in Threads : loc[t].pc = "run" /\ loc[t].held = None
  BY <1>1, <1>2
<1>6. Spin
  BY <1>1, <1>2, <1>5 DEF Spin, Spinning
<1>7. Readers = {} /\ Cardinality(Readers) = 0
  BY <1>5, FS_EmptySet DEF Readers
<1>8. Word
  BY <1>1, <1>2, <1>5, <1>7 DEF Word
<1> QED
  BY <1>3, <1>4, <1>6, <1>8 DEF MInv, Calls

LEMMA MInvStep == MInv /\ [Next]_vars => MInv'
<1> SUFFICES ASSUME MInv, [Next]_vars PROVE MInv'
  OBVIOUS
<1>1. ASSUME NEW t \in Threads, MutexStep(t)
      PROVE  MInv'
  BY <1>1, LockAnyKeeps, TryLockKeeps, TryLockFailsKeeps, LoopAcquireKeeps, LoopFirstWaiterKeeps,
     LoopIncrementKeeps, IncrementKeeps, LoopQueueKeeps, LoopEnqueueKeeps, BlockEndKeeps, DecrementKeeps,
     TryRemoveKeeps, TryRemoveNotKeeps, UnlinkKeeps, RemovedKeeps, AwaitKeeps, WriteKeeps, UnlockKeeps,
     ReleaseKeeps, UnlockFastKeeps, UnlockSpinKeeps, UnlockAloneKeeps, UnlockReaderKeeps,
     UnlockNobodyKeeps, SearchKeeps, UnlockWakeKeeps, WakeNextKeeps, WakeStateKeeps, WakePostKeeps
  DEF MutexStep
<1>2. ASSUME NEW t \in Threads, CondVarStep(t)
      PROVE  MInv'
  BY <1>1, <1>2, WaitKeeps, CondVarEnqueueKeeps, UnlockToCvKeeps, TransKeeps, SignalKeeps, FerWakeKeeps,
     FerAloneKeeps, FerSpinKeeps, FerQueueKeeps, SignalledKeeps
  DEF CondVarStep
<1>3. CASE UNCHANGED vars
  BY <1>3 DEF vars, MInv, Shapes, Calls, ThreadTypes, Call, Target, Spin, Word, Readers
<1> QED
  BY <1>2, <1>3, TimeoutKeeps, BlockTimeoutKeeps DEF Next

\* The invariant: who may be where, and what the word says.
THEOREM Invariance == Spec => []MInv
BY MInvInit, MInvStep, PTL DEF Spec

LEMMA MInvExcludes == MInv => MutualExclusion
<1> SUFFICES ASSUME MInv PROVE MutualExclusion
  OBVIOUS
<1> USE MutexAssumption DEF W, R
<1>1. Cardinality(Holders(W)) <= 1
  <2>1. CASE Holders(W) = {}
    BY <2>1, FS_EmptySet
  <2>2. CASE Holders(W) # {}
    <3>1. PICK t \in Threads : Holders(W) = {t}
      BY <2>2 DEF Holders, MInv, Word
    <3>2. Cardinality({t}) = 1
      BY FS_Singleton
    <3> QED
      BY ONLY <3>1, <3>2
  <2> QED
    BY <2>1, <2>2
<1>2. Holders(W) # {} => Holders(R) = {}
  BY DEF Holders, MInv, Word
<1>3. mu_.wr <=> Holders(W) # {} \/ \E t \in Threads : At(t, "unlink")
  BY DEF Holders, MInv, Word, At
<1>4. Holders(R) = Readers
  BY DEF Holders, Readers
<1>5. (IF mu_.wait THEN head.readers ELSE mu_.cnt) = Cardinality(Holders(R))
  BY <1>4 DEF MInv, Word
<1> QED
  BY <1>1, <1>2, <1>3, <1>5 DEF MutualExclusion

\* MutualExclusion: a writer excludes everyone, and the bits and the count of the
\* word, or of the last waiter, are those of the holders. By MInv, whose clauses on
\* the spinlock are needed because an unlocker stores a word it loaded before.
THEOREM Exclusion == Spec => []MutualExclusion
BY Invariance, MInvExcludes, PTL

\* "Can release with a store because there were waiters": while an unlocker looks
\* at the queue, nobody else changes the word.
THEOREM StoresAreSafe == Spec => []StoreLosesNothing
<1>1. MInv => StoreLosesNothing
  BY DEF MInv, Spin, StoreLosesNothing, At
<1> QED
  BY <1>1, Invariance, PTL

-----------------------------------------------------------------------------
(* The queue and the list.                                                 *)

\* What holds of zero, and of a number if it holds of the one before, holds of every
\* number: the set of those it does not hold of has no least one.
LEMMA Induction ==
  ASSUME NEW S \in SUBSET Nat, 0 \in S, \A n \in Nat : n \in S => n + 1 \in S
  PROVE  S = Nat
<1> SUFFICES ASSUME Nat \ S # {} PROVE FALSE
  OBVIOUS
<1>1. PICK n \in Nat \ S : \A m \in Nat \ S : n =< m
  BY LeastOne
<1>2. n # 0 /\ n - 1 \in Nat /\ n - 1 \notin S
  BY <1>1
<1> QED
  BY <1>1, <1>2

-----------------------------------------------------------------------------
(* Sequences without repetitions.                                          *)

LEMMA SeqFacts ==
  ASSUME NEW T, NEW s \in Seq(T)
  PROVE  /\ Len(s) \in Nat /\ DOMAIN s = 1..Len(s) /\ ToSet(s) \subseteq T
         /\ \A i \in 1..Len(s) : s[i] \in ToSet(s) /\ s[i] \in T
         /\ \A x \in ToSet(s) : \E i \in 1..Len(s) : s[i] = x
         /\ IsInjective(s) <=> \A i, j \in 1..Len(s) : s[i] = s[j] => i = j
         /\ (s = <<>>) <=> (Len(s) = 0)
         /\ (s = <<>>) <=> (ToSet(s) = {})
<1>1. Len(s) \in Nat /\ DOMAIN s = 1..Len(s) /\ \A i \in 1..Len(s) : s[i] \in T
  OBVIOUS
<1>2. ToSet(s) = {s[i] : i \in 1..Len(s)}
  BY <1>1 DEF ToSet
<1>3. (s = <<>>) <=> (Len(s) = 0)
  OBVIOUS
<1>4. (Len(s) = 0) <=> (ToSet(s) = {})
  BY <1>1, <1>2
<1>5. IsInjective(s) <=> \A i, j \in 1..Len(s) : s[i] = s[j] => i = j
  BY <1>1 DEF IsInjective
<1> QED
  BY <1>1, <1>2, <1>3, <1>4, <1>5

LEMMA AppendIs ==
  ASSUME NEW T, NEW s \in Seq(T), NEW x \in T
  PROVE  /\ Append(s, x) \in Seq(T) /\ ToSet(Append(s, x)) = ToSet(s) \cup {x}
         /\ IsInjective(s) /\ x \notin ToSet(s) => IsInjective(Append(s, x))
<1> DEFINE r == Append(s, x)
<1>1. /\ r \in Seq(T) /\ Len(r) = Len(s) + 1 /\ r[Len(s) + 1] = x
      /\ \A i \in 1..Len(s) : r[i] = s[i]
  OBVIOUS
<1> HIDE DEF r
<1>2. Len(s) \in Nat /\ \A i \in 1..Len(r) : i = Len(s) + 1 \/ i \in 1..Len(s)
  BY <1>1
<1>3. ToSet(r) \subseteq ToSet(s) \cup {x}
  BY <1>1, <1>2, SeqFacts
<1>4. ToSet(s) \cup {x} \subseteq ToSet(r)
  BY <1>1, <1>2, SeqFacts
<1>5. IsInjective(s) /\ x \notin ToSet(s) => IsInjective(r)
  BY <1>1, <1>2, SeqFacts
<1> QED
  BY <1>1, <1>3, <1>4, <1>5 DEF r

LEMMA ConcatIs ==
  ASSUME NEW T, NEW s \in Seq(T), NEW u \in Seq(T)
  PROVE  /\ s \o u \in Seq(T) /\ ToSet(s \o u) = ToSet(s) \cup ToSet(u)
         /\ IsInjective(s) /\ IsInjective(u) /\ ToSet(s) \cap ToSet(u) = {} => IsInjective(s \o u)
<1> DEFINE r == s \o u
<1>1. /\ r \in Seq(T) /\ Len(r) = Len(s) + Len(u)
      /\ \A i \in 1..Len(s) : r[i] = s[i]
      /\ \A i \in 1..Len(u) : r[Len(s) + i] = u[i]
  OBVIOUS
<1> HIDE DEF r
<1>2. Len(s) \in Nat /\ Len(u) \in Nat
      /\ \A i \in 1..Len(r) : i \in 1..Len(s) \/ \E k \in 1..Len(u) : i = Len(s) + k
  <2>1. Len(s) \in Nat /\ Len(u) \in Nat
    OBVIOUS
  <2>2. ASSUME NEW i \in 1..Len(r), i \notin 1..Len(s)
        PROVE  \E k \in 1..Len(u) : i = Len(s) + k
    <3>1. i - Len(s) \in 1..Len(u) /\ i = Len(s) + (i - Len(s))
      BY <1>1, <2>1, <2>2
    <3> QED
      BY <3>1
  <2> QED
    BY <2>1, <2>2
<1> DEFINE p == Len(s)
<1>10. /\ \A i \in 1..Len(s) : i \in 1..Len(r) /\ r[i] = s[i]
       /\ \A k \in 1..Len(u) : p + k \in 1..Len(r) /\ r[p + k] = u[k]
       /\ \A i \in 1..Len(r) : i \in 1..Len(s) \/ \E k \in 1..Len(u) : i = p + k
  BY <1>1, <1>2
<1>11. (\A i \in 1..Len(s) : s[i] \in ToSet(s)) /\ \A x \in ToSet(s) : \E i \in 1..Len(s) : s[i] = x
  BY SeqFacts
<1>12. (\A i \in 1..Len(u) : u[i] \in ToSet(u)) /\ \A x \in ToSet(u) : \E i \in 1..Len(u) : u[i] = x
  BY SeqFacts
<1>13. (\A i \in 1..Len(r) : r[i] \in ToSet(r)) /\ \A x \in ToSet(r) : \E i \in 1..Len(r) : r[i] = x
  BY <1>1, SeqFacts
<1>14. \A i \in 1..Len(r) : r[i] \in ToSet(s) \/ \E k \in 1..Len(u) : i = p + k /\ r[i] = u[k]
  BY <1>10, <1>11
<1>3. ToSet(r) \subseteq ToSet(s) \cup ToSet(u)
  <2> SUFFICES ASSUME NEW x \in ToSet(r) PROVE x \in ToSet(s) \cup ToSet(u)
    OBVIOUS
  <2>1. PICK i \in 1..Len(r) : r[i] = x
    BY ONLY <1>13, x \in ToSet(r)
  <2>2. r[i] \in ToSet(s) \/ \E k \in 1..Len(u) : r[i] = u[k]
    BY ONLY <1>14, i \in 1..Len(r)
  <2>3. r[i] \in ToSet(s) \cup ToSet(u)
    BY ONLY <1>12, <2>2
  <2> QED
    BY ONLY <2>1, <2>3
<1>4. ToSet(s) \subseteq ToSet(r)
  BY <1>10, <1>11, <1>13
<1>5. ToSet(u) \subseteq ToSet(r)
  <2>1. \A k \in 1..Len(u) : u[k] \in ToSet(r)
    BY <1>10, <1>13
  <2> QED
    BY <1>12, <2>1
<1>6. ASSUME IsInjective(s), IsInjective(u), ToSet(s) \cap ToSet(u) = {} PROVE IsInjective(r)
  <2>1. ASSUME NEW i \in 1..Len(r), NEW j \in 1..Len(r), r[i] = r[j] PROVE i = j
    <3>1. CASE i \in 1..Len(s) /\ j \in 1..Len(s)
      BY <1>1, <1>6, <2>1, <3>1, SeqFacts
    <3>2. CASE i \in 1..Len(s) /\ j \notin 1..Len(s)
      <4>1. PICK k \in 1..Len(u) : j = Len(s) + k
        BY <1>2, <3>2
      <4>2. r[i] \in ToSet(s) /\ r[j] \in ToSet(u)
        BY <1>10, <1>11, <1>12, <3>2, <4>1
      <4> QED
        BY <1>6, <2>1, <4>2
    <3>3. CASE i \notin 1..Len(s) /\ j \in 1..Len(s)
      <4>1. PICK k \in 1..Len(u) : i = Len(s) + k
        BY <1>2, <3>3
      <4>2. r[j] \in ToSet(s) /\ r[i] \in ToSet(u)
        BY <1>10, <1>11, <1>12, <3>3, <4>1
      <4> QED
        BY <1>6, <2>1, <4>2
    <3>4. CASE i \notin 1..Len(s) /\ j \notin 1..Len(s)
      <4>1. PICK k \in 1..Len(u) : i = Len(s) + k
        BY <1>2, <3>4
      <4>2. PICK m \in 1..Len(u) : j = Len(s) + m
        BY <1>2, <3>4
      <4> QED
        BY <1>1, <1>6, <2>1, <4>1, <4>2, SeqFacts
    <3> QED
      BY <3>1, <3>2, <3>3, <3>4
  <2> QED
    BY <1>1, <2>1, SeqFacts
<1> QED
  BY <1>1, <1>3, <1>4, <1>5, <1>6 DEF r

LEMMA OneIs ==
  ASSUME NEW T, NEW x \in T
  PROVE  <<x>> \in Seq(T) /\ ToSet(<<x>>) = {x} /\ IsInjective(<<x>>)
<1> DEFINE r == <<x>>
<1>1. r \in Seq(T) /\ Len(r) = 1 /\ r[1] = x
  OBVIOUS
<1> HIDE DEF r
<1>2. ToSet(r) = {x}
  BY <1>1, SeqFacts
<1>3. IsInjective(r)
  BY <1>1, SeqFacts
<1> QED
  BY <1>1, <1>2, <1>3 DEF r

LEMMA NoneIs ==
  ASSUME NEW T
  PROVE  <<>> \in Seq(T) /\ ToSet(<<>>) = {} /\ IsInjective(<<>>)
<1> DEFINE r == <<>>
<1>1. r \in Seq(T) /\ Len(r) = 0 /\ r = <<>>
  OBVIOUS
<1> HIDE DEF r
<1> QED
  BY <1>1, SeqFacts DEF r

LEMMA SubSeqIs ==
  ASSUME NEW T, NEW s \in Seq(T), NEW a \in 1..Len(s) + 1, NEW b \in 0..Len(s)
  PROVE  /\ SubSeq(s, a, b) \in Seq(T)
         /\ \A x : x \in ToSet(SubSeq(s, a, b)) <=> \E i \in 1..Len(s) : a =< i /\ i =< b /\ s[i] = x
         /\ IsInjective(s) => IsInjective(SubSeq(s, a, b))
<1> DEFINE r == SubSeq(s, a, b)
<1>1. r \in Seq(T) /\ Len(r) = (IF a =< b THEN b - a + 1 ELSE 0)
      /\ \A i \in 1..Len(r) : r[i] = s[a + i - 1]
  OBVIOUS
<1> HIDE DEF r
<1>2. Len(s) \in Nat /\ a \in Nat /\ b \in Nat
  OBVIOUS
<1>3. \A i \in 1..Len(s) : a =< i /\ i =< b => i - a + 1 \in 1..Len(r) /\ r[i - a + 1] = s[i]
  BY <1>1, <1>2
<1>4. \A i \in 1..Len(r) : a + i - 1 \in 1..Len(s) /\ a =< a + i - 1 /\ a + i - 1 =< b
  BY <1>1, <1>2
<1>5. ASSUME NEW x \in ToSet(r) PROVE \E i \in 1..Len(s) : a =< i /\ i =< b /\ s[i] = x
  <2>1. PICK i \in 1..Len(r) : r[i] = x
    BY <1>1, SeqFacts
  <2> QED
    BY <1>1, <1>4, <2>1
<1>6. ASSUME NEW i \in 1..Len(s), a =< i, i =< b PROVE s[i] \in ToSet(r)
  <2>1. i - a + 1 \in 1..Len(r) /\ r[i - a + 1] = s[i]
    BY <1>3, <1>6
  <2>2. \A j \in 1..Len(r) : r[j] \in ToSet(r)
    BY <1>1, SeqFacts
  <2>3. r[i - a + 1] \in ToSet(r)
    BY <2>1, <2>2
  <2> QED
    BY <2>1, <2>3
<1>7. ASSUME IsInjective(s) PROVE IsInjective(r)
  <2>1. ASSUME NEW i \in 1..Len(r), NEW j \in 1..Len(r), r[i] = r[j] PROVE i = j
    <3>1. s[a + i - 1] = s[a + j - 1] /\ a + i - 1 \in 1..Len(s) /\ a + j - 1 \in 1..Len(s)
      BY <1>1, <1>4, <2>1
    <3>2. a + i - 1 = a + j - 1
      BY <1>7, <3>1, SeqFacts
    <3> QED
      BY <1>2, <3>2
  <2> QED
    BY <1>1, <2>1, SeqFacts
<1> QED
  BY <1>1, <1>5, <1>6, <1>7 DEF r

LEMMA InsertIs ==
  ASSUME NEW T, NEW s \in Seq(T), NEW i \in 1..Len(s) + 1, NEW x \in T
  PROVE  /\ InsertAt(s, i, x) \in Seq(T) /\ ToSet(InsertAt(s, i, x)) = ToSet(s) \cup {x}
         /\ IsInjective(s) /\ x \notin ToSet(s) => IsInjective(InsertAt(s, i, x))
<1> DEFINE a == SubSeq(s, 1, i - 1)
           b == SubSeq(s, i, Len(s))
           ax == a \o <<x>>
           r == ax \o b
<1>1. r = InsertAt(s, i, x)
  BY DEF InsertAt
<1>2. Len(s) \in Nat /\ i - 1 \in 0..Len(s) /\ 1 \in 1..Len(s) + 1 /\ Len(s) \in 0..Len(s)
  OBVIOUS
<1>3. /\ a \in Seq(T) /\ (IsInjective(s) => IsInjective(a))
      /\ \A y : y \in ToSet(a) <=> \E j \in 1..Len(s) : 1 =< j /\ j =< i - 1 /\ s[j] = y
  BY <1>2, SubSeqIs
<1>4. /\ b \in Seq(T) /\ (IsInjective(s) => IsInjective(b))
      /\ \A y : y \in ToSet(b) <=> \E j \in 1..Len(s) : i =< j /\ j =< Len(s) /\ s[j] = y
  BY <1>2, SubSeqIs
<1>5. <<x>> \in Seq(T) /\ ToSet(<<x>>) = {x} /\ IsInjective(<<x>>)
  BY OneIs
<1> DEFINE one == <<x>>
<1> HIDE DEF a, b, one
<1>6. /\ ax \in Seq(T) /\ ToSet(ax) = ToSet(a) \cup {x}
      /\ IsInjective(a) /\ ToSet(a) \cap {x} = {} => IsInjective(ax)
  <2>1. one \in Seq(T) /\ ToSet(one) = {x} /\ IsInjective(one)
    BY <1>5 DEF one
  <2>2. /\ a \o one \in Seq(T) /\ ToSet(a \o one) = ToSet(a) \cup ToSet(one)
        /\ IsInjective(a) /\ IsInjective(one) /\ ToSet(a) \cap ToSet(one) = {} => IsInjective(a \o one)
    BY <1>3, <2>1, ConcatIs
  <2>3. ax = a \o one
    BY DEF one
  <2> HIDE DEF ax
  <2> QED
    BY <2>1, <2>2, <2>3
<1> HIDE DEF ax
<1>7. /\ r \in Seq(T) /\ ToSet(r) = ToSet(a) \cup {x} \cup ToSet(b)
      /\ IsInjective(ax) /\ IsInjective(b) /\ ToSet(ax) \cap ToSet(b) = {} => IsInjective(r)
  BY <1>4, <1>6, ConcatIs
<1> HIDE DEF r
<1>8. ToSet(a) \cup ToSet(b) = ToSet(s)
  <2>1. \A y \in ToSet(s) : \E j \in 1..Len(s) : s[j] = y
    BY SeqFacts
  <2>2. \A j \in 1..Len(s) : s[j] \in ToSet(s) /\ (j =< i - 1 \/ i =< j)
    BY <1>2, SeqFacts
  <2>3. ToSet(a) \cup ToSet(b) \subseteq ToSet(s)
    BY <1>3, <1>4, <2>2
  <2>4. ToSet(s) \subseteq ToSet(a) \cup ToSet(b)
    BY <1>2, <1>3, <1>4, <2>1, <2>2
  <2> QED
    BY <2>3, <2>4
<1>9. ASSUME IsInjective(s), x \notin ToSet(s) PROVE IsInjective(r)
  <2>1. ToSet(a) \cap ToSet(b) = {}
    <3> SUFFICES ASSUME NEW y \in ToSet(a), y \in ToSet(b) PROVE FALSE
      OBVIOUS
    <3>1. PICK j \in 1..Len(s) : j =< i - 1 /\ s[j] = y
      BY <1>3
    <3>2. PICK k \in 1..Len(s) : i =< k /\ s[k] = y
      BY <1>4
    <3>3. j = k
      BY <1>9, <3>1, <3>2, SeqFacts
    <3> QED
      BY <1>2, <3>1, <3>2, <3>3
  <2>2. x \notin ToSet(a) /\ x \notin ToSet(b)
    BY <1>8, <1>9
  <2> QED
    BY <1>3, <1>4, <1>6, <1>7, <1>9, <2>1, <2>2
<1> QED
  BY <1>1, <1>7, <1>8, <1>9

-----------------------------------------------------------------------------
(* The members of a sequence that are in a set.                            *)

\* Only's recursive function exists: for every n there is one up to n.
LEMMA OnlySteps ==
  ASSUME NEW T, NEW s \in Seq(T), NEW S
  PROVE  \E f : /\ f = [i \in 0..Len(s) |->
                          IF i = 0 THEN <<>> ELSE IF s[i] \in S THEN Append(f[i - 1], s[i]) ELSE f[i - 1]]
                /\ Only(s, S) = f[Len(s)]
<1> DEFINE Step(f, i) == IF i = 0 THEN <<>>
                         ELSE IF s[i] \in S THEN Append(f[i - 1], s[i]) ELSE f[i - 1]
           Has(n) == \E f : DOMAIN f = 0..n /\ \A i \in 0..n : f[i] = Step(f, i)
           good == {n \in Nat : Has(n)}
<1>1. Has(0)
  <2> DEFINE f == [i \in 0..0 |-> <<>>]
  <2>1. DOMAIN f = 0..0 /\ \A i \in 0..0 : f[i] = Step(f, i)
    OBVIOUS
  <2> QED
    BY <2>1
<1>2. ASSUME NEW n \in Nat, Has(n) PROVE Has(n + 1)
  <2>1. PICK f : DOMAIN f = 0..n /\ \A i \in 0..n : f[i] = Step(f, i)
    BY <1>2
  <2> DEFINE top == IF s[n + 1] \in S THEN Append(f[n], s[n + 1]) ELSE f[n]
             g == [i \in 0..(n + 1) |-> IF i = n + 1 THEN top ELSE f[i]]
  <2>2. DOMAIN g = 0..(n + 1) /\ g[n + 1] = top /\ \A i \in 0..n : g[i] = f[i]
    OBVIOUS
  <2>3. g[n + 1] = Step(g, n + 1)
    <3>1. n + 1 # 0 /\ (n + 1) - 1 = n /\ g[n] = f[n]
      BY <2>2
    <3> QED
      BY <2>2, <3>1
  <2> HIDE DEF g
  <2>4. ASSUME NEW i \in 0..n PROVE g[i] = Step(g, i)
    <3>1. g[i] = f[i] /\ f[i] = Step(f, i) /\ (i # 0 => g[i - 1] = f[i - 1])
      BY <2>1, <2>2
    <3> QED
      BY <3>1
  <2>5. \A i \in 0..(n + 1) : i \in 0..n \/ i = n + 1
    OBVIOUS
  <2>6. \A i \in 0..(n + 1) : g[i] = Step(g, i)
    BY <2>3, <2>4, <2>5
  <2> QED
    BY <2>2, <2>6
<1> HIDE DEF Has
<1>3. good = Nat
  <2>1. good \in SUBSET Nat /\ 0 \in good
    BY <1>1
  <2>2. \A n \in Nat : n \in good => n + 1 \in good
    BY <1>2
  <2> HIDE DEF good
  <2> QED
    BY <2>1, <2>2, Induction
<1> HIDE DEF good
<1>4. Len(s) \in good
  BY <1>3
<1>5. Has(Len(s))
  BY <1>4 DEF good
<1>6. PICK g : DOMAIN g = 0..Len(s) /\ \A i \in 0..Len(s) : g[i] = Step(g, i)
  BY <1>5 DEF Has
<1> DEFINE Is(f) == f = [i \in 0..Len(s) |-> Step(f, i)]
           c == CHOOSE f : Is(f)
<1>7. \E f : Is(f)
  <2>1. \E f : DOMAIN f = 0..Len(s) /\ f = [i \in 0..Len(s) |-> Step(f, i)]
    <3> DEFINE h == [i \in 0..Len(s) |-> g[i]]
    <3>1. DOMAIN h = 0..Len(s) /\ \A i \in 0..Len(s) : h[i] = g[i]
      OBVIOUS
    <3>2. \A i \in 0..Len(s) : i # 0 => i - 1 \in 0..Len(s)
      OBVIOUS
    <3> HIDE DEF h
    <3>3. \A i \in 0..Len(s) : h[i] = Step(h, i)
      BY <1>6, <3>1, <3>2
    <3>4. h = [i \in 0..Len(s) |-> h[i]]
      BY <3>1 DEF h
    <3>5. h = [i \in 0..Len(s) |-> Step(h, i)]
      BY <3>3, <3>4
    <3> QED
      BY <3>1, <3>5
  <2> QED
    BY <2>1
<1>8. Is(c)
  BY <1>7
<1>9. Only(s, S) = c[Len(s)]
  BY DEF Only
<1> HIDE DEF c
<1> QED
  BY <1>8, <1>9

\* Only keeps what is in the set, and repeats nothing.
LEMMA OnlyIs ==
  ASSUME NEW T, NEW s \in Seq(T), NEW S
  PROVE  /\ Only(s, S) \in Seq(T) /\ ToSet(Only(s, S)) = ToSet(s) \cap S
         /\ IsInjective(s) => IsInjective(Only(s, S))
<1>1. PICK f : /\ f = [i \in 0..Len(s) |->
                         IF i = 0 THEN <<>> ELSE IF s[i] \in S THEN Append(f[i - 1], s[i]) ELSE f[i - 1]]
               /\ Only(s, S) = f[Len(s)]
  BY OnlySteps
<1>2. Len(s) \in Nat /\ \A i \in 1..Len(s) : s[i] \in T
  OBVIOUS
<1>3. f[0] = <<>> /\ \A n \in Nat : n + 1 =< Len(s) =>
        f[n + 1] = IF s[n + 1] \in S THEN Append(f[n], s[n + 1]) ELSE f[n]
  <2>1. f[0] = <<>>
    BY <1>1, <1>2
  <2>2. ASSUME NEW n \in Nat, n + 1 =< Len(s)
        PROVE  f[n + 1] = IF s[n + 1] \in S THEN Append(f[n], s[n + 1]) ELSE f[n]
    <3>1. n + 1 \in 0..Len(s) /\ n + 1 # 0 /\ (n + 1) - 1 = n
      BY <1>2, <2>2
    <3>2. f[n + 1] = IF s[n + 1] \in S THEN Append(f[(n + 1) - 1], s[n + 1]) ELSE f[(n + 1) - 1]
      BY <1>1, <3>1
    <3> QED
      BY <3>1, <3>2
  <2> QED
    BY <2>1, <2>2
<1> DEFINE Pre(n) == {s[i] : i \in 1..n}
           Ok(n) == n =< Len(s) =>
                      /\ f[n] \in Seq(T) /\ ToSet(f[n]) = Pre(n) \cap S
                      /\ IsInjective(s) => IsInjective(f[n])
           good == {n \in Nat : Ok(n)}
<1>4. Ok(0)
  <2>1. Pre(0) = {}
    OBVIOUS
  <2> HIDE DEF Pre
  <2> QED
    BY <1>3, <2>1, NoneIs
<1>5. ASSUME NEW n \in Nat, Ok(n) PROVE Ok(n + 1)
  <2> SUFFICES ASSUME n + 1 =< Len(s)
               PROVE  /\ f[n + 1] \in Seq(T) /\ ToSet(f[n + 1]) = Pre(n + 1) \cap S
                      /\ IsInjective(s) => IsInjective(f[n + 1])
    OBVIOUS
  <2>1. n =< Len(s) /\ n + 1 \in 1..Len(s) /\ s[n + 1] \in T
    BY <1>2
  <2>2. Pre(n + 1) = Pre(n) \cup {s[n + 1]}
    <3>1. \A i \in 1..(n + 1) : i \in 1..n \/ i = n + 1
      OBVIOUS
    <3>2. \A i \in 1..n : i \in 1..(n + 1)
      OBVIOUS
    <3> QED
      BY <3>1, <3>2
  <2>3. ASSUME IsInjective(s) PROVE s[n + 1] \notin Pre(n)
    <3> SUFFICES ASSUME NEW i \in 1..n, s[i] = s[n + 1] PROVE FALSE
      OBVIOUS
    <3>1. i \in 1..Len(s) /\ i # n + 1
      BY <2>1
    <3> QED
      BY <2>1, <2>3, <3>1, SeqFacts
  <2>4. f[n] \in Seq(T) /\ ToSet(f[n]) = Pre(n) \cap S /\ (IsInjective(s) => IsInjective(f[n]))
    BY <1>5, <2>1
  <2> HIDE DEF Pre
  <2>5. CASE s[n + 1] \in S
    <3>1. f[n + 1] = Append(f[n], s[n + 1])
      BY <1>3, <2>5
    <3>2. /\ Append(f[n], s[n + 1]) \in Seq(T) /\ ToSet(Append(f[n], s[n + 1])) = ToSet(f[n]) \cup {s[n + 1]}
          /\ IsInjective(f[n]) /\ s[n + 1] \notin ToSet(f[n]) => IsInjective(Append(f[n], s[n + 1]))
      BY <2>1, <2>4, AppendIs
    <3> QED
      BY <2>2, <2>3, <2>4, <2>5, <3>1, <3>2
  <2>6. CASE s[n + 1] \notin S
    <3>1. f[n + 1] = f[n]
      BY <1>3, <2>6
    <3> QED
      BY <2>2, <2>4, <2>6, <3>1
  <2> QED
    BY <2>5, <2>6
<1>6. Pre(Len(s)) = ToSet(s)
  BY DEF ToSet
<1> HIDE DEF Ok, Pre
<1>7. good = Nat
  <2>1. good \in SUBSET Nat /\ 0 \in good
    BY <1>4
  <2>2. \A n \in Nat : n \in good => n + 1 \in good
    BY <1>5
  <2> HIDE DEF good
  <2> QED
    BY <2>1, <2>2, Induction
<1> HIDE DEF good
<1>8. Len(s) \in good
  BY <1>2, <1>7
<1>9. Ok(Len(s))
  BY <1>8 DEF good
<1> QED
  BY <1>1, <1>2, <1>6, <1>9 DEF Ok

-----------------------------------------------------------------------------
(* The queue.                                                              *)

\* Enqueue adds the thread.
LEMMA EnqueueIs ==
  ASSUME NEW q \in Seq(Threads), NEW s \in Threads, NEW how, NEW cond, NEW blocked, NEW unlocking
  PROVE  /\ Enqueue(q, s, how, cond, blocked, unlocking) \in Seq(Threads)
         /\ ToSet(Enqueue(q, s, how, cond, blocked, unlocking)) = ToSet(q) \cup {s}
         /\ IsInjective(q) /\ s \notin ToSet(q) => IsInjective(Enqueue(q, s, how, cond, blocked, unlocking))
<1> DEFINE r == Enqueue(q, s, how, cond, blocked, unlocking)
           front == ~unlocking \/ (how = W /\ cond = None)
           above == Priority[s] > Priority[Last(q)]
           set == {i \in 1..Len(q) : \A j \in 1..i : Priority[q[j]] >= Priority[s]}
           place == Cardinality(set)
           first == Priority[s] >= Priority[q[1]]
<1>1. place + 1 \in 1..Len(q) + 1
  <2>1. set \subseteq 1..Len(q)
    OBVIOUS
  <2> HIDE DEF set
  <2>2. Len(q) \in Nat /\ IsFiniteSet(1..Len(q)) /\ Cardinality(1..Len(q)) = Len(q)
    <3>1. Len(q) \in Nat /\ 1 \in Int
      OBVIOUS
    <3> DEFINE n == Len(q)
    <3> HIDE DEF n
    <3>2. n \in Nat => IsFiniteSet(1..n) /\ Cardinality(1..n) = n
      BY FS_Interval
    <3> QED
      BY <3>1, <3>2 DEF n
  <2>3. IsFiniteSet(set) /\ Cardinality(set) =< Cardinality(1..Len(q))
    BY <2>1, <2>2, FS_Subset
  <2>4. Cardinality(set) \in Nat
    BY <2>3, FS_CardinalityType
  <2> QED
    BY <2>2, <2>3, <2>4
<1>2. r = CASE q = <<>> -> <<s>>
            [] q # <<>> /\ above /\ ~unlocking -> InsertAt(q, place + 1, s)
            [] q # <<>> /\ above /\ unlocking /\ front -> <<s>> \o q
            [] q # <<>> /\ ~(above /\ front) /\ blocked /\ front /\ first -> <<s>> \o q
            [] OTHER -> Append(q, s)
  BY DEF Enqueue
<1> HIDE DEF r, place, above, first
<1>3. \/ q = <<>> /\ r = <<s>>
      \/ q # <<>> /\ ~unlocking /\ r = InsertAt(q, place + 1, s)
      \/ q # <<>> /\ front /\ r = <<s>> \o q
      \/ q # <<>> /\ r = Append(q, s)
  <2>1. CASE q = <<>>
    BY <1>2, <2>1
  <2>2. CASE q # <<>> /\ above /\ ~unlocking
    BY <1>2, <2>2
  <2>3. CASE q # <<>> /\ above /\ unlocking /\ front
    BY <1>2, <2>3
  <2>4. CASE q # <<>> /\ ~(above /\ front) /\ blocked /\ front /\ first
    <3>1. ~(q # <<>> /\ above /\ ~unlocking) /\ ~(q # <<>> /\ above /\ unlocking /\ front)
      BY <2>4
    <3> QED
      BY <1>2, <2>4, <3>1
  <2>5. CASE /\ q # <<>> /\ ~(q # <<>> /\ above /\ ~unlocking) /\ ~(q # <<>> /\ above /\ unlocking /\ front)
             /\ ~(q # <<>> /\ ~(above /\ front) /\ blocked /\ front /\ first)
    BY <1>2, <2>5
  <2> QED
    BY <2>1, <2>2, <2>3, <2>4, <2>5
<1>4. /\ <<s>> \in Seq(Threads) /\ ToSet(<<s>>) = {s} /\ IsInjective(<<s>>)
  BY OneIs
<1>5. CASE q = <<>> /\ r = <<s>>
  <2>1. ToSet(q) = {}
    BY <1>5, NoneIs
  <2> QED
    BY <1>4, <1>5, <2>1 DEF r
<1>6. CASE q # <<>> /\ ~unlocking /\ r = InsertAt(q, place + 1, s)
  <2>1. /\ InsertAt(q, place + 1, s) \in Seq(Threads) /\ ToSet(InsertAt(q, place + 1, s)) = ToSet(q) \cup {s}
        /\ IsInjective(q) /\ s \notin ToSet(q) => IsInjective(InsertAt(q, place + 1, s))
    BY <1>1, InsertIs
  <2> QED
    BY <1>6, <2>1 DEF r
<1>7. CASE q # <<>> /\ front /\ r = <<s>> \o q
  <2>1. /\ <<s>> \o q \in Seq(Threads) /\ ToSet(<<s>> \o q) = {s} \cup ToSet(q)
        /\ IsInjective(q) /\ {s} \cap ToSet(q) = {} => IsInjective(<<s>> \o q)
    <3> DEFINE one == <<s>>
    <3>1. one \in Seq(Threads) /\ ToSet(one) = {s} /\ IsInjective(one)
      BY <1>4
    <3> HIDE DEF one
    <3>2. /\ one \o q \in Seq(Threads) /\ ToSet(one \o q) = {s} \cup ToSet(q)
          /\ IsInjective(q) /\ {s} \cap ToSet(q) = {} => IsInjective(one \o q)
      BY <3>1, ConcatIs
    <3> QED
      BY <3>2 DEF one
  <2> QED
    BY <1>7, <2>1 DEF r
<1>8. CASE q # <<>> /\ r = Append(q, s)
  <2>1. /\ Append(q, s) \in Seq(Threads) /\ ToSet(Append(q, s)) = ToSet(q) \cup {s}
        /\ IsInjective(q) /\ s \notin ToSet(q) => IsInjective(Append(q, s))
    BY AppendIs
  <2> QED
    BY <1>8, <2>1 DEF r
<1> QED
  BY <1>3, <1>5, <1>6, <1>7, <1>8

\* Where a thread is in a sequence.
Position(s, w) == SelectInSeq(s, LAMBDA x : x = w)

LEMMA PositionIs ==
  ASSUME NEW T, NEW s \in Seq(T), NEW w
  PROVE  /\ Position(s, w) \in 0..Len(s)
         /\ w \in ToSet(s) => Position(s, w) \in 1..Len(s) /\ s[Position(s, w)] = w
         /\ w \notin ToSet(s) => Position(s, w) = 0
<1> DEFINE at == {i \in 1..Len(s) : s[i] = w}
<1>1. Position(s, w) = IF at # {} THEN Min(at) ELSE 0
  BY DEF Position, SelectInSeq
<1>2. at \in SUBSET Nat /\ at \subseteq 1..Len(s) /\ \A i \in at : s[i] = w
  OBVIOUS
<1>3. at # {} <=> w \in ToSet(s)
  BY SeqFacts
<1>4. Len(s) \in Nat
  OBVIOUS
<1> HIDE DEF at
<1>5. at # {} => Min(at) \in at
  BY <1>2, LeastOne
<1>6. CASE at = {}
  <2>1. Position(s, w) = 0 /\ w \notin ToSet(s)
    BY <1>1, <1>3, <1>6
  <2> QED
    BY <1>4, <2>1
<1>7. CASE at # {}
  <2>1. Position(s, w) \in at
    BY <1>1, <1>5, <1>7
  <2>2. Position(s, w) \in 1..Len(s) /\ s[Position(s, w)] = w /\ w \in ToSet(s)
    BY <1>2, <1>3, <1>7, <2>1
  <2> QED
    BY <1>4, <2>2
<1> QED
  BY <1>6, <1>7

\* DequeueAllWakeable takes only marked threads, and one at least if one is marked.
LEMMA WakeableIs ==
  ASSUME NEW q \in Seq(Threads), NEW marked
  PROVE  /\ Wakeable(q, marked) \in Seq(Threads) /\ ToSet(Wakeable(q, marked)) \subseteq ToSet(q) \cap marked
         /\ IsInjective(q) => IsInjective(Wakeable(q, marked))
         /\ ToSet(q) \cap marked # {} => Wakeable(q, marked) # <<>>
<1> DEFINE m == Only(q, marked)
           at == {i \in 1..Len(m) : ~IsReader(m[i])}
           w == IF at # {} THEN Min(at) ELSE 0
           r == IF w = 0 THEN m ELSE SubSeq(m, 1, w)
<1>1. /\ m \in Seq(Threads) /\ ToSet(m) = ToSet(q) \cap marked
      /\ IsInjective(q) => IsInjective(m)
  BY OnlyIs
<1>2. Wakeable(q, marked) = r
  BY DEF Wakeable, SelectInSeq
<1> HIDE DEF m
<1>3. at \in SUBSET Nat /\ at \subseteq 1..Len(m)
  OBVIOUS
<1> HIDE DEF at
<1>4. w = 0 \/ w \in 1..Len(m)
  BY <1>3, LeastOne
<1> HIDE DEF w
<1>5. CASE w = 0
  BY <1>1, <1>2, <1>5, SeqFacts
<1>6. CASE w \in 1..Len(m)
  <2>1. Len(m) \in Nat /\ 1 \in 1..Len(m) + 1 /\ w \in 0..Len(m)
    BY <1>1, <1>6
  <2>2. /\ SubSeq(m, 1, w) \in Seq(Threads)
        /\ \A x : x \in ToSet(SubSeq(m, 1, w)) <=> \E i \in 1..Len(m) : 1 =< i /\ i =< w /\ m[i] = x
        /\ IsInjective(m) => IsInjective(SubSeq(m, 1, w))
    BY <1>1, <2>1, SubSeqIs
  <2>3. r = SubSeq(m, 1, w)
    BY <1>6
  <2> HIDE DEF r
  <2>4. ToSet(r) \subseteq ToSet(m)
    <3>1. \A i \in 1..Len(m) : m[i] \in ToSet(m)
      BY <1>1, SeqFacts
    <3> QED
      BY <2>2, <2>3, <3>1
  <2>5. r # <<>>
    <3>1. m[1] \in ToSet(r)
      BY <1>6, <2>1, <2>2, <2>3
    <3> QED
      BY <3>1, NoneIs
  <2> QED
    BY <1>1, <1>2, <2>2, <2>3, <2>4, <2>5
<1> QED
  BY <1>4, <1>5, <1>6

-----------------------------------------------------------------------------
(* The invariant.                                                          *)

\* Who is on the queue of the mutex, on the list of the condition variable, in the
\* hand of a signaller, and in the hand of a thread that wakes others.
InQ(x) == x \in ToSet(queue)
InC(x) == x \in ToSet(cv)
InF(t, x) == x \in ToSet(loc[t].fer)
Hands(t) == IF loc[t].pc = "wakePost" THEN Tail(loc[t].wakes) ELSE loc[t].wakes
InH(t, x) == x \in ToSet(Hands(t))

\* A thread that waits on the condition variable, or on the mutex.
CvWait(x) == \/ loc[x].pc = "cvblock"
             \/ loc[x].pc \in {"list", "nolist"} /\ loc[x].mode = "cv"
             \/ loc[x].pc \in Waking /\ loc[x].mode = "cvblock"
MuWait(x) == \/ loc[x].pc \in {"block", "remove", "removing", "unlink"}
             \/ loc[x].pc \in Waking /\ loc[x].mode = "block"

\* What a thread has in hand.
Local(t) ==
  /\ loc[t].fer \in Seq(Threads) /\ IsInjective(loc[t].fer)
  /\ loc[t].wakes \in Seq(Threads) /\ IsInjective(loc[t].wakes)
  /\ loc[t].pc \in Waking <=> loc[t].wakes # <<>>
  /\ loc[t].fer # <<>> => \/ loc[t].pc \in {"fer", "ferqueue"}
                          \/ loc[t].pc \in Waking /\ loc[t].mode = "fer"
  /\ loc[t].pc = "ferqueue" => loc[t].fer # <<>>

\* Nobody is in two places.
Apart(x) ==
  /\ ~(InQ(x) /\ InC(x))
  /\ \A t \in Threads : InF(t, x) \/ InH(t, x) => ~InQ(x) /\ ~InC(x)
  /\ \A t, u \in Threads : /\ ~(InF(t, x) /\ InH(u, x))
                           /\ InF(t, x) /\ InF(u, x) => t = u
                           /\ InH(t, x) /\ InH(u, x) => t = u

\* A thread is kQueued while it is somewhere, and waits there for what it should.
Placed(x) ==
  /\ synch[x].queued <=> \/ InQ(x) \/ InC(x)
                         \/ \E t \in Threads : InF(t, x) \/ InH(t, x)
  /\ InQ(x) => CvWait(x) \/ MuWait(x)
  /\ InC(x) => CvWait(x)
  /\ \A t \in Threads : (InF(t, x) => CvWait(x)) /\ (InH(t, x) => CvWait(x) \/ MuWait(x))

Lists ==
  /\ queue \in Seq(Threads) /\ IsInjective(queue)
  /\ cv \in Seq(Threads) /\ IsInjective(cv)
  /\ \A t \in Threads : Local(t) /\ Apart(t) /\ Placed(t)

Bits == (mu_.wrwait => mu_.wait) /\ (mu_.wait <=> queue # <<>>)

\* A thread that has been taken off the queue or the list, or is about to look at
\* the word again after that.
Awake(t) ==
  \/ loc[t].pc = "loop" /\ loc[t].blocked
  \/ /\ \/ loc[t].pc = "cvblock"
        \/ loc[t].pc \in Waking /\ loc[t].mode = "cvblock"
        \/ MuWait(t)
     /\ ~InQ(t) /\ ~InC(t) /\ \A u \in Threads : ~InF(u, t)

Desig == mu_.desig => \E t \in Threads : Awake(t)

\* What an unlocker has found is where it was.
Found(t) ==
  \E i \in 1..Len(queue) :
    queue[i] = loc[t].w /\ IF loc[t].pw = None THEN i = 1 ELSE i > 1 /\ queue[i - 1] = loc[t].pw

\* A search: only who holds the lock searches, and the queue knows of it.
Searched(t) ==
  /\ loc[t].pc \notin Releasing => loc[t].oldh = None
  /\ loc[t].oldh = None => loc[t].w = None
  /\ loc[t].w = None => loc[t].pw = None
  /\ loc[t].oldh # None => head.unlocking /\ InQ(loc[t].oldh)
  /\ loc[t].w # None => InQ(loc[t].w) /\ (EasyWriter \/ Found(t))

Searches == \A t \in Threads : Searched(t)

\* Calls that wait for a condition without a deadline.
Sure == {"LockWhen", "ReaderLockWhen", "Await"}

Cond(t) ==
  /\ loc[t].pc = "run" /\ loc[t].op # "none" =>
       loc[t].held # None /\ (loc[t].res => data) /\ (loc[t].op \in Sure => loc[t].res)
  /\ loc[t].pc # "run" /\ loc[t].op # "none" =>
       \/ loc[t].pc \in InCalls \ {"cvblock"}
       \/ loc[t].pc \in Releasing /\ loc[t].mode = "requeue"
       \/ loc[t].pc \in Waking /\ loc[t].mode = "block"
  /\ loc[t].pc # "run" /\ loc[t].op \in Sure =>
       ~loc[t].timed /\ synch[t].cond = "data" /\ loc[t].pc \notin {"remove", "removing", "unlink"}

Conds == \A t \in Threads : Cond(t)

CInv == Lists /\ Bits /\ Desig /\ Searches /\ Conds

LEMMA IdleIs ==
  /\ Idle.pc = "run" /\ Idle.held = None /\ Idle.op = "none" /\ Idle.fer = <<>> /\ Idle.wakes = <<>>
  /\ Idle.oldh = None /\ Idle.w = None /\ Idle.pw = None
BY DEF Idle

-----------------------------------------------------------------------------
(* What all steps have in common.                                          *)

\* Only thread t moves.
Alone(t) == DOMAIN loc' = Threads /\ \A u \in Threads \ {t} : loc'[u] = loc[u]

\* A thread that is not on its way out of a wait.
Resting(t) == \/ loc[t].pc = "cvblock" \/ MuWait(t)
              \/ loc[t].pc \in Waking /\ loc[t].mode = "cvblock"
Returning(t) == loc[t].pc = "loop" /\ loc[t].blocked

\* What t has in hand stays, and so does what it knows of a search, or it is cleared.
HandsKept(t) ==
  /\ Alone(t) /\ loc'[t].fer = loc[t].fer /\ loc'[t].wakes = loc[t].wakes
  /\ loc[t].pc \notin Waking /\ loc'[t].pc \notin Waking
  /\ loc[t].fer # <<>> => loc'[t].pc \in {"fer", "ferqueue"}
  /\ loc'[t].pc = "ferqueue" => loc[t].fer # <<>>
SearchKept(t) ==
  /\ \/ loc'[t].oldh = loc[t].oldh /\ loc'[t].w = loc[t].w /\ loc'[t].pw = loc[t].pw
     \/ loc'[t].oldh = None /\ loc'[t].w = None /\ loc'[t].pw = None
  /\ loc'[t].pc \notin Releasing => loc'[t].oldh = None
SynchSame(t) ==
  /\ \A u \in Threads : synch'[u].queued <=> synch[u].queued
  /\ \A u \in Threads \ {t} : synch'[u].how = synch[u].how /\ synch'[u].cond = synch[u].cond
  /\ InQ(t) => synch'[t].how = synch[t].how /\ synch'[t].cond \in {None, synch[t].cond}

\* The bits of the word that the lists depend on.
BitsKept(t) ==
  /\ (mu_'.wait <=> mu_.wait) /\ (mu_'.wrwait => mu_.wrwait)
  /\ mu_'.desig => /\ mu_.desig /\ (Returning(t) => Returning(t)')
                   /\ Resting(t) => Resting(t)' \/ Returning(t)'
StillWaits(t) ==
  synch[t].queued => (CvWait(t) => CvWait(t)') /\ (MuWait(t) => MuWait(t)')

\* A step that leaves the lists alone.
Simple(t) ==
  /\ UNCHANGED <<queue, cv>> /\ (head'.unlocking <=> head.unlocking)
  /\ HandsKept(t) /\ SearchKept(t) /\ SynchSame(t) /\ BitsKept(t) /\ StillWaits(t)
  /\ Cond(t)' /\ (data' = data \/ loc[t].held = W)

\* Lists, for a thread to whom the step does nothing.
LEMMA StaysPlaced ==
  ASSUME NEW x \in Threads, Apart(x), Placed(x),
         InQ(x)' <=> InQ(x), InC(x)' <=> InC(x),
         \A u \in Threads : (InF(u, x)' <=> InF(u, x)) /\ (InH(u, x)' <=> InH(u, x)),
         synch'[x].queued <=> synch[x].queued, StillWaits(x)
  PROVE  Apart(x)' /\ Placed(x)'
<1>1. Apart(x)'
  BY DEF Apart
<1>2. CvWait(x) /\ synch[x].queued => CvWait(x)'
  BY DEF StillWaits
<1>3. MuWait(x) /\ synch[x].queued => MuWait(x)'
  BY DEF StillWaits
<1>4. Placed(x)'
  BY ONLY <1>2, <1>3, Placed(x), InQ(x)' <=> InQ(x), InC(x)' <=> InC(x),
     \A u \in Threads : (InF(u, x)' <=> InF(u, x)) /\ (InH(u, x)' <=> InH(u, x)),
     synch'[x].queued <=> synch[x].queued DEF Placed
<1> QED
  BY <1>1, <1>4

\* The others are where they were and have in hand what they had.
LEMMA OthersStay ==
  ASSUME NEW t \in Threads, Alone(t), NEW u \in Threads, u # t
  PROVE  /\ \A x : (InF(u, x)' <=> InF(u, x)) /\ (InH(u, x)' <=> InH(u, x))
         /\ Local(u)' <=> Local(u)
         /\ StillWaits(u) /\ (CvWait(u)' <=> CvWait(u)) /\ (MuWait(u)' <=> MuWait(u))
         /\ (Resting(u)' <=> Resting(u)) /\ (Returning(u)' <=> Returning(u))
<1>1. loc'[u] = loc[u]
  BY DEF Alone
<1>2. \A x : (InF(u, x)' <=> InF(u, x)) /\ (InH(u, x)' <=> InH(u, x))
  BY <1>1 DEF InF, InH, Hands
<1>3. Local(u)' <=> Local(u)
  BY <1>1 DEF Local
<1>4. (CvWait(u)' <=> CvWait(u)) /\ (MuWait(u)' <=> MuWait(u))
  BY <1>1 DEF CvWait, MuWait
<1>5. (Resting(u)' <=> Resting(u)) /\ (Returning(u)' <=> Returning(u))
  BY <1>1, <1>4 DEF Resting, Returning
<1> QED
  BY <1>2, <1>3, <1>4, <1>5 DEF StillWaits

LEMMA ListsSimple ==
  ASSUME Lists, NEW t \in Threads, UNCHANGED <<queue, cv>>, HandsKept(t), SynchSame(t), StillWaits(t)
  PROVE  Lists'
<1>1. \A x : (InQ(x)' <=> InQ(x)) /\ (InC(x)' <=> InC(x))
  BY DEF InQ, InC
<1>2. \A x : (InF(t, x)' <=> InF(t, x)) /\ (InH(t, x)' <=> InH(t, x))
  BY DEF InF, InH, Hands, HandsKept, Waking
<1>3. \A u \in Threads : \A x : (InF(u, x)' <=> InF(u, x)) /\ (InH(u, x)' <=> InH(u, x))
  BY <1>2, OthersStay DEF HandsKept
<1>4. Local(t)'
  BY DEF Lists, Local, HandsKept, Waking
<1>5. ASSUME NEW x \in Threads PROVE Local(x)' /\ Apart(x)' /\ Placed(x)'
  <2>1. Local(x)'
    BY <1>4, OthersStay DEF Lists, HandsKept
  <2>2. StillWaits(x)
    BY OthersStay DEF HandsKept
  <2>3. Apart(x) /\ Placed(x) /\ (synch'[x].queued <=> synch[x].queued)
    BY DEF Lists, SynchSame
  <2> QED
    BY <1>1, <1>3, <2>1, <2>2, <2>3, StaysPlaced
<1> QED
  BY <1>5 DEF Lists

\* The designated waker: nobody is put on a list, and t goes on being awake.
LEMMA AwakeIs ==
  ASSUME NEW t
  PROVE  Awake(t) <=> Returning(t) \/ (Resting(t) /\ ~InQ(t) /\ ~InC(t) /\ \A u \in Threads : ~InF(u, t))
BY DEF Awake, Returning, Resting

LEMMA DesigSimple ==
  ASSUME Desig, NEW t \in Threads, Alone(t), BitsKept(t),
         \A x \in Threads : InQ(x)' \/ InC(x)' \/ (\E u \in Threads : InF(u, x)')
                              => InQ(x) \/ InC(x) \/ \E u \in Threads : InF(u, x)
  PROVE  Desig'
<1> SUFFICES ASSUME mu_'.desig PROVE \E u \in Threads : Awake(u)'
  BY DEF Desig
<1>1. PICK u \in Threads : Awake(u)
  BY DEF Desig, BitsKept
<1>2. Returning(u) \/ (Resting(u) /\ ~InQ(u) /\ ~InC(u) /\ \A v \in Threads : ~InF(v, u))
  BY <1>1, AwakeIs
<1>3. Returning(u)' \/ (Resting(u)' /\ ~InQ(u)' /\ ~InC(u)' /\ \A v \in Threads : ~InF(v, u)')
  <2>1. Returning(u) => Returning(u)'
    BY OthersStay DEF BitsKept
  <2>2. Resting(u) => Resting(u)' \/ Returning(u)'
    BY OthersStay DEF BitsKept
  <2> QED
    BY <1>2, <2>1, <2>2
<1>4. Awake(u)'
  BY <1>3 DEF Awake, Returning, Resting
<1> QED
  BY <1>4

LEMMA SearchesSimple ==
  ASSUME Lists, Searches, NEW t \in Threads, UNCHANGED queue, head'.unlocking <=> head.unlocking,
         Alone(t), SearchKept(t),
         \A u \in Threads : InQ(u) => synch'[u].how = synch[u].how /\ synch'[u].cond \in {None, synch[u].cond}
  PROVE  Searches'
<1>1. \A x : InQ(x)' <=> InQ(x)
  BY DEF InQ
<1>2. queue # <<>> /\ EasyWriter => EasyWriter'
  <2> SUFFICES ASSUME queue # <<>>, EasyWriter PROVE EasyWriter'
    OBVIOUS
  <2>1. queue[1] \in Threads /\ InQ(queue[1])
    BY SeqFacts DEF Lists, InQ
  <2>2. synch'[queue[1]].how = synch[queue[1]].how /\ synch'[queue[1]].cond \in {None, synch[queue[1]].cond}
    BY <2>1
  <2> QED
    BY <2>2 DEF EasyWriter
<1>3. \A x : InQ(x) => queue # <<>>
  BY SeqFacts DEF Lists, InQ
<1>4. ASSUME NEW u \in Threads PROVE Searched(u)'
  <2>1. CASE loc'[u].oldh = None /\ loc'[u].w = None /\ loc'[u].pw = None
    BY <2>1 DEF Searched
  <2>2. CASE /\ loc'[u].oldh = loc[u].oldh /\ loc'[u].w = loc[u].w /\ loc'[u].pw = loc[u].pw
             /\ loc'[u].pc \notin Releasing => loc'[u].oldh = None
    <3>1. Searched(u)
      BY DEF Searches
    <3>2. Found(u) <=> Found(u)'
      BY <2>2 DEF Found
    <3> QED
      BY <1>1, <1>2, <1>3, <2>2, <3>1, <3>2 DEF Searched
  <2>3. u # t => loc'[u] = loc[u] /\ Searched(u)
    BY DEF Alone, Searches
  <2> QED
    BY <2>1, <2>2, <2>3 DEF SearchKept, Searched
<1> QED
  BY <1>4 DEF Searches

\* Others: their conditions and the data they have read stay.
LEMMA CondsSimple ==
  ASSUME MInv, Conds, NEW t \in Threads, Alone(t), Cond(t)', data' = data \/ loc[t].held = W,
         \A u \in Threads \ {t} : synch'[u].cond = synch[u].cond \/ loc[u].op = "none"
  PROVE  Conds'
<1> USE MutexAssumption DEF W, R
<1>1. ASSUME NEW u \in Threads \ {t} PROVE Cond(u)'
  <2>1. loc'[u] = loc[u] /\ Cond(u) /\ (synch'[u].cond = synch[u].cond \/ loc[u].op = "none")
    BY DEF Alone, Conds
  <2>2. data' = data \/ loc[u].held = None
    <3>1. ASSUME loc[t].held = W PROVE loc[u].held = None
      BY <3>1 DEF MInv, Word, Calls, ThreadTypes
    <3> QED
      BY <3>1
  <2>3. "none" \notin Sure
    BY DEF Sure
  <2> QED
    BY <2>1, <2>2, <2>3 DEF Cond
<1> QED
  BY <1>1 DEF Conds

LEMMA SimpleKeeps ==
  ASSUME MInv, CInv, NEW t \in Threads, Simple(t) PROVE CInv'
<1>1. Alone(t) /\ \A x \in Threads : (InQ(x)' <=> InQ(x)) /\ (InC(x)' <=> InC(x))
  BY DEF Simple, HandsKept, InQ, InC
<1>2. \A u, x \in Threads : InF(u, x)' <=> InF(u, x)
  <2>1. \A x : InF(t, x)' <=> InF(t, x)
    BY DEF Simple, HandsKept, InF
  <2> QED
    BY <1>1, <2>1, OthersStay
<1>3. Lists'
  BY ListsSimple DEF CInv, Simple
<1>4. Bits'
  BY DEF CInv, Bits, Simple, BitsKept
<1>5. Desig'
  BY <1>1, <1>2, DesigSimple DEF CInv, Simple
<1>6. Searches'
  <2>1. \A u \in Threads : InQ(u) => synch'[u].how = synch[u].how /\ synch'[u].cond \in {None, synch[u].cond}
    BY DEF Simple, SynchSame
  <2> QED
    BY <1>1, <2>1, SearchesSimple DEF CInv, Simple
<1>7. Conds'
  BY <1>1, CondsSimple DEF CInv, Simple, SynchSame
<1> QED
  BY <1>3, <1>4, <1>5, <1>6, <1>7 DEF CInv

-----------------------------------------------------------------------------
(* The steps that leave the lists alone.                                   *)

\* Thread t is at p, and of the rest held, mode, timed and blocked may have changed.
Goes(t, p) ==
  /\ Alone(t) /\ loc'[t].pc = p /\ loc'[t].op = loc[t].op
  /\ loc'[t].fer = loc[t].fer /\ loc'[t].wakes = loc[t].wakes
  /\ loc'[t].oldh = loc[t].oldh /\ loc'[t].w = loc[t].w /\ loc'[t].pw = loc[t].pw

\* Thread t is at p at the beginning of operation o, or after its end, and holds h.
Begins(t, p, h, o) ==
  /\ Alone(t) /\ loc'[t].pc = p /\ loc'[t].held = h /\ loc'[t].op = o
  /\ loc'[t].fer = <<>> /\ loc'[t].wakes = <<>>
  /\ loc'[t].oldh = None /\ loc'[t].w = None /\ loc'[t].pw = None

\* What holds of a thread before its step.
Before(t) ==
  /\ Local(t) /\ Placed(t) /\ Searched(t) /\ Cond(t)
  /\ DOMAIN loc = Threads /\ DOMAIN loc[t] = LocFields
  /\ DOMAIN synch = Threads /\ (\A u \in Threads : DOMAIN synch[u] = SynchFields)
  /\ DOMAIN mu_ = BitFields /\ DOMAIN head = {"readers", "unlocking"}
  /\ loc[t].held \in {None, W, R} /\ synch[t].how \in {W, R}
  /\ loc[t].pc \in Releasing => loc[t].mode \in {"unlock", "requeue", "cvenqueue", "cv"}
  /\ loc[t].pc \in Waking => loc[t].mode \in {"run", "block", "cvblock", "fer"}

LEMMA BeforeStep ==
  ASSUME MInv, CInv, NEW t \in Threads PROVE Before(t)
<1>1. Local(t) /\ Placed(t) /\ Searched(t) /\ Cond(t)
  BY DEF CInv, Lists, Searches, Conds
<1> QED
  BY <1>1 DEF Before, MInv, Shapes, IsWord, Calls, ThreadTypes

\* A thread that is in no wait is on no list.
LEMMA NotWaiting ==
  ASSUME NEW t \in Threads, Before(t), ~CvWait(t), ~MuWait(t)
  PROVE  ~synch[t].queued /\ ~InQ(t) /\ ~InC(t) /\ \A u \in Threads : ~InF(u, t) /\ ~InH(u, t)
BY DEF Before, Placed

LEMMA BlockEndSimple ==
  ASSUME MInv, CInv, NEW t \in Threads, BlockEnd(t) PROVE Simple(t)
<1>1. Before(t)
  BY BeforeStep
<1>2. loc[t].pc = "block" /\ ~synch[t].queued /\ UNCHANGED <<queue, cv, head, mu_, synch, data>>
  BY DEF BlockEnd, At, shared
<1>3. Goes(t, "loop") /\ loc'[t].blocked /\ (loc'[t].timed <=> loc[t].timed)
  BY <1>1 DEF BlockEnd, Before, Goes, Alone, LocFields
<1> QED
  BY ONLY <1>1, <1>2, <1>3, t \in Threads
  DEF Simple, HandsKept, SearchKept, SynchSame, BitsKept, StillWaits, Cond, Goes, Before, Local, Searched,
      Returning, Resting, CvWait, MuWait, InCalls, Releasing, Waking

LEMMA TransSimple ==
  ASSUME MInv, CInv, NEW t \in Threads, Trans(t) PROVE Simple(t)
<1>1. Before(t)
  BY BeforeStep
<1>2. loc[t].pc = "cvblock" /\ ~synch[t].queued /\ UNCHANGED <<queue, cv, head, mu_, synch, data>>
  BY DEF Trans, At, shared
<1>3. Goes(t, "loop") /\ loc'[t].blocked /\ (loc'[t].timed <=> loc[t].timed)
  BY <1>1 DEF Trans, Before, Goes, Alone, LocFields
<1> QED
  BY ONLY <1>1, <1>2, <1>3, t \in Threads
  DEF Simple, HandsKept, SearchKept, SynchSame, BitsKept, StillWaits, Cond, Goes, Before, Local, Searched,
      Returning, Resting, CvWait, MuWait, InCalls, Releasing, Waking

LEMMA BlockTimeoutSimple ==
  ASSUME MInv, CInv, NEW t \in Threads, BlockTimeout(t) PROVE Simple(t)
<1>1. Before(t)
  BY BeforeStep
<1>2. loc[t].pc = "block" /\ loc[t].timed /\ UNCHANGED <<queue, cv, head, mu_, synch, data>>
  BY DEF BlockTimeout, At, shared
<1>3. Goes(t, "remove") /\ (loc'[t].timed <=> loc[t].timed)
  BY <1>1 DEF BlockTimeout, Goto, Before, Goes, Alone, LocFields
<1> QED
  BY ONLY <1>1, <1>2, <1>3, t \in Threads
  DEF Simple, HandsKept, SearchKept, SynchSame, BitsKept, StillWaits, Cond, Goes, Before, Local, Searched,
      Returning, Resting, CvWait, MuWait, InCalls, Releasing, Waking

LEMMA TryRemoveSimple ==
  ASSUME MInv, CInv, NEW t \in Threads, TryRemove(t) PROVE Simple(t)
<1>1. Before(t)
  BY BeforeStep
<1>2. loc[t].pc \in {"remove", "removing"} /\ UNCHANGED <<queue, cv, head, synch, data>>
  BY DEF TryRemove, pc
<1>3. Goes(t, "unlink") /\ (loc'[t].timed <=> loc[t].timed)
  BY <1>1 DEF TryRemove, Goto, Before, Goes, Alone, LocFields
<1>4. (mu_'.wait <=> mu_.wait) /\ (mu_'.wrwait <=> mu_.wrwait) /\ (mu_'.desig <=> mu_.desig)
  BY <1>1 DEF TryRemove, Before, BitFields
<1> QED
  BY ONLY <1>1, <1>2, <1>3, <1>4, t \in Threads
  DEF Simple, HandsKept, SearchKept, SynchSame, BitsKept, StillWaits, Cond, Goes, Before, Local, Searched,
      Returning, Resting, CvWait, MuWait, InCalls, Releasing, Waking

LEMMA TryRemoveNotSimple ==
  ASSUME MInv, CInv, NEW t \in Threads, TryRemoveNot(t) PROVE Simple(t)
<1>1. Before(t)
  BY BeforeStep
<1>2. loc[t].pc = "remove" /\ UNCHANGED <<queue, cv, head, mu_, synch, data>>
  BY DEF TryRemoveNot, At, shared
<1>3. Goes(t, "removing") /\ (loc'[t].timed <=> loc[t].timed)
  BY <1>1 DEF TryRemoveNot, Goto, Before, Goes, Alone, LocFields
<1> QED
  BY ONLY <1>1, <1>2, <1>3, t \in Threads
  DEF Simple, HandsKept, SearchKept, SynchSame, BitsKept, StillWaits, Cond, Goes, Before, Local, Searched,
      Returning, Resting, CvWait, MuWait, InCalls, Releasing, Waking

LEMMA RemovedSimple ==
  ASSUME MInv, CInv, NEW t \in Threads, Removed(t) PROVE Simple(t)
<1>1. Before(t)
  BY BeforeStep
<1>2. loc[t].pc = "removing" /\ UNCHANGED <<queue, cv, head, mu_, data>>
  BY DEF Removed, At, shared
<1>3. Goes(t, "block")
  BY <1>1 DEF Removed, Before, Goes, Alone, LocFields
<1>4. /\ \A u \in Threads : synch'[u].queued = synch[u].queued /\ synch'[u].how = synch[u].how
      /\ \A u \in Threads \ {t} : synch'[u].cond = synch[u].cond
      /\ synch'[t].cond = None
  BY <1>1 DEF Removed, Before, SynchFields
<1> QED
  BY ONLY <1>1, <1>2, <1>3, <1>4, t \in Threads
  DEF Simple, HandsKept, SearchKept, SynchSame, BitsKept, StillWaits, Cond, Goes, Before, Local, Searched,
      Returning, Resting, CvWait, MuWait, InCalls, Releasing, Waking

LEMMA DecrementSimple ==
  ASSUME MInv, CInv, NEW t \in Threads, Decrement(t) PROVE Simple(t)
<1>1. Before(t)
  BY BeforeStep
<1>2. loc[t].pc \in {"block", "cvblock"} /\ UNCHANGED <<queue, cv, head, mu_, loc, data>>
  BY DEF Decrement, pc, shared
<1>3. /\ \A u \in Threads : /\ synch'[u].queued = synch[u].queued /\ synch'[u].how = synch[u].how
                            /\ synch'[u].cond = synch[u].cond
  BY <1>1 DEF Decrement, Before, SynchFields
<1>4. Goes(t, loc[t].pc)
  BY <1>1, <1>2 DEF Goes, Alone, Before
<1>5. Cond(t)'
  BY ONLY <1>1, <1>2, <1>3, t \in Threads DEF Before, Cond
<1> QED
  BY ONLY <1>1, <1>2, <1>3, <1>4, <1>5, t \in Threads
  DEF Simple, HandsKept, SearchKept, SynchSame, BitsKept, StillWaits, Goes, Before, Local, Searched,
      Returning, Resting, CvWait, MuWait, InCalls, Releasing, Waking

LEMMA LoopIncrementSimple ==
  ASSUME MInv, CInv, NEW t \in Threads, LoopIncrement(t) PROVE Simple(t)
<1>1. Before(t)
  BY BeforeStep
<1>2. loc[t].pc = "loop" /\ UNCHANGED <<queue, cv, head, synch, data>>
  BY DEF LoopIncrement, At
<1>3. Goes(t, "increment") /\ (loc'[t].timed <=> loc[t].timed)
  BY <1>1 DEF LoopIncrement, Goto, Before, Goes, Alone, LocFields
<1>4. (mu_'.wait <=> mu_.wait) /\ (mu_'.wrwait <=> mu_.wrwait) /\ (mu_'.desig => mu_.desig /\ ~loc[t].blocked)
  BY <1>1 DEF LoopIncrement, Before, BitFields
<1> QED
  BY ONLY <1>1, <1>2, <1>3, <1>4, t \in Threads
  DEF Simple, HandsKept, SearchKept, SynchSame, BitsKept, StillWaits, Cond, Goes, Before, Local, Searched,
      Returning, Resting, CvWait, MuWait, InCalls, Releasing, Waking

LEMMA LoopQueueSimple ==
  ASSUME MInv, CInv, NEW t \in Threads, LoopQueue(t) PROVE Simple(t)
<1>1. Before(t)
  BY BeforeStep
<1>2. loc[t].pc = "loop" /\ mu_.wait /\ UNCHANGED <<queue, cv, head, synch, data>>
  BY DEF LoopQueue, At
<1>3. Goes(t, "enqueue") /\ (loc'[t].timed <=> loc[t].timed)
  BY <1>1 DEF LoopQueue, Goto, Before, Goes, Alone, LocFields
<1>4. (mu_'.wait <=> mu_.wait) /\ (mu_'.wrwait <=> mu_.wrwait) /\ (mu_'.desig => mu_.desig /\ ~loc[t].blocked)
  BY <1>1, <1>2 DEF LoopQueue, Before, BitFields
<1> QED
  BY ONLY <1>1, <1>2, <1>3, <1>4, t \in Threads
  DEF Simple, HandsKept, SearchKept, SynchSame, BitsKept, StillWaits, Cond, Goes, Before, Local, Searched,
      Returning, Resting, CvWait, MuWait, InCalls, Releasing, Waking

LEMMA FerSpinSimple ==
  ASSUME MInv, CInv, NEW t \in Threads, FerSpin(t) PROVE Simple(t)
<1>1. Before(t)
  BY BeforeStep
<1>2. loc[t].pc = "fer" /\ loc[t].fer # <<>> /\ UNCHANGED <<queue, cv, head, synch, data>>
  BY DEF FerSpin, Fers, At
<1>3. Goes(t, "ferqueue") /\ (loc'[t].timed <=> loc[t].timed)
  BY <1>1 DEF FerSpin, Goto, Before, Goes, Alone, LocFields
<1>4. (mu_'.wait <=> mu_.wait) /\ (mu_'.wrwait <=> mu_.wrwait) /\ (mu_'.desig <=> mu_.desig)
  BY <1>1 DEF FerSpin, Before, BitFields
<1> QED
  BY ONLY <1>1, <1>2, <1>3, <1>4, t \in Threads
  DEF Simple, HandsKept, SearchKept, SynchSame, BitsKept, StillWaits, Cond, Goes, Before, Local, Searched,
      Returning, Resting, CvWait, MuWait, InCalls, Releasing, Waking

LEMMA UnlockSpinSimple ==
  ASSUME MInv, CInv, NEW t \in Threads, UnlockSpin(t) PROVE Simple(t)
<1>1. Before(t)
  BY BeforeStep
<1>2. loc[t].pc = "us" /\ UNCHANGED <<queue, cv, head, synch, data>>
  BY DEF UnlockSpin, At
<1>3. \E p \in {"list", "nolist"} : Goes(t, p) /\ (loc'[t].timed <=> loc[t].timed) /\ loc'[t].mode = loc[t].mode
  BY <1>1 DEF UnlockSpin, Before, Goes, Alone, LocFields
<1>4. (mu_'.wait <=> mu_.wait) /\ (mu_'.wrwait <=> mu_.wrwait) /\ (mu_'.desig <=> mu_.desig)
  BY <1>1 DEF UnlockSpin, Before, BitFields
<1> QED
  BY ONLY <1>1, <1>2, <1>3, <1>4, t \in Threads
  DEF Simple, HandsKept, SearchKept, SynchSame, BitsKept, StillWaits, Cond, Goes, Before, Local, Searched,
      Returning, Resting, CvWait, MuWait, InCalls, Releasing, Waking

\* A thread that is at the beginning of an operation has nothing in hand.
LEMMA AtRun ==
  ASSUME NEW t \in Threads, Before(t), loc[t].pc \in {"run", "us", "release", "increment", "loop", "enqueue"}
  PROVE  /\ loc[t].fer = <<>> /\ loc[t].wakes = <<>>
         /\ ~CvWait(t) /\ ~MuWait(t) /\ ~Resting(t)
         /\ ~synch[t].queued /\ ~InQ(t)
<1>1. ~CvWait(t) /\ ~MuWait(t) /\ ~Resting(t)
  BY DEF CvWait, MuWait, Resting, Waking
<1>2. loc[t].fer = <<>> /\ loc[t].wakes = <<>>
  BY DEF Before, Local, Waking
<1> QED
  BY <1>1, <1>2, NotWaiting

LEMMA WriteSimple ==
  ASSUME MInv, CInv, NEW t \in Threads, Write(t) PROVE Simple(t)
<1> USE MutexAssumption DEF W, R
<1>1. Before(t)
  BY BeforeStep
<1>2. loc[t].pc = "run" /\ Starts(t, {"Set", "Clear"}) /\ Pop(t) /\ UNCHANGED <<queue, cv, head, mu_, synch>>
  BY DEF Write, Starts, At, shared
<1>3. loc[t].held = W
  <2>1. PICK after \in {None, W, R} : Uses(Head(prog[t]), loc[t].held, after)
    BY <1>2, StartIsLegal
  <2>2. Head(prog[t]) \in {"Set", "Clear"}
    BY <1>2 DEF Starts
  <2> QED
    BY <2>1, <2>2 DEF Uses, Acquisitions
<1>4. Begins(t, "run", loc[t].held, "none")
  <2> DEFINE l == [Idle EXCEPT !.held = loc[t].held]
  <2>1. l.pc = "run" /\ l.held = loc[t].held /\ l.op = "none" /\ l.fer = <<>> /\ l.wakes = <<>>
        /\ l.oldh = None /\ l.w = None /\ l.pw = None
    BY DEF Idle
  <2>2. loc' = [loc EXCEPT ![t] = l]
    BY DEF Write
  <2> HIDE DEF l
  <2> QED
    BY <1>1, <2>1, <2>2 DEF Before, Begins, Alone
<1>5. ~Returning(t)
  BY <1>2 DEF Returning
<1>6. loc[t].fer = <<>> /\ loc[t].wakes = <<>> /\ ~Resting(t) /\ ~synch[t].queued /\ ~InQ(t)
  BY <1>1, <1>2, AtRun
<1> QED
  BY ONLY <1>2, <1>3, <1>4, <1>5, <1>6, t \in Threads, MutexAssumption
  DEF Simple, HandsKept, SearchKept, SynchSame, BitsKept, StillWaits, Cond, Begins, Releasing, Waking, W, Sure

LEMMA SignalledSimple ==
  ASSUME MInv, CInv, NEW t \in Threads, Signalled(t) PROVE Simple(t)
<1>1. Before(t)
  BY BeforeStep
<1>2. loc[t].pc = "fer" /\ loc[t].fer = <<>> /\ UNCHANGED <<queue, cv, head, mu_, synch, data>>
  BY DEF Signalled, At, shared
<1>3. Begins(t, "run", loc[t].held, "none")
  <2> DEFINE l == [Idle EXCEPT !.held = loc[t].held]
  <2>1. l.pc = "run" /\ l.held = loc[t].held /\ l.op = "none" /\ l.fer = <<>> /\ l.wakes = <<>>
        /\ l.oldh = None /\ l.w = None /\ l.pw = None
    BY DEF Idle
  <2>2. loc' = [loc EXCEPT ![t] = l]
    BY DEF Signalled
  <2> HIDE DEF l
  <2> QED
    BY <1>1, <2>1, <2>2 DEF Before, Begins, Alone
<1>4. ~Returning(t) /\ ~Resting(t) /\ ~CvWait(t) /\ ~MuWait(t) /\ loc[t].wakes = <<>>
  BY <1>1, <1>2 DEF Returning, Resting, CvWait, MuWait, Waking, Before, Local
<1> QED
  BY ONLY <1>2, <1>3, <1>4, t \in Threads
  DEF Simple, HandsKept, SearchKept, SynchSame, BitsKept, StillWaits, Cond, Begins, Releasing, Waking, Sure

LEMMA TryLockSimple ==
  ASSUME MInv, CInv, NEW t \in Threads, TryLock(t) PROVE Simple(t)
<1>1. Before(t)
  BY BeforeStep
<1> DEFINE how == Tries(t)
<1>2. loc[t].pc = "run" /\ UNCHANGED <<queue, cv, head, synch, data>> /\ mu_' = Acquired(how, FALSE)
      /\ loc' = [loc EXCEPT ![t] = [Idle EXCEPT !.held = how]]
  BY DEF TryLock, Starts, At
<1> HIDE DEF how
<1>3. Begins(t, "run", how, "none")
  <2> DEFINE l == [Idle EXCEPT !.held = how]
  <2>1. l.pc = "run" /\ l.held = how /\ l.op = "none" /\ l.fer = <<>> /\ l.wakes = <<>>
        /\ l.oldh = None /\ l.w = None /\ l.pw = None
    BY DEF Idle
  <2>2. loc' = [loc EXCEPT ![t] = l]
    BY <1>2
  <2> HIDE DEF l
  <2> QED
    BY <1>1, <2>1, <2>2 DEF Before, Begins, Alone
<1>4. (mu_'.wait <=> mu_.wait) /\ (mu_'.wrwait <=> mu_.wrwait) /\ (mu_'.desig => mu_.desig)
  BY <1>1, <1>2 DEF Acquired, Before, BitFields
<1>5. ~Returning(t)
  BY <1>2 DEF Returning
<1>6. loc[t].fer = <<>> /\ loc[t].wakes = <<>> /\ ~Resting(t) /\ ~synch[t].queued /\ ~InQ(t)
  BY <1>1, <1>2, AtRun
<1> QED
  BY ONLY <1>2, <1>3, <1>4, <1>5, <1>6, t \in Threads
  DEF Simple, HandsKept, SearchKept, SynchSame, BitsKept, StillWaits, Cond, Begins, Releasing, Waking, Sure

LEMMA TryLockFailsSimple ==
  ASSUME MInv, CInv, NEW t \in Threads, TryLockFails(t) PROVE Simple(t)
<1>1. Before(t)
  BY BeforeStep
<1>2. loc[t].pc = "run" /\ UNCHANGED <<queue, cv, head, mu_, synch, loc, data>>
  BY DEF TryLockFails, Starts, At, shared
<1>3. Cond(t)'
  BY ONLY <1>1, <1>2, t \in Threads DEF Before, Cond
<1>4. Alone(t)
  BY <1>1, <1>2 DEF Alone, Before
<1>5. loc[t].fer = <<>> /\ loc[t].wakes = <<>> /\ ~Resting(t) /\ ~synch[t].queued /\ ~InQ(t)
  BY <1>1, <1>2, AtRun
<1> QED
  BY ONLY <1>1, <1>2, <1>3, <1>4, <1>5, t \in Threads
  DEF Simple, HandsKept, SearchKept, SynchSame, BitsKept, StillWaits, Before, Searched, Returning, Releasing, Waking

LEMMA AwaitSimple ==
  ASSUME MInv, CInv, NEW t \in Threads, Await(t) PROVE Simple(t)
<1> USE MutexAssumption DEF W, R
<1>1. Before(t)
  BY BeforeStep
<1>2. loc[t].pc = "run" /\ Head(prog[t]) \in {"Await", "AwaitWithDeadline"} /\ UNCHANGED <<queue, cv, head, mu_, data>>
  BY DEF Await, Starts, At, shared
<1>3. loc[t].held # None
  <2>1. Starts(t, {"Await", "AwaitWithDeadline"}) /\ Pop(t)
    BY DEF Await
  <2>2. PICK after \in {None, W, R} : Uses(Head(prog[t]), loc[t].held, after)
    BY <2>1, StartIsLegal
  <2> QED
    BY <1>2, <2>2 DEF Uses, Acquisitions
<1> DEFINE l == [Idle EXCEPT !.held = loc[t].held, !.op = Head(prog[t])]
           m == [l EXCEPT !.pc = "us", !.mode = "requeue", !.blocked = TRUE, !.timed = Head(prog[t]) # "Await"]
<1>4. l.pc = "run" /\ l.held = loc[t].held /\ l.op = Head(prog[t]) /\ l.fer = <<>> /\ l.wakes = <<>>
      /\ l.oldh = None /\ l.w = None /\ l.pw = None /\ l.res = TRUE /\ DOMAIN l = LocFields
  BY DEF Idle, LocFields
<1>5. m.pc = "us" /\ m.held = loc[t].held /\ m.op = Head(prog[t]) /\ m.fer = <<>> /\ m.wakes = <<>>
      /\ m.oldh = None /\ m.w = None /\ m.pw = None /\ m.mode = "requeue" /\ (m.timed <=> Head(prog[t]) # "Await")
  BY <1>4 DEF LocFields
<1>6. \/ data /\ loc' = [loc EXCEPT ![t] = l] /\ UNCHANGED synch
      \/ loc' = [loc EXCEPT ![t] = m] /\ synch' = [synch EXCEPT ![t].how = loc[t].held, ![t].cond = "data"]
  BY DEF Await
<1> HIDE DEF l, m
<1>7. ~Returning(t)
  BY <1>2 DEF Returning
<1>8. loc[t].fer = <<>> /\ loc[t].wakes = <<>> /\ ~Resting(t) /\ ~synch[t].queued /\ ~InQ(t)
  BY <1>1, <1>2, AtRun
<1>9. CASE data /\ loc' = [loc EXCEPT ![t] = l] /\ UNCHANGED synch
  <2>1. Begins(t, "run", loc[t].held, Head(prog[t])) /\ loc'[t].res
    BY <1>1, <1>4, <1>9 DEF Before, Begins, Alone
  <2> QED
    BY ONLY <1>2, <1>3, <1>7, <1>8, <1>9, <2>1, t \in Threads, MutexAssumption
    DEF Simple, HandsKept, SearchKept, SynchSame, BitsKept, StillWaits, Cond, Begins, Releasing, Waking, Sure
<1>10. CASE loc' = [loc EXCEPT ![t] = m] /\ synch' = [synch EXCEPT ![t].how = loc[t].held, ![t].cond = "data"]
  <2>1. Begins(t, "us", loc[t].held, Head(prog[t])) /\ loc'[t].mode = "requeue"
        /\ (loc'[t].timed <=> Head(prog[t]) # "Await")
    BY <1>1, <1>5, <1>10 DEF Before, Begins, Alone
  <2>2. /\ \A u \in Threads : synch'[u].queued = synch[u].queued
        /\ \A u \in Threads \ {t} : synch'[u].cond = synch[u].cond /\ synch'[u].how = synch[u].how
        /\ synch'[t].cond = "data"
    BY <1>1, <1>10 DEF Before, SynchFields
  <2> QED
    BY ONLY <1>2, <1>3, <1>7, <1>8, <2>1, <2>2, t \in Threads, MutexAssumption
    DEF Simple, HandsKept, SearchKept, SynchSame, BitsKept, StillWaits, Cond, Begins, Releasing, Waking, Sure
<1> QED
  BY <1>6, <1>9, <1>10

\* An operation that waits for no condition begins, goes on or ends.
LEMMA BeginsSimple ==
  ASSUME NEW t \in Threads, Before(t), loc[t].pc \in {"run", "us", "release"},
         NEW p \in {"run", "us", "release"}, NEW h, Begins(t, p, h, "none"),
         UNCHANGED <<queue, cv, head, data>>,
         \A u \in Threads : synch'[u].queued <=> synch[u].queued,
         \A u \in Threads \ {t} : synch'[u].how = synch[u].how /\ synch'[u].cond = synch[u].cond,
         mu_'.wait <=> mu_.wait, mu_'.wrwait => mu_.wrwait, mu_'.desig => mu_.desig
  PROVE  Simple(t)
<1>1. loc[t].fer = <<>> /\ loc[t].wakes = <<>> /\ ~Resting(t) /\ ~synch[t].queued /\ ~InQ(t)
  BY AtRun
<1>2. ~Returning(t)
  BY DEF Returning
<1> QED
  BY <1>1, <1>2
  DEF Simple, HandsKept, SearchKept, SynchSame, BitsKept, StillWaits, Cond, Begins, Releasing, Waking, Sure

LEMMA UnlockSimple ==
  ASSUME MInv, CInv, NEW t \in Threads, Unlock(t) PROVE Simple(t)
<1> DEFINE l == [Idle EXCEPT !.held = loc[t].held]
           fast == [l EXCEPT !.pc = "release", !.v = mu_]
           slow == [l EXCEPT !.pc = "us"]
<1>1. Before(t)
  BY BeforeStep
<1>2. loc[t].pc = "run" /\ UNCHANGED <<queue, cv, head, synch, data>>
  BY DEF Unlock, Starts, At
<1>3. /\ \/ loc' = [loc EXCEPT ![t] = fast] \/ loc' = [loc EXCEPT ![t] = Idle] \/ loc' = [loc EXCEPT ![t] = slow]
      /\ mu_' = mu_ \/ mu_' = OneReaderLess
  <2>1. CASE l.held = W /\ FastWriter
    BY <2>1 DEF Unlock
  <2>2. CASE l.held = R /\ FastReader
    <3>1. ~(l.held = W /\ FastWriter)
      BY <2>2 DEF W, R
    <3> QED
      BY <2>2, <3>1 DEF Unlock
  <2>3. CASE ~(l.held = W /\ FastWriter) /\ ~(l.held = R /\ FastReader)
    BY <2>3 DEF Unlock
  <2> QED
    BY <2>1, <2>2, <2>3
<1>4. DOMAIN l = LocFields /\ l.op = "none" /\ l.fer = <<>> /\ l.wakes = <<>> /\ l.oldh = None /\ l.w = None /\ l.pw = None
      /\ l.held = loc[t].held
  BY DEF Idle, LocFields
<1> HIDE DEF l
<1>5. fast.pc = "release" /\ fast.held = loc[t].held /\ fast.op = "none" /\ fast.fer = <<>> /\ fast.wakes = <<>>
      /\ fast.oldh = None /\ fast.w = None /\ fast.pw = None
  BY <1>4 DEF LocFields
<1>6. slow.pc = "us" /\ slow.held = loc[t].held /\ slow.op = "none" /\ slow.fer = <<>> /\ slow.wakes = <<>>
      /\ slow.oldh = None /\ slow.w = None /\ slow.pw = None
  BY <1>4 DEF LocFields
<1> HIDE DEF fast, slow
<1>7. \E p \in {"run", "us", "release"} : \E h : Begins(t, p, h, "none")
  <2>1. CASE loc' = [loc EXCEPT ![t] = fast]
    <3>1. Begins(t, "release", loc[t].held, "none")
      BY <1>1, <1>5, <2>1 DEF Begins, Alone, Before
    <3> QED
      BY <3>1
  <2>2. CASE loc' = [loc EXCEPT ![t] = Idle]
    <3>1. Begins(t, "run", None, "none")
      BY <1>1, <2>2, IdleIs DEF Begins, Alone, Before
    <3> QED
      BY <3>1
  <2>3. CASE loc' = [loc EXCEPT ![t] = slow]
    <3>1. Begins(t, "us", loc[t].held, "none")
      BY <1>1, <1>6, <2>3 DEF Begins, Alone, Before
    <3> QED
      BY <3>1
  <2> QED
    BY <1>3, <2>1, <2>2, <2>3
<1>8. (mu_'.wait <=> mu_.wait) /\ (mu_'.wrwait <=> mu_.wrwait) /\ (mu_'.desig <=> mu_.desig)
  BY <1>1, <1>3 DEF OneReaderLess, Before, BitFields
<1> QED
  BY ONLY <1>1, <1>2, <1>7, <1>8, t \in Threads, BeginsSimple

LEMMA ReleaseSimple ==
  ASSUME MInv, CInv, NEW t \in Threads, Release(t) PROVE Simple(t)
<1> DEFINE slow == [Idle EXCEPT !.held = W, !.pc = "us"]
<1>1. Before(t)
  BY BeforeStep
<1>2. loc[t].pc = "release" /\ UNCHANGED <<queue, cv, head, synch, data>>
  BY DEF Release, At
<1>3. /\ \/ loc' = [loc EXCEPT ![t] = Idle] \/ loc' = [loc EXCEPT ![t] = slow]
      /\ mu_' = mu_ \/ mu_' = [mu_ EXCEPT !.wr = FALSE, !.wrwait = FALSE]
  BY DEF Release
<1>4. slow.pc = "us" /\ slow.held = W /\ slow.op = "none" /\ slow.fer = <<>> /\ slow.wakes = <<>>
      /\ slow.oldh = None /\ slow.w = None /\ slow.pw = None
  BY DEF Idle
<1> HIDE DEF slow
<1>5. \E p \in {"run", "us", "release"} : \E h : Begins(t, p, h, "none")
  <2>1. CASE loc' = [loc EXCEPT ![t] = Idle]
    <3>1. Begins(t, "run", None, "none")
      BY <1>1, <2>1, IdleIs DEF Begins, Alone, Before
    <3> QED
      BY <3>1
  <2>2. CASE loc' = [loc EXCEPT ![t] = slow]
    <3>1. Begins(t, "us", W, "none")
      BY <1>1, <1>4, <2>2 DEF Begins, Alone, Before
    <3> QED
      BY <3>1
  <2> QED
    BY <1>3, <2>1, <2>2
<1>6. (mu_'.wait <=> mu_.wait) /\ (mu_'.wrwait => mu_.wrwait) /\ (mu_'.desig <=> mu_.desig)
  BY <1>1, <1>3 DEF Before, BitFields
<1> QED
  BY ONLY <1>1, <1>2, <1>5, <1>6, t \in Threads, BeginsSimple

LEMMA UnlockFastSimple ==
  ASSUME MInv, CInv, NEW t \in Threads, UnlockFast(t) PROVE Simple(t)
<1>1. Before(t)
  BY BeforeStep
<1>2. loc[t].pc = "us" /\ UNCHANGED <<queue, cv, head, synch, data>> /\ loc' = [loc EXCEPT ![t] = Idle]
      /\ (mu_' = OneReaderLess \/ mu_' = [mu_ EXCEPT !.wr = FALSE, !.wrwait = FALSE])
  BY DEF UnlockFast, At
<1>3. Begins(t, "run", None, "none")
  BY <1>1, <1>2, IdleIs DEF Begins, Alone, Before
<1>4. (mu_'.wait <=> mu_.wait) /\ (mu_'.wrwait => mu_.wrwait) /\ (mu_'.desig <=> mu_.desig)
  BY <1>1, <1>2 DEF OneReaderLess, Before, BitFields
<1> QED
  BY ONLY <1>1, <1>2, <1>3, <1>4, t \in Threads, BeginsSimple

LEMMA WaitSimple ==
  ASSUME MInv, CInv, NEW t \in Threads, Wait(t) PROVE Simple(t)
<1> DEFINE l == [Idle EXCEPT !.held = loc[t].held]
           m == [Idle EXCEPT !.pc = "us", !.held = loc[t].held, !.mode = "cvenqueue",
                             !.timed = (Head(prog[t]) = "WaitWithTimeout")]
<1>1. Before(t)
  BY BeforeStep
<1>2. loc[t].pc = "run" /\ UNCHANGED <<queue, cv, head, mu_, data>>
  BY DEF Wait, Starts, At, shared
<1>3. \/ loc' = [loc EXCEPT ![t] = l] /\ UNCHANGED synch
      \/ loc' = [loc EXCEPT ![t] = m] /\ synch' = [synch EXCEPT ![t].how = loc[t].held, ![t].cond = None]
  BY DEF Wait
<1>4. l.pc = "run" /\ l.held = loc[t].held /\ l.op = "none" /\ l.fer = <<>> /\ l.wakes = <<>>
      /\ l.oldh = None /\ l.w = None /\ l.pw = None
  BY DEF Idle
<1>5. m.pc = "us" /\ m.held = loc[t].held /\ m.op = "none" /\ m.fer = <<>> /\ m.wakes = <<>>
      /\ m.oldh = None /\ m.w = None /\ m.pw = None
  BY DEF Idle
<1> HIDE DEF l, m
<1>6. \E p \in {"run", "us", "release"} : \E h : Begins(t, p, h, "none")
  <2>1. CASE loc' = [loc EXCEPT ![t] = l]
    <3>1. Begins(t, "run", loc[t].held, "none")
      BY <1>1, <1>4, <2>1 DEF Begins, Alone, Before
    <3> QED
      BY <3>1
  <2>2. CASE loc' = [loc EXCEPT ![t] = m]
    <3>1. Begins(t, "us", loc[t].held, "none")
      BY <1>1, <1>5, <2>2 DEF Begins, Alone, Before
    <3> QED
      BY <3>1
  <2> QED
    BY <1>3, <2>1, <2>2
<1>7. /\ \A u \in Threads : synch'[u].queued = synch[u].queued
      /\ \A u \in Threads \ {t} : synch'[u].cond = synch[u].cond /\ synch'[u].how = synch[u].how
  BY <1>1, <1>3 DEF Before, SynchFields
<1> QED
  BY ONLY <1>1, <1>2, <1>6, <1>7, t \in Threads, BeginsSimple

\* Who has the lock returns, or gives it up to queue itself.
LEMMA GotLockGoes ==
  ASSUME NEW t \in Threads, DOMAIN loc = Threads, NEW how, NEW l, DOMAIN l = LocFields,
         l.fer = <<>>, l.wakes = <<>>, l.oldh = None, l.w = None, l.pw = None, GotLock(t, how, l)
  PROVE  \/ /\ Eval(synch'[t].cond) /\ Begins(t, "run", how, l.op)
            /\ loc'[t].res <=> synch'[t].cond # None \/ l.op = "none" \/ data
         \/ /\ Begins(t, "us", how, l.op) /\ loc'[t].mode = "requeue" /\ loc'[t].timed = l.timed
<1> DEFINE r == [Idle EXCEPT !.held = how, !.op = l.op,
                             !.res = synch'[t].cond # None \/ l.op = "none" \/ data]
           b == [l EXCEPT !.pc = "us", !.held = how, !.mode = "requeue"]
<1>1. r.pc = "run" /\ r.held = how /\ r.op = l.op /\ r.fer = <<>> /\ r.wakes = <<>>
      /\ r.oldh = None /\ r.w = None /\ r.pw = None
      /\ (r.res <=> synch'[t].cond # None \/ l.op = "none" \/ data)
  BY DEF Idle
<1>2. b.pc = "us" /\ b.held = how /\ b.mode = "requeue" /\ b.op = l.op /\ b.fer = <<>> /\ b.wakes = <<>>
      /\ b.oldh = None /\ b.w = None /\ b.pw = None /\ b.timed = l.timed
  BY DEF LocFields
<1>3. \/ Eval(synch'[t].cond) /\ loc' = [loc EXCEPT ![t] = r]
      \/ loc' = [loc EXCEPT ![t] = b]
  BY DEF GotLock
<1> HIDE DEF r, b
<1>4. ASSUME loc' = [loc EXCEPT ![t] = r]
      PROVE  Begins(t, "run", how, l.op) /\ (loc'[t].res <=> synch'[t].cond # None \/ l.op = "none" \/ data)
  BY <1>1, <1>4 DEF Begins, Alone
<1>5. ASSUME loc' = [loc EXCEPT ![t] = b]
      PROVE  Begins(t, "us", how, l.op) /\ loc'[t].mode = "requeue" /\ loc'[t].timed = l.timed
  BY <1>2, <1>5 DEF Begins, Alone
<1> QED
  BY <1>3, <1>4, <1>5

\* What GotLock does to a thread that was on no list.
LEMMA GotLockSimple ==
  ASSUME NEW t \in Threads, Before(t), loc[t].pc \in {"run", "loop", "increment"},
         NEW how \in {W, R}, NEW l, DOMAIN l = LocFields,
         l.fer = <<>>, l.wakes = <<>>, l.oldh = None, l.w = None, l.pw = None, GotLock(t, how, l),
         l.op \in Sure => ~l.timed /\ synch'[t].cond = "data",
         UNCHANGED <<queue, cv, data>>, head'.unlocking <=> head.unlocking,
         \A u \in Threads : synch'[u].queued <=> synch[u].queued,
         \A u \in Threads \ {t} : synch'[u].how = synch[u].how /\ synch'[u].cond = synch[u].cond,
         mu_'.wait <=> mu_.wait, mu_'.wrwait => mu_.wrwait, mu_'.desig => mu_.desig /\ ~Returning(t)
  PROVE  Simple(t)
<1> USE MutexAssumption DEF W, R
<1>1. loc[t].fer = <<>> /\ loc[t].wakes = <<>> /\ ~Resting(t) /\ ~synch[t].queued /\ ~InQ(t)
      /\ loc[t].pc \in {"run", "loop", "increment"}
  BY AtRun
<1>2. how # None /\ "data" # None /\ "none" \notin Sure
  BY DEF Sure
<1>3. CASE /\ Eval(synch'[t].cond) /\ Begins(t, "run", how, l.op)
           /\ loc'[t].res <=> synch'[t].cond # None \/ l.op = "none" \/ data
  <2>1. Cond(t)'
    BY <1>2, <1>3 DEF Cond, Begins, Eval
  <2> QED
    BY ONLY <1>1, <1>3, <2>1, t \in Threads, UNCHANGED <<queue, cv, data>>, head'.unlocking <=> head.unlocking,
         \A u \in Threads : synch'[u].queued <=> synch[u].queued,
         \A u \in Threads \ {t} : synch'[u].how = synch[u].how /\ synch'[u].cond = synch[u].cond,
         mu_'.wait <=> mu_.wait, mu_'.wrwait => mu_.wrwait, mu_'.desig => mu_.desig /\ ~Returning(t)
    DEF Simple, HandsKept, SearchKept, SynchSame, BitsKept, StillWaits, Begins, Releasing, Waking
<1>4. CASE Begins(t, "us", how, l.op) /\ loc'[t].mode = "requeue" /\ loc'[t].timed = l.timed
  <2>1. Cond(t)'
    BY <1>2, <1>4 DEF Cond, Begins, Releasing
  <2> QED
    BY ONLY <1>1, <1>4, <2>1, t \in Threads, UNCHANGED <<queue, cv, data>>, head'.unlocking <=> head.unlocking,
         \A u \in Threads : synch'[u].queued <=> synch[u].queued,
         \A u \in Threads \ {t} : synch'[u].how = synch[u].how /\ synch'[u].cond = synch[u].cond,
         mu_'.wait <=> mu_.wait, mu_'.wrwait => mu_.wrwait, mu_'.desig => mu_.desig /\ ~Returning(t)
    DEF Simple, HandsKept, SearchKept, SynchSame, BitsKept, StillWaits, Begins, Releasing, Waking
<1> QED
  BY <1>3, <1>4, GotLockGoes DEF Before

LEMMA LoopAcquireSimple ==
  ASSUME MInv, CInv, NEW t \in Threads, LoopAcquire(t) PROVE Simple(t)
<1>1. Before(t)
  BY BeforeStep
<1>2. loc[t].pc = "loop" /\ mu_' = Acquired(synch[t].how, loc[t].blocked) /\ GotLock(t, synch[t].how, loc[t])
      /\ UNCHANGED <<queue, head, synch, data, cv>>
  BY DEF LoopAcquire, At
<1>3. (mu_'.wait <=> mu_.wait) /\ (mu_'.wrwait <=> mu_.wrwait) /\ (mu_'.desig => mu_.desig /\ ~loc[t].blocked)
  BY <1>1, <1>2 DEF Acquired, Before, BitFields
<1>4. loc[t].oldh = None /\ loc[t].w = None /\ loc[t].pw = None /\ (loc[t].op \in Sure => ~loc[t].timed /\ synch[t].cond = "data")
  BY <1>1, <1>2 DEF Before, Searched, Cond, Releasing
<1>5. loc[t].fer = <<>> /\ loc[t].wakes = <<>> /\ DOMAIN loc[t] = LocFields /\ synch[t].how \in {W, R}
  BY <1>1, <1>2, AtRun DEF Before
<1>6. mu_'.desig => ~Returning(t)
  BY <1>3 DEF Returning
<1> QED
  BY ONLY <1>1, <1>2, <1>3, <1>4, <1>5, <1>6, t \in Threads, GotLockSimple

LEMMA IncrementSimple ==
  ASSUME MInv, CInv, NEW t \in Threads, Increment(t) PROVE Simple(t)
<1>1. Before(t)
  BY BeforeStep
<1>2. loc[t].pc = "increment" /\ mu_' = [mu_ EXCEPT !.spin = FALSE, !.rdr = TRUE] /\ GotLock(t, R, loc[t])
      /\ head' = [head EXCEPT !.readers = @ + 1] /\ UNCHANGED <<queue, synch, data, cv>>
  BY DEF Increment, At
<1>3. (mu_'.wait <=> mu_.wait) /\ (mu_'.wrwait <=> mu_.wrwait) /\ (mu_'.desig <=> mu_.desig)
      /\ (head'.unlocking <=> head.unlocking)
  BY <1>1, <1>2 DEF Before, BitFields
<1>4. loc[t].oldh = None /\ loc[t].w = None /\ loc[t].pw = None /\ (loc[t].op \in Sure => ~loc[t].timed /\ synch[t].cond = "data")
  BY <1>1, <1>2 DEF Before, Searched, Cond, Releasing
<1>5. loc[t].fer = <<>> /\ loc[t].wakes = <<>> /\ DOMAIN loc[t] = LocFields /\ R \in {W, R}
  BY <1>1, <1>2, AtRun DEF Before
<1>6. ~Returning(t)
  BY <1>2 DEF Returning
<1> QED
  BY ONLY <1>1, <1>2, <1>3, <1>4, <1>5, <1>6, t \in Threads, GotLockSimple

LEMMA LockAnySimple ==
  ASSUME MInv, CInv, NEW t \in Threads, LockAny(t) PROVE Simple(t)
<1> USE MutexAssumption DEF W, R
<1> DEFINE a == Acquisitions[Head(prog[t])]
           how == a.how
           l == [Idle EXCEPT !.timed = a.timed,
                             !.op = IF a.when THEN Head(prog[t]) ELSE "none"]
           b == [l EXCEPT !.pc = "loop"]
<1>1. Before(t)
  BY BeforeStep
<1>2. loc[t].pc = "run" /\ Head(prog[t]) \in DOMAIN Acquisitions /\ UNCHANGED <<queue, head, data, cv>>
      /\ synch' = [synch EXCEPT ![t].how = how, ![t].cond = IF a.when THEN "data" ELSE None]
      /\ \/ CanAcquire(how) /\ mu_' = Acquired(how, FALSE) /\ GotLock(t, how, l)
         \/ loc' = [loc EXCEPT ![t] = b] /\ UNCHANGED mu_
  BY DEF LockAny, Starts, At
<1>3. /\ DOMAIN l = LocFields /\ l.fer = <<>> /\ l.wakes = <<>> /\ l.oldh = None /\ l.w = None /\ l.pw = None
      /\ l.op = (IF a.when THEN Head(prog[t]) ELSE "none") /\ (l.timed <=> a.timed) /\ l.held = None
  BY DEF Idle, LocFields
<1>4. how \in {W, R} /\ (l.op \in Sure => a.when /\ ~a.timed)
  <2>1. l.op \in Sure => a.when /\ l.op = Head(prog[t])
    BY <1>3 DEF Sure
  <2> HIDE DEF l
  <2> QED
    BY <1>2, <2>1 DEF Acquisitions, Sure
<1>5. /\ \A u \in Threads : synch'[u].queued = synch[u].queued
      /\ \A u \in Threads \ {t} : synch'[u].cond = synch[u].cond /\ synch'[u].how = synch[u].how
      /\ synch'[t].cond = IF a.when THEN "data" ELSE None
  BY <1>1, <1>2 DEF Before, SynchFields
<1>6. ~Returning(t)
  BY <1>2 DEF Returning
<1>7. l.op \in Sure => ~l.timed /\ synch'[t].cond = "data"
  BY <1>3, <1>4, <1>5
<1>8. b.pc = "loop" /\ b.held = None /\ b.op = l.op /\ b.fer = <<>> /\ b.wakes = <<>> /\ b.oldh = None /\ b.w = None
      /\ b.pw = None /\ (b.timed <=> l.timed)
  <2> HIDE DEF l
  <2> QED
    BY <1>3 DEF LocFields
<1> HIDE DEF how, l, b
<1>9. CASE mu_' = Acquired(how, FALSE) /\ GotLock(t, how, l)
  <2>1. (mu_'.wait <=> mu_.wait) /\ (mu_'.wrwait <=> mu_.wrwait) /\ (mu_'.desig => mu_.desig)
    BY <1>1, <1>9 DEF Acquired, Before, BitFields
  <2> QED
    <3>1. loc[t].pc \in {"run", "loop", "increment"} /\ how \in {W, R} /\ UNCHANGED <<queue, cv, data>>
          /\ (head'.unlocking <=> head.unlocking) /\ l.fer = <<>> /\ l.wakes = <<>>
          /\ l.oldh = None /\ l.w = None /\ l.pw = None
      BY ONLY <1>2, <1>3, <1>4
    <3>2. \A u \in Threads : synch'[u].queued <=> synch[u].queued
      BY ONLY <1>5
    <3>3. \A u \in Threads \ {t} : synch'[u].how = synch[u].how /\ synch'[u].cond = synch[u].cond
      BY ONLY <1>5
    <3> QED
      BY ONLY <1>1, <1>3, <1>6, <1>7, <1>9, <2>1, <3>1, <3>2, <3>3, t \in Threads, GotLockSimple
<1>10. CASE loc' = [loc EXCEPT ![t] = b] /\ UNCHANGED mu_
  <2>1. Begins(t, "loop", None, l.op) /\ (loc'[t].timed <=> l.timed)
    BY <1>1, <1>8, <1>10 DEF Begins, Alone, Before
  <2>2. loc[t].fer = <<>> /\ loc[t].wakes = <<>> /\ ~Resting(t) /\ ~synch[t].queued /\ ~InQ(t)
    BY <1>1, <1>2, AtRun
  <2> QED
    BY ONLY <1>2, <1>5, <1>6, <1>7, <1>10, <2>1, <2>2, t \in Threads
    DEF Simple, HandsKept, SearchKept, SynchSame, BitsKept, StillWaits, Cond, Begins, InCalls, Releasing, Waking
<1> QED
  BY <1>2, <1>9, <1>10

-----------------------------------------------------------------------------
(* The steps that change the lists.                                        *)

\* A thread is in one place, or nowhere.
LEMMA OnQueue ==
  ASSUME NEW x \in Threads, InQ(x)', ~InC(x)', \A u \in Threads : ~InF(u, x)' /\ ~InH(u, x)',
         synch'[x].queued, CvWait(x)' \/ MuWait(x)'
  PROVE  Apart(x)' /\ Placed(x)'
BY DEF Apart, Placed

LEMMA OnCondVar ==
  ASSUME NEW x \in Threads, ~InQ(x)', InC(x)', \A u \in Threads : ~InF(u, x)' /\ ~InH(u, x)',
         synch'[x].queued, CvWait(x)'
  PROVE  Apart(x)' /\ Placed(x)'
BY DEF Apart, Placed

LEMMA WithSignaller ==
  ASSUME NEW x \in Threads, NEW t \in Threads, ~InQ(x)', ~InC(x)', InF(t, x)',
         \A u \in Threads : (InF(u, x)' => u = t) /\ ~InH(u, x)',
         synch'[x].queued, CvWait(x)'
  PROVE  Apart(x)' /\ Placed(x)'
BY DEF Apart, Placed

LEMMA InHand ==
  ASSUME NEW x \in Threads, NEW t \in Threads, ~InQ(x)', ~InC(x)', InH(t, x)',
         \A u \in Threads : (InH(u, x)' => u = t) /\ ~InF(u, x)',
         synch'[x].queued, CvWait(x)' \/ MuWait(x)'
  PROVE  Apart(x)' /\ Placed(x)'
BY DEF Apart, Placed

LEMMA Nowhere ==
  ASSUME NEW x \in Threads, ~InQ(x)', ~InC(x)', \A u \in Threads : ~InF(u, x)' /\ ~InH(u, x)',
         ~synch'[x].queued
  PROVE  Apart(x)' /\ Placed(x)'
BY DEF Apart, Placed

\* The threads of S go to other places.
LEMMA Regroup ==
  ASSUME Lists, NEW t \in Threads, Alone(t), Local(t)',
         queue' \in Seq(Threads), IsInjective(queue'), cv' \in Seq(Threads), IsInjective(cv'), NEW S,
         \A x \in Threads \ S :
           /\ (InQ(x)' <=> InQ(x)) /\ (InC(x)' <=> InC(x))
           /\ (InF(t, x)' <=> InF(t, x)) /\ (InH(t, x)' <=> InH(t, x))
           /\ (synch'[x].queued <=> synch[x].queued) /\ StillWaits(x),
         \A x \in Threads \cap S : Apart(x)' /\ Placed(x)'
  PROVE  Lists'
<1>1. ASSUME NEW x \in Threads \ S PROVE Apart(x)' /\ Placed(x)'
  <2>1. \A u \in Threads : (InF(u, x)' <=> InF(u, x)) /\ (InH(u, x)' <=> InH(u, x))
    BY OthersStay
  <2>2. Apart(x) /\ Placed(x)
    BY DEF Lists
  <2> QED
    BY <2>1, <2>2, StaysPlaced
<1>2. \A x \in Threads : Local(x)'
  BY OthersStay DEF Lists
<1> QED
  BY <1>1, <1>2 DEF Lists

\* Thread x goes to the queue of the mutex.
LEMMA ListsEnqueued ==
  ASSUME Lists, NEW t \in Threads, Alone(t), Local(t)', UNCHANGED cv,
         NEW x \in Threads, ~InC(x), \A u \in Threads : ~InF(u, x)' /\ ~InH(u, x)',
         queue' \in Seq(Threads), IsInjective(queue'), ToSet(queue') = ToSet(queue) \cup {x},
         \A y \in Threads \ {x} : (InF(t, y)' <=> InF(t, y)) /\ (InH(t, y)' <=> InH(t, y))
                                  /\ (synch'[y].queued <=> synch[y].queued) /\ StillWaits(y),
         synch'[x].queued, CvWait(x)' \/ MuWait(x)'
  PROVE  Lists'
<1>1. \A y \in Threads : (InC(y)' <=> InC(y)) /\ (InQ(y)' <=> InQ(y) \/ y = x)
  BY DEF InC, InQ
<1>2. Apart(x)' /\ Placed(x)'
  BY <1>1, OnQueue
<1>3. cv' \in Seq(Threads) /\ IsInjective(cv')
  BY DEF Lists
<1> DEFINE S == {x}
<1>4. \A y \in Threads \ S :
           /\ (InQ(y)' <=> InQ(y)) /\ (InC(y)' <=> InC(y))
           /\ (InF(t, y)' <=> InF(t, y)) /\ (InH(t, y)' <=> InH(t, y))
           /\ (synch'[y].queued <=> synch[y].queued) /\ StillWaits(y)
  BY <1>1
<1>5. \A y \in Threads \cap S : Apart(y)' /\ Placed(y)'
  BY <1>2
<1> HIDE DEF S
<1> QED
  BY <1>3, <1>4, <1>5, Regroup

\* A thread that is awake and moves stays awake if the bit stays set; nobody else is
\* put on a list.
OnList(x) == InQ(x) \/ InC(x) \/ \E u \in Threads : InF(u, x)

LEMMA DesigMoves ==
  ASSUME Desig, NEW t \in Threads, Alone(t),
         mu_'.desig => mu_.desig /\ (Awake(t) => Awake(t)'),
         \A x \in Threads \ {t} : OnList(x)' => OnList(x)
  PROVE  Desig'
<1> SUFFICES ASSUME mu_'.desig PROVE \E u \in Threads : Awake(u)'
  BY DEF Desig
<1>1. PICK u \in Threads : Awake(u)
  BY DEF Desig
<1>2. ASSUME u # t PROVE Awake(u)'
  <2>1. Returning(u) \/ (Resting(u) /\ ~OnList(u))
    BY <1>1, AwakeIs DEF OnList
  <2>2. Returning(u)' \/ (Resting(u)' /\ ~OnList(u)')
    BY <1>2, <2>1, OthersStay
  <2> QED
    BY <2>2 DEF Awake, Returning, Resting, OnList
<1> QED
  BY <1>1, <1>2

\* Nobody searches any more.
LEMMA SearchesNone ==
  ASSUME Searches, NEW t \in Threads, Alone(t), \A u \in Threads \ {t} : loc[u].oldh = None,
         loc'[t].oldh = None, loc'[t].w = None, loc'[t].pw = None
  PROVE  Searches'
<1>1. ASSUME NEW u \in Threads PROVE Searched(u)'
  <2>1. u # t => loc'[u].oldh = None /\ loc'[u].w = None /\ loc'[u].pw = None
    BY DEF Alone, Searches, Searched
  <2> QED
    BY <2>1 DEF Searched
<1> QED
  BY <1>1 DEF Searches

\* While others search, who queues goes to the end, or is a writer without a condition.
LEMMA SearchesGrow ==
  ASSUME Lists, Searches, NEW t \in Threads, Alone(t),
         loc'[t].oldh = None, loc'[t].w = None, loc'[t].pw = None, head'.unlocking <=> head.unlocking,
         NEW x \in Threads, ~InQ(x), NEW how, NEW cond, NEW blocked,
         queue' = Enqueue(queue, x, how, cond, blocked, head.unlocking),
         synch'[x].how = how, synch'[x].cond = cond,
         \A u \in Threads \ {x} : synch'[u].how = synch[u].how /\ synch'[u].cond = synch[u].cond
  PROVE  Searches'
<1>1. queue \in Seq(Threads)
  BY DEF Lists
<1> DEFINE free == head.unlocking
           q == Enqueue(queue, x, how, cond, blocked, free)
<1>0. ToSet(q) = ToSet(queue) \cup {x}

  <2> HIDE DEF free
  <2> QED
    BY ONLY <1>1, x \in Threads, EnqueueIs
<1>2. ToSet(queue') = ToSet(queue) \cup {x}
  BY <1>0
<1>3. \A y : InQ(y) => InQ(y)'
  BY <1>2 DEF InQ
<1>4. ASSUME NEW u \in Threads \ {t}, loc[u].oldh # None PROVE Searched(u)'
  <2>1. Searched(u) /\ loc'[u] = loc[u]
    BY DEF Searches, Alone
  <2>2. head.unlocking /\ queue # <<>>
    BY <1>1, <1>4, <2>1, SeqFacts DEF Searched, InQ
  <2>3. \/ queue' = Append(queue, x)
        \/ how = W /\ cond = None /\ queue' = <<x>> \o queue
    <3> DEFINE front == how = W /\ cond = None
               above == Priority[x] > Priority[Last(queue)]
               first == Priority[x] >= Priority[queue[1]]
    <3>1. q = CASE above /\ front -> <<x>> \o queue
                [] ~(above /\ front) /\ blocked /\ front /\ first -> <<x>> \o queue
                [] OTHER -> Append(queue, x)
      BY <2>2 DEF Enqueue
    <3> HIDE DEF q, above, first
    <3>2. CASE above /\ front
      BY <3>1, <3>2 DEF q
    <3>3. CASE ~(above /\ front) /\ blocked /\ front /\ first
      BY <3>1, <3>3 DEF q
    <3>4. CASE ~(above /\ front) /\ ~(~(above /\ front) /\ blocked /\ front /\ first)
      BY <3>1, <3>4 DEF q
    <3> QED
      BY <3>2, <3>3, <3>4
  <2>4. queue[1] \in Threads /\ InQ(queue[1]) /\ 1 \in 1..Len(queue)
    BY <1>1, <2>2, SeqFacts DEF InQ
  <2>5. CASE queue' = Append(queue, x)
    <3>1. Len(queue') = Len(queue) + 1 /\ \A i \in 1..Len(queue) : queue'[i] = queue[i]
      BY <1>1, <2>5
    <3>2. EasyWriter => EasyWriter'
      BY <2>4, <3>1 DEF EasyWriter
    <3>3. Found(u) => Found(u)'
      <4> SUFFICES ASSUME Found(u) PROVE Found(u)'
        OBVIOUS
      <4>1. PICK i \in 1..Len(queue) :
              queue[i] = loc[u].w /\ IF loc[u].pw = None THEN i = 1 ELSE i > 1 /\ queue[i - 1] = loc[u].pw
        BY DEF Found
      <4>2. i \in 1..Len(queue') /\ queue'[i] = queue[i] /\ (i > 1 => queue'[i - 1] = queue[i - 1])
        BY <1>1, <3>1
      <4> QED
        BY <2>1, <4>1, <4>2 DEF Found
    <3> QED
      BY <1>3, <2>1, <2>2, <3>2, <3>3 DEF Searched
  <2>6. CASE how = W /\ cond = None /\ queue' = <<x>> \o queue
    <3>1. queue'[1] = x
      BY <1>1, <2>6
    <3>2. EasyWriter'
      BY <2>6, <3>1 DEF EasyWriter
    <3> QED
      BY <1>3, <2>1, <2>2, <3>2 DEF Searched
  <2> QED
    BY <2>3, <2>5, <2>6
<1>5. ASSUME NEW u \in Threads \ {t}, loc[u].oldh = None PROVE Searched(u)'
  <2>1. loc'[u] = loc[u] /\ loc[u].w = None /\ loc[u].pw = None
    BY <1>5 DEF Searches, Searched, Alone
  <2> QED
    BY <1>5, <2>1 DEF Searched
<1>6. Searched(t)'
  BY DEF Searched
<1> QED
  BY <1>4, <1>5, <1>6 DEF Searches

\* Who searches holds the lock, and has waiters before it.
LEMMA NobodySearches ==
  ASSUME MInv, CInv, NEW u \in Threads, loc[u].held = None \/ ~mu_.wait
  PROVE  loc[u].oldh = None
<1>1. CASE loc[u].held = None
  BY <1>1 DEF MInv, Calls, Call, CInv, Searches, Searched
<1>2. CASE ~mu_.wait
  <2>1. queue = <<>>
    BY <1>2 DEF CInv, Bits
  <2>2. ~InQ(loc[u].oldh)
    BY <2>1, NoneIs DEF InQ
  <2> QED
    BY <2>2 DEF CInv, Searches, Searched
<1> QED
  BY <1>1, <1>2

\* UnlockSlow's end: the thread returns, waits, or wakes others first.
LEMMA AfterIs ==
  ASSUME NEW t \in Threads, Before(t), loc[t].pc \in {"list", "nolist"},
         loc[t].mode \in {"unlock", "requeue", "cv"},
         NEW wakes, loc' = [loc EXCEPT ![t] = After(loc[t], wakes)]
  PROVE  /\ Alone(t) /\ loc'[t].fer = <<>> /\ loc'[t].wakes = wakes
         /\ loc'[t].oldh = None /\ loc'[t].w = None /\ loc'[t].pw = None /\ loc'[t].op = loc[t].op
         /\ loc[t].mode # "unlock" => loc'[t].timed = loc[t].timed
         /\ \/ wakes = <<>> /\ loc'[t].pc = AfterMode(loc[t].mode)
            \/ wakes # <<>> /\ loc'[t].pc = "wakeNext" /\ loc'[t].mode = AfterMode(loc[t].mode)
<1> DEFINE a == AfterMode(loc[t].mode)
           b == [Idle EXCEPT !.pc = IF loc[t].mode = "requeue" THEN "block" ELSE "cvblock",
                             !.op = loc[t].op, !.timed = loc[t].timed, !.blocked = loc[t].blocked]
           next == IF loc[t].mode = "unlock" THEN Idle ELSE b
           waker == [next EXCEPT !.pc = "wakeNext", !.wakes = wakes, !.mode = next.pc]
<1>1. DOMAIN Idle = LocFields
  BY DEF Idle, LocFields
<1>2. DOMAIN b = LocFields /\ b.held = None /\ b.fer = <<>> /\ b.wakes = <<>> /\ b.oldh = None /\ b.w = None
      /\ b.pw = None /\ b.op = loc[t].op /\ b.timed = loc[t].timed
      /\ b.pc = IF loc[t].mode = "requeue" THEN "block" ELSE "cvblock"
  BY DEF Idle, LocFields
<1>3. loc[t].mode = "unlock" => loc[t].op = "none"
  BY DEF Before, Cond, Releasing, InCalls, Waking
<1> HIDE DEF b
<1>4. DOMAIN next = LocFields /\ next.held = None /\ next.fer = <<>> /\ next.wakes = <<>> /\ next.oldh = None
      /\ next.w = None /\ next.pw = None /\ next.op = loc[t].op /\ next.pc = a
      /\ (loc[t].mode # "unlock" => next.timed = loc[t].timed)
  <2>1. CASE loc[t].mode = "unlock"
    BY <1>1, <1>3, <2>1, IdleIs DEF AfterMode
  <2>2. CASE loc[t].mode # "unlock"
    BY <1>2, <2>2 DEF AfterMode
  <2> QED
    BY <2>1, <2>2
<1>5. After(loc[t], wakes) = IF wakes = <<>> THEN next ELSE waker
  <2>1. Then(loc[t]).run = Idle /\ Then(loc[t]).wait = b
    BY DEF Then, b
  <2> QED
    BY <2>1 DEF After
<1> HIDE DEF next, a
<1>6. waker.held = None /\ waker.fer = <<>> /\ waker.wakes = wakes /\ waker.oldh = None /\ waker.w = None
      /\ waker.pw = None /\ waker.op = loc[t].op /\ waker.pc = "wakeNext" /\ waker.mode = a
      /\ waker.timed = next.timed
  BY <1>4 DEF LocFields
<1> HIDE DEF waker
<1>7. loc'[t] = IF wakes = <<>> THEN next ELSE waker
  BY <1>5 DEF Before
<1>8. Alone(t)
  BY DEF Alone, Before
<1>9. CASE wakes = <<>>
  <2>1. loc'[t] = next
    BY <1>7, <1>9
  <2> QED
    BY ONLY <1>4, <1>8, <1>9, <2>1 DEF a
<1>10. CASE wakes # <<>>
  <2>1. loc'[t] = waker
    BY <1>7, <1>10
  <2> QED
    BY ONLY <1>4, <1>6, <1>8, <1>10, <2>1 DEF a
<1> QED
  BY <1>9, <1>10

LEMMA AfterGoes ==
  ASSUME NEW t \in Threads, Before(t), loc[t].pc \in {"list", "nolist"},
         loc[t].mode \in {"unlock", "requeue", "cv"},
         NEW wakes \in Seq(Threads), IsInjective(wakes), loc' = [loc EXCEPT ![t] = After(loc[t], wakes)]
  PROVE  /\ Alone(t) /\ Local(t)' /\ StillWaits(t) /\ ~Awake(t)
         /\ CvWait(t) <=> loc[t].mode = "cv"
         /\ CvWait(t)' <=> loc[t].mode = "cv"
         /\ ~MuWait(t)
         /\ MuWait(t)' <=> loc[t].mode = "requeue"
         /\ \A x : ~InF(t, x) /\ ~InF(t, x)' /\ ~InH(t, x) /\ (InH(t, x)' <=> x \in ToSet(wakes))
         /\ loc'[t].oldh = None /\ loc'[t].w = None /\ loc'[t].pw = None
         /\ synch'[t].cond = synch[t].cond => Cond(t)'
<1>1. /\ Alone(t) /\ loc'[t].fer = <<>> /\ loc'[t].wakes = wakes
      /\ loc'[t].oldh = None /\ loc'[t].w = None /\ loc'[t].pw = None /\ loc'[t].op = loc[t].op
      /\ loc[t].mode # "unlock" => loc'[t].timed = loc[t].timed
      /\ \/ wakes = <<>> /\ loc'[t].pc = AfterMode(loc[t].mode)
         \/ wakes # <<>> /\ loc'[t].pc = "wakeNext" /\ loc'[t].mode = AfterMode(loc[t].mode)
  BY AfterIs
<1>2. loc[t].fer = <<>> /\ loc[t].wakes = <<>>
  BY DEF Before, Local, Waking
<1>3. <<>> \in Seq(Threads) /\ IsInjective(<<>>) /\ \A x : x \notin ToSet(<<>>)
  BY NoneIs
<1>4. Local(t)'
  <2>1. loc'[t].fer \in Seq(Threads) /\ IsInjective(loc'[t].fer)
    BY <1>1, <1>3
  <2>2. loc'[t].wakes \in Seq(Threads) /\ IsInjective(loc'[t].wakes)
    BY <1>1
  <2>3. loc'[t].pc \in Waking <=> loc'[t].wakes # <<>>
    BY <1>1 DEF AfterMode, Waking
  <2>4. loc'[t].pc # "ferqueue" /\ loc'[t].fer = <<>>
    BY <1>1 DEF AfterMode
  <2> QED
    BY ONLY <2>1, <2>2, <2>3, <2>4 DEF Local
<1>5. /\ CvWait(t) <=> loc[t].mode = "cv"
      /\ ~MuWait(t)
      /\ CvWait(t)' <=> loc[t].mode = "cv"
      /\ MuWait(t)' <=> loc[t].mode = "requeue"
  BY <1>1 DEF CvWait, MuWait, Waking, AfterMode
<1>6. ~Awake(t)
  BY <1>5 DEF Awake, Waking
<1>7. \A x : ~InF(t, x) /\ ~InF(t, x)' /\ ~InH(t, x) /\ (InH(t, x)' <=> x \in ToSet(wakes))
  BY <1>1, <1>2, <1>3 DEF InF, InH, Hands, AfterMode
<1>8. ASSUME synch'[t].cond = synch[t].cond PROVE Cond(t)'
  <2>1. /\ loc[t].op # "none" => loc[t].mode = "requeue"
        /\ loc[t].op \in Sure => ~loc[t].timed /\ synch[t].cond = "data"
    BY DEF Before, Cond, Releasing, InCalls, Waking
  <2>2. "none" \notin Sure
    BY DEF Sure
  <2> QED
    BY <1>1, <1>8, <2>1, <2>2 DEF Cond, AfterMode, InCalls, Waking
<1> QED
  BY <1>1, <1>4, <1>5, <1>6, <1>7, <1>8 DEF StillWaits

LEMMA UnlockToCvSimple ==
  ASSUME MInv, CInv, NEW t \in Threads, UnlockToCv(t) PROVE Simple(t)
<1>1. Before(t)
  BY BeforeStep
<1>2. loc[t].pc = "nolist" /\ loc[t].mode = "cv" /\ loc' = [loc EXCEPT ![t] = After(loc[t], <<>>)]
      /\ UNCHANGED <<queue, head, synch, data, cv>>
  BY DEF UnlockToCv, At
<1>3. loc[t].fer = <<>> /\ loc[t].wakes = <<>>
  BY <1>1, <1>2 DEF Before, Local, Waking
<1>4. loc'[t].fer = <<>> /\ loc'[t].wakes = <<>> /\ loc'[t].pc = "cvblock"
  <2>1. loc'[t].fer = <<>> /\ loc'[t].wakes = <<>>
        /\ (loc'[t].pc = AfterMode(loc[t].mode) \/ <<>> # <<>>)
    BY ONLY <1>1, <1>2, AfterIs, t \in Threads
  <2> QED
    BY <1>2, <2>1 DEF AfterMode
<1>5. Alone(t) /\ StillWaits(t) /\ loc'[t].oldh = None /\ loc'[t].w = None /\ loc'[t].pw = None /\ Cond(t)'
  BY <1>1, <1>2, NoneIs, AfterGoes
<1>6. (mu_'.wait <=> mu_.wait) /\ ~mu_'.wrwait /\ (mu_'.desig <=> mu_.desig)
  BY <1>1 DEF UnlockToCv, Before, BitFields
<1>7. ~Returning(t) /\ ~Resting(t)
  BY <1>2 DEF Returning, Resting, MuWait, Waking
<1> QED
  BY ONLY <1>2, <1>3, <1>4, <1>5, <1>6, <1>7, t \in Threads
  DEF Simple, HandsKept, SearchKept, SynchSame, BitsKept, Waking, Releasing

LEMMA QueuedIs ==
  ASSUME NEW x \in Threads, DOMAIN synch = Threads, DOMAIN synch[x] = SynchFields, NEW how, NEW cond,
         synch' = [synch EXCEPT ![x] = Queued(@, how, cond)]
  PROVE  /\ synch'[x].queued /\ synch'[x].how = how /\ synch'[x].cond = cond
         /\ \A u \in Threads \ {x} : synch'[u] = synch[u]
<1>1. synch'[x] = Queued(synch[x], how, cond)
  OBVIOUS
<1> QED
  BY <1>1 DEF Queued, SynchFields

LEMMA EnqueueKeeps ==
  ASSUME queue \in Seq(Threads), IsInjective(queue), NEW x \in Threads, NEW how, NEW cond, NEW blocked, NEW free,
         queue' = Enqueue(queue, x, how, cond, blocked, free)
  PROVE  queue' \in Seq(Threads) /\ (x \notin ToSet(queue) => IsInjective(queue')) /\ ToSet(queue') = ToSet(queue) \cup {x}
<1> DEFINE q == Enqueue(queue, x, how, cond, blocked, free)
<1>1. q \in Seq(Threads)
  BY EnqueueIs
<1>2. ToSet(q) = ToSet(queue) \cup {x}
  BY EnqueueIs
<1>3. IsInjective(queue) /\ x \notin ToSet(queue) => IsInjective(q)
  BY EnqueueIs
<1> HIDE DEF q
<1>4. queue' = q
  BY DEF q
<1> QED
  BY ONLY <1>1, <1>2, <1>3, <1>4, IsInjective(queue)

\* Thread t queues itself on the mutex.
LEMMA JoinsQueue ==
  ASSUME MInv, CInv, NEW t \in Threads, Alone(t), UNCHANGED <<cv, data>>,
         loc[t].fer = <<>>, loc[t].wakes = <<>>, ~CvWait(t), ~MuWait(t), MuWait(t)',
         loc'[t].fer = <<>>, loc'[t].wakes = <<>>, Local(t)', Cond(t)',
         loc'[t].oldh = None, loc'[t].w = None, loc'[t].pw = None,
         NEW how, NEW cond, synch'[t].queued, synch'[t].how = how, synch'[t].cond = cond,
         \A u \in Threads \ {t} : synch'[u] = synch[u],
         queue' \in Seq(Threads), t \notin ToSet(queue) => IsInjective(queue'), ToSet(queue') = ToSet(queue) \cup {t},
         mu_'.wait, mu_'.desig => mu_.desig /\ ~Awake(t),
         NEW blocked,
         \/ \A u \in Threads \ {t} : loc[u].oldh = None
         \/ /\ head'.unlocking <=> head.unlocking
            /\ queue' = Enqueue(queue, t, how, cond, blocked, head.unlocking)
  PROVE  CInv'
<1>1. ~InQ(t) /\ ~InC(t) /\ \A u \in Threads : ~InF(u, t) /\ ~InH(u, t)
  <2>1. Before(t)
    BY BeforeStep
  <2> QED
    BY <2>1, NotWaiting
<1>2. \A x : x \notin ToSet(<<>>)
  BY NoneIs
<1>3. \A x : ~InF(t, x) /\ ~InF(t, x)' /\ ~InH(t, x) /\ ~InH(t, x)'
  <2>1. Tail(<<>>) = <<>>
    OBVIOUS
  <2> QED
    BY <1>2, <2>1, SMT DEF InF, InH, Hands, Local, Waking
<1>4. Lists'
  <2>1. \A u \in Threads : ~InF(u, t)' /\ ~InH(u, t)'
    BY <1>1, <1>3, OthersStay
  <2>2. \A y \in Threads \ {t} : (InF(t, y)' <=> InF(t, y)) /\ (InH(t, y)' <=> InH(t, y))
                                  /\ (synch'[y].queued <=> synch[y].queued) /\ StillWaits(y)
    BY <1>3, OthersStay
  <2>3. IsInjective(queue')
    BY <1>1 DEF InQ
  <2> QED
    BY <1>1, <2>1, <2>2, <2>3, ListsEnqueued DEF CInv
<1>5. Bits'
  <2>1. queue' # <<>>
    BY <1>2
  <2> QED
    BY <2>1 DEF Bits
<1>6. Desig'
  <2>1. \A x \in Threads \ {t} : OnList(x)' => OnList(x)
    <3>1. \A x \in Threads \ {t} : (InQ(x)' <=> InQ(x)) /\ (InC(x)' <=> InC(x))
      BY DEF InQ, InC
    <3>2. \A x \in Threads : \A u \in Threads : InF(u, x)' <=> InF(u, x)
      BY <1>3, OthersStay
    <3> QED
      BY <3>1, <3>2 DEF OnList
  <2> QED
    BY <2>1, DesigMoves DEF CInv
<1>7. Searches'
  <2>1. CASE \A u \in Threads \ {t} : loc[u].oldh = None
    BY <2>1, SearchesNone DEF CInv
  <2>2. CASE /\ head'.unlocking <=> head.unlocking
             /\ queue' = Enqueue(queue, t, how, cond, blocked, head.unlocking)
    BY <1>1, <2>2, SearchesGrow DEF CInv
  <2> QED
    BY <2>1, <2>2
<1>8. Conds'
  BY CondsSimple DEF CInv
<1> QED
  BY <1>4, <1>5, <1>6, <1>7, <1>8 DEF CInv

LEMMA LoopFirstWaiterKeepsLists ==
  ASSUME MInv, CInv, NEW t \in Threads, LoopFirstWaiter(t) PROVE CInv'
<1>1. Before(t)
  BY BeforeStep
<1>2. loc[t].pc = "loop" /\ ~mu_.wait /\ queue' = <<t>> /\ UNCHANGED <<cv, data>>
      /\ synch' = [synch EXCEPT ![t] = Queued(@, synch[t].how, synch[t].cond)]
  BY DEF LoopFirstWaiter, At
<1>3. Goes(t, "block") /\ loc'[t].timed = loc[t].timed
  BY <1>1 DEF LoopFirstWaiter, Goto, Before, Goes, Alone, LocFields
<1>4. loc[t].fer = <<>> /\ loc[t].wakes = <<>> /\ ~CvWait(t) /\ ~MuWait(t)
  BY <1>1, <1>2, AtRun
<1>5. loc[t].oldh = None /\ loc[t].w = None /\ loc[t].pw = None
  BY <1>1, <1>2 DEF Before, Searched, Releasing
<1>6. MuWait(t)' /\ Local(t)'
  BY <1>1, <1>3, <1>4 DEF MuWait, Local, Goes, Before, Waking
<1>7. synch'[t].queued /\ synch'[t].how = synch[t].how /\ synch'[t].cond = synch[t].cond
      /\ \A u \in Threads \ {t} : synch'[u] = synch[u]
  BY <1>1, <1>2, QueuedIs DEF Before
<1>8. Cond(t)'
  BY <1>1, <1>2, <1>3, <1>7 DEF Before, Cond, Goes, InCalls, Releasing, Waking
<1>9. queue' \in Seq(Threads) /\ IsInjective(queue') /\ ToSet(queue') = ToSet(queue) \cup {t}
  <2>1. queue = <<>>
    BY <1>2 DEF CInv, Bits
  <2> QED
    BY <1>2, <2>1, OneIs, NoneIs
<1>10. mu_'.wait /\ (mu_'.desig => mu_.desig /\ ~loc[t].blocked)
  BY <1>1 DEF LoopFirstWaiter, Before, BitFields
<1>11. Awake(t) => loc[t].blocked
  BY <1>2, <1>4 DEF Awake, Waking
<1>12. \A u \in Threads \ {t} : loc[u].oldh = None
  BY <1>2, NobodySearches
<1> QED
  BY ONLY MInv, CInv, t \in Threads, <1>2, <1>3, <1>4, <1>5, <1>6, <1>7, <1>8, <1>9, <1>10, <1>11, <1>12, JoinsQueue
  DEF Goes

LEMMA LoopEnqueueKeepsLists ==
  ASSUME MInv, CInv, NEW t \in Threads, LoopEnqueue(t) PROVE CInv'
<1> DEFINE how == synch[t].how
           cond == synch[t].cond
           blocked == loc[t].blocked
           free == head.unlocking
<1>1. Before(t)
  BY BeforeStep
<1>2. loc[t].pc = "enqueue" /\ UNCHANGED <<head, cv, data>>
      /\ queue' = Enqueue(queue, t, how, cond, blocked, free)
      /\ synch' = [synch EXCEPT ![t] = Queued(@, how, cond)]
  BY DEF LoopEnqueue, At
<1>3. Goes(t, "block") /\ loc'[t].timed = loc[t].timed
  BY <1>1 DEF LoopEnqueue, Goto, Before, Goes, Alone, LocFields
<1>4. loc[t].fer = <<>> /\ loc[t].wakes = <<>> /\ ~CvWait(t) /\ ~MuWait(t)
  BY <1>1, <1>2, AtRun
<1>5. loc[t].oldh = None /\ loc[t].w = None /\ loc[t].pw = None
  BY <1>1, <1>2 DEF Before, Searched, Releasing
<1>6. MuWait(t)' /\ Local(t)'
  BY <1>1, <1>3, <1>4 DEF MuWait, Local, Goes, Before, Waking
<1>7. synch'[t].queued /\ synch'[t].how = how /\ synch'[t].cond = cond
      /\ \A u \in Threads \ {t} : synch'[u] = synch[u]
  BY <1>1, <1>2, QueuedIs DEF Before
<1>8. Cond(t)'
  BY <1>1, <1>2, <1>3, <1>7 DEF Before, Cond, Goes, InCalls, Releasing, Waking
<1>9. mu_'.wait /\ (mu_'.desig => mu_.desig)
  BY <1>1 DEF LoopEnqueue, Before, BitFields
<1>10. ~Awake(t)
  BY <1>2, <1>4 DEF Awake, Waking
<1>11. queue \in Seq(Threads) /\ IsInjective(queue)
  BY DEF CInv, Lists
<1> HIDE DEF how, cond, blocked, free
<1>12. queue' \in Seq(Threads) /\ (t \notin ToSet(queue) => IsInjective(queue')) /\ ToSet(queue') = ToSet(queue) \cup {t}
  BY ONLY <1>2, <1>11, t \in Threads, EnqueueKeeps
<1> USE DEF free
<1> QED
  BY ONLY MInv, CInv, t \in Threads, <1>2, <1>3, <1>4, <1>5, <1>6, <1>7, <1>8, <1>9, <1>10, <1>12, JoinsQueue
  DEF Goes

LEMMA UnlockAloneKeepsLists ==
  ASSUME MInv, CInv, NEW t \in Threads, UnlockAlone(t) PROVE CInv'
<1>1. Before(t)
  BY BeforeStep
<1>2. loc[t].pc = "nolist" /\ loc[t].mode = "requeue" /\ queue' = <<t>> /\ UNCHANGED <<cv, data>>
      /\ synch' = [synch EXCEPT ![t] = Queued(@, synch[t].how, synch[t].cond)]
      /\ loc' = [loc EXCEPT ![t] = After(loc[t], <<>>)]
  BY DEF UnlockAlone, At
<1>3. ~mu_.wait
  BY <1>2 DEF MInv, Spin, Spinning
<1>4. /\ Alone(t) /\ Local(t)' /\ ~Awake(t) /\ ~CvWait(t) /\ ~MuWait(t) /\ MuWait(t)'
      /\ loc'[t].oldh = None /\ loc'[t].w = None /\ loc'[t].pw = None
      /\ synch'[t].cond = synch[t].cond => Cond(t)'
  BY <1>1, <1>2, NoneIs, AfterGoes
<1>5. loc[t].fer = <<>> /\ loc[t].wakes = <<>>
  BY <1>1, <1>2 DEF Before, Local, Waking
<1>6. loc'[t].fer = <<>> /\ loc'[t].wakes = <<>>
  BY <1>1, <1>2, AfterIs
<1>7. synch'[t].queued /\ synch'[t].how = synch[t].how /\ synch'[t].cond = synch[t].cond
      /\ \A u \in Threads \ {t} : synch'[u] = synch[u]
  BY <1>1, <1>2, QueuedIs DEF Before
<1>8. queue' \in Seq(Threads) /\ IsInjective(queue') /\ ToSet(queue') = ToSet(queue) \cup {t}
  <2>1. queue = <<>>
    BY <1>3 DEF CInv, Bits
  <2> QED
    BY <1>2, <2>1, OneIs, NoneIs
<1>9. mu_'.wait /\ (mu_'.desig => mu_.desig)
  BY <1>1 DEF UnlockAlone, Before, BitFields
<1>10. \A u \in Threads \ {t} : loc[u].oldh = None
  BY <1>3, NobodySearches
<1> QED
  BY ONLY MInv, CInv, t \in Threads, <1>2, <1>4, <1>5, <1>6, <1>7, <1>8, <1>9, <1>10, JoinsQueue

\* What is known of a thread that releases the lock by a store.
LEMMA AtListIs ==
  ASSUME MInv, CInv, NEW t \in Threads, loc[t].pc = "list"
  PROVE  /\ mu_.wait /\ queue # <<>> /\ queue \in Seq(Threads) /\ IsInjective(queue)
         /\ loc[t].fer = <<>> /\ loc[t].wakes = <<>>
         /\ mu_.desig <=> loc[t].v.desig
         /\ DOMAIN loc[t].v = BitFields
         /\ ~NotLastReader(t) => \A u \in Threads \ {t} : loc[u].oldh = None
<1>1. mu_.wait /\ mu_ = [loc[t].v EXCEPT !.spin = TRUE] /\ DOMAIN loc[t].v = BitFields
  BY DEF MInv, Spin, Spinning, Calls, ThreadTypes, IsWord
<1>2. queue # <<>> /\ queue \in Seq(Threads) /\ IsInjective(queue)
  BY <1>1 DEF CInv, Bits, Lists
<1>3. mu_.desig <=> loc[t].v.desig
  BY <1>1 DEF BitFields
<1>4. loc[t].fer = <<>> /\ loc[t].wakes = <<>>
  BY DEF CInv, Lists, Local, Waking
<1>5. ~NotLastReader(t) => \A u \in Threads \ {t} : loc[u].oldh = None
  BY LastAtList, NobodySearches
<1> QED
  BY <1>1, <1>2, <1>3, <1>4, <1>5

LEMMA UnlockReaderKeepsLists ==
  ASSUME MInv, CInv, NEW t \in Threads, UnlockReader(t) PROVE CInv'
<1>1. Before(t)
  BY BeforeStep
<1>2. loc[t].pc = "list" /\ loc[t].mode \in {"unlock", "requeue", "cv"} /\ UNCHANGED <<cv, data>>
      /\ loc' = [loc EXCEPT ![t] = After(loc[t], <<>>)]
  BY <1>1 DEF UnlockReader, At, Before, Releasing
<1>3. head' = [head EXCEPT !.readers = @ - 1] /\ mu_' = [loc[t].v EXCEPT !.wait = TRUE]
  BY DEF UnlockReader
<1>4. head'.unlocking <=> head.unlocking
  BY <1>1, <1>3 DEF Before
<1>5. /\ mu_.wait /\ queue # <<>> /\ queue \in Seq(Threads) /\ IsInjective(queue)
      /\ loc[t].fer = <<>> /\ loc[t].wakes = <<>>
      /\ mu_.desig <=> loc[t].v.desig
      /\ DOMAIN loc[t].v = BitFields
  BY <1>2, AtListIs
<1>6. mu_'.wait /\ (mu_'.desig <=> mu_.desig) /\ (mu_'.wrwait <=> mu_.wrwait)
  <2>1. mu_ = [loc[t].v EXCEPT !.spin = TRUE]
    BY <1>2 DEF MInv, Spin
  <2> QED
    BY <1>3, <1>5, <2>1 DEF BitFields
<1>7. /\ Alone(t) /\ Local(t)' /\ StillWaits(t) /\ ~Awake(t) /\ ~MuWait(t)
      /\ CvWait(t) <=> loc[t].mode = "cv"
      /\ MuWait(t)' <=> loc[t].mode = "requeue"
      /\ loc'[t].oldh = None /\ loc'[t].w = None /\ loc'[t].pw = None
      /\ synch'[t].cond = synch[t].cond => Cond(t)'
  BY <1>1, <1>2, NoneIs, AfterGoes
<1>8. loc'[t].fer = <<>> /\ loc'[t].wakes = <<>> /\ loc'[t].pc = AfterMode(loc[t].mode)
  BY <1>1, <1>2, AfterIs
<1>9. CASE loc[t].mode = "requeue"
  <2> DEFINE how == synch[t].how
             cond == synch[t].cond
             free == head.unlocking
  <2>1. queue' = Enqueue(queue, t, how, cond, FALSE, free) /\ synch' = [synch EXCEPT ![t] = Queued(@, how, cond)]
    BY <1>9 DEF UnlockReader, Requeued, SynchRequeued
  <2>2. synch'[t].queued /\ synch'[t].how = how /\ synch'[t].cond = cond
        /\ \A u \in Threads \ {t} : synch'[u] = synch[u]
    BY <1>1, <2>1, QueuedIs DEF Before
  <2> HIDE DEF how, cond, free
  <2>3. queue' \in Seq(Threads) /\ (t \notin ToSet(queue) => IsInjective(queue')) /\ ToSet(queue') = ToSet(queue) \cup {t}
    BY ONLY <1>5, <2>1, t \in Threads, EnqueueKeeps
  <2> USE DEF free
  <2>4. Cond(t)'
    BY <1>7, <2>2 DEF cond
  <2> QED
    BY ONLY MInv, CInv, t \in Threads, <1>2, <1>4, <1>5, <1>6, <1>7, <1>8, <1>9, <2>1, <2>2, <2>3, <2>4, JoinsQueue
<1>10. CASE loc[t].mode # "requeue"
  <2>1. UNCHANGED <<queue, synch>>
    BY <1>10 DEF UnlockReader, Requeued, SynchRequeued
  <2>2. ~Returning(t) /\ ~Resting(t) /\ loc[t].pc \notin Waking /\ loc'[t].pc \notin Waking /\ loc'[t].pc # "ferqueue"
    BY <1>2, <1>7, <1>8 DEF Returning, Resting, Waking, AfterMode
  <2>3. Simple(t)
    BY ONLY <1>2, <1>4, <1>5, <1>6, <1>7, <1>8, <2>1, <2>2, t \in Threads
    DEF Simple, HandsKept, SearchKept, SynchSame, BitsKept
  <2> QED
    BY <2>3, SimpleKeeps
<1> QED
  BY <1>9, <1>10

LEMMA UnlockNobodyKeepsLists ==
  ASSUME MInv, CInv, NEW t \in Threads, UnlockNobody(t) PROVE CInv'
<1>1. Before(t)
  BY BeforeStep
<1>2. loc[t].pc = "list" /\ loc[t].mode \in {"unlock", "requeue", "cv"} /\ UNCHANGED <<cv, data>>
      /\ loc' = [loc EXCEPT ![t] = After(loc[t], <<>>)] /\ ~NotLastReader(t)
  BY <1>1 DEF UnlockNobody, At, Before, Releasing
<1>3. /\ mu_.wait /\ queue # <<>> /\ queue \in Seq(Threads) /\ IsInjective(queue)
      /\ loc[t].fer = <<>> /\ loc[t].wakes = <<>>
      /\ mu_.desig <=> loc[t].v.desig
      /\ DOMAIN loc[t].v = BitFields
  BY <1>2, AtListIs
<1>4. \A u \in Threads \ {t} : loc[u].oldh = None
  BY <1>2, AtListIs
<1>5. mu_'.wait /\ (mu_'.desig <=> mu_.desig) /\ ~mu_'.wrwait
  BY <1>3 DEF UnlockNobody, BitFields
<1>6. /\ Alone(t) /\ Local(t)' /\ StillWaits(t) /\ ~Awake(t) /\ ~MuWait(t)
      /\ CvWait(t) <=> loc[t].mode = "cv"
      /\ MuWait(t)' <=> loc[t].mode = "requeue"
      /\ loc'[t].oldh = None /\ loc'[t].w = None /\ loc'[t].pw = None
      /\ synch'[t].cond = synch[t].cond => Cond(t)'
  BY <1>1, <1>2, NoneIs, AfterGoes
<1>7. loc'[t].fer = <<>> /\ loc'[t].wakes = <<>> /\ loc'[t].pc = AfterMode(loc[t].mode)
  BY <1>1, <1>2, AfterIs
<1>8. CASE loc[t].mode = "requeue"
  <2> DEFINE how == synch[t].how
             cond == synch[t].cond
  <2>1. queue' = Enqueue(queue, t, how, cond, FALSE, FALSE) /\ synch' = [synch EXCEPT ![t] = Queued(@, how, cond)]
    BY <1>8 DEF UnlockNobody, Requeued, SynchRequeued
  <2>2. synch'[t].queued /\ synch'[t].how = how /\ synch'[t].cond = cond
        /\ \A u \in Threads \ {t} : synch'[u] = synch[u]
    BY <1>1, <2>1, QueuedIs DEF Before
  <2> HIDE DEF how, cond
  <2>3. queue' \in Seq(Threads) /\ (t \notin ToSet(queue) => IsInjective(queue')) /\ ToSet(queue') = ToSet(queue) \cup {t}
    BY ONLY <1>3, <2>1, t \in Threads, EnqueueKeeps
  <2>4. Cond(t)'
    BY <1>6, <2>2 DEF cond
  <2> QED
    BY ONLY MInv, CInv, t \in Threads, <1>2, <1>3, <1>4, <1>5, <1>6, <1>7, <1>8, <2>2, <2>3, <2>4, JoinsQueue
<1>9. CASE loc[t].mode # "requeue"
  <2>1. UNCHANGED <<queue, synch>>
    BY <1>9 DEF UnlockNobody, Requeued, SynchRequeued
  <2>2. loc[t].pc \notin Waking /\ loc'[t].pc \notin Waking /\ loc'[t].pc # "ferqueue"
    BY <1>2, <1>7 DEF Waking, AfterMode
  <2>3. HandsKept(t) /\ SynchSame(t)
    BY ONLY <1>3, <1>6, <1>7, <2>1, <2>2, t \in Threads DEF HandsKept, SynchSame
  <2>4. Lists'
    BY <1>2, <1>6, <2>1, <2>3, ListsSimple DEF CInv
  <2>5. Bits'
    BY <1>3, <1>5, <2>1 DEF Bits
  <2>6. Desig'
    <3>1. \A x \in Threads : (InQ(x)' <=> InQ(x)) /\ (InC(x)' <=> InC(x))
      BY <1>2, <2>1 DEF InQ, InC
    <3>2. \A x \in Threads : InF(t, x)' <=> InF(t, x)
      BY <1>3, <1>7 DEF InF
    <3>3. \A x \in Threads \ {t} : OnList(x)' => OnList(x)
      BY <1>6, <3>1, <3>2, OthersStay DEF OnList
    <3> QED
      BY <1>5, <1>6, <3>3, DesigMoves DEF CInv
  <2>7. Searches'
    BY <1>4, <1>6, SearchesNone DEF CInv
  <2>8. Conds'
    BY <1>2, <1>6, <2>1, CondsSimple DEF CInv
  <2> QED
    BY <2>4, <2>5, <2>6, <2>7, <2>8 DEF CInv
<1> QED
  BY <1>8, <1>9

LEMMA ContainsIs ==
  ASSUME NEW s, NEW x
  PROVE  Contains(s, x) <=> x \in ToSet(s)
BY DEF Contains, ToSet

\* What is left when one is taken out.
LEMMA WithoutIs ==
  ASSUME NEW s \in Seq(Threads), IsInjective(s), NEW t
  PROVE  /\ Only(s, Threads \ {t}) \in Seq(Threads) /\ IsInjective(Only(s, Threads \ {t}))
         /\ \A x \in Threads : x \in ToSet(Only(s, Threads \ {t})) <=> x \in ToSet(s) /\ x # t
<1> DEFINE S == Threads \ {t}
<1>1. Only(s, S) \in Seq(Threads) /\ ToSet(Only(s, S)) = ToSet(s) \cap S /\ IsInjective(Only(s, S))
  BY OnlyIs
<1> QED
  BY <1>1

LEMMA CondVarEnqueueKeepsLists ==
  ASSUME MInv, CInv, NEW t \in Threads, CondVarEnqueue(t) PROVE CInv'
<1>1. Before(t)
  BY BeforeStep
<1>2. loc[t].pc \in {"nolist", "list"} /\ loc[t].mode = "cvenqueue" /\ cv' = Append(cv, t)
      /\ UNCHANGED <<queue, head, mu_, data>>
      /\ synch' = [synch EXCEPT ![t].queued = TRUE, ![t].next = TRUE]
  BY DEF CondVarEnqueue, At, shared
<1>3. Goes(t, loc[t].pc) /\ loc'[t].mode = "cv"
  BY <1>1 DEF CondVarEnqueue, Before, Goes, Alone, LocFields
<1>4. loc[t].fer = <<>> /\ loc[t].wakes = <<>> /\ ~CvWait(t) /\ ~MuWait(t) /\ ~Awake(t) /\ CvWait(t)'
  BY <1>1, <1>2, <1>3 DEF Before, Local, CvWait, MuWait, Awake, Waking, Goes
<1>5. synch'[t].queued /\ (\A u \in Threads \ {t} : synch'[u] = synch[u])
      /\ \A u \in Threads : synch'[u].how = synch[u].how /\ synch'[u].cond = synch[u].cond
  BY <1>1, <1>2 DEF Before, SynchFields
<1>6. ~InQ(t) /\ ~InC(t) /\ \A u \in Threads : ~InF(u, t) /\ ~InH(u, t)
  BY <1>1, <1>4, NotWaiting
<1>7. \A x : (InF(t, x)' <=> InF(t, x)) /\ (InH(t, x)' <=> InH(t, x)) /\ (InQ(x)' <=> InQ(x))
  BY <1>2, <1>3 DEF InF, InH, Hands, Goes, InQ
<1>8. cv' \in Seq(Threads) /\ IsInjective(cv') /\ \A x : InC(x)' <=> InC(x) \/ x = t
  <2>1. cv \in Seq(Threads) /\ IsInjective(cv)
    BY DEF CInv, Lists
  <2> QED
    BY <1>2, <1>6, <2>1, AppendIs DEF InC
<1>9. Lists'
  <2> DEFINE S == {t}
  <2>1. Local(t)'
    BY <1>1, <1>2, <1>3, <1>4 DEF Before, Local, Goes, Waking
  <2>2. queue' \in Seq(Threads) /\ IsInjective(queue')
    BY <1>2 DEF CInv, Lists
  <2>3. \A u \in Threads : ~InF(u, t)' /\ ~InH(u, t)'
    BY <1>3, <1>6, <1>7, OthersStay DEF Goes
  <2>4. Apart(t)' /\ Placed(t)'
    BY <1>4, <1>5, <1>6, <1>7, <1>8, <2>3, OnCondVar
  <2>5. \A x \in Threads \ S :
           /\ (InQ(x)' <=> InQ(x)) /\ (InC(x)' <=> InC(x))
           /\ (InF(t, x)' <=> InF(t, x)) /\ (InH(t, x)' <=> InH(t, x))
           /\ (synch'[x].queued <=> synch[x].queued) /\ StillWaits(x)
    BY <1>3, <1>5, <1>7, <1>8, OthersStay DEF Goes
  <2>6. \A x \in Threads \cap S : Apart(x)' /\ Placed(x)'
    BY <2>4
  <2> HIDE DEF S
  <2> QED
    BY <1>3, <1>8, <2>1, <2>2, <2>5, <2>6, Regroup DEF Goes, CInv
<1>10. Bits'
  BY <1>2 DEF CInv, Bits
<1>11. Desig'
  <2>1. \A x \in Threads \ {t} : OnList(x)' => OnList(x)
    BY <1>3, <1>7, <1>8, OthersStay DEF OnList, Goes
  <2> QED
    BY <1>2, <1>3, <1>4, <2>1, DesigMoves DEF CInv, Goes
<1>12. Searches'
  <2>1. SearchKept(t)
    BY <1>2, <1>3 DEF SearchKept, Goes, Releasing
  <2> QED
    BY <1>2, <1>3, <1>5, <2>1, SearchesSimple DEF CInv, Goes
<1>13. Conds'
  <2>1. loc[t].op = "none" /\ loc'[t].op = "none"
    BY <1>1, <1>2, <1>3 DEF Before, Cond, Goes, Releasing, InCalls, Waking
  <2>2. Cond(t)'
    BY <2>1 DEF Cond, Sure
  <2> QED
    BY <1>2, <1>3, <1>5, <2>2, CondsSimple DEF CInv, Goes
<1> QED
  BY <1>9, <1>10, <1>11, <1>12, <1>13 DEF CInv

LEMMA TimeoutKeepsLists ==
  ASSUME MInv, CInv, NEW t \in Threads, Timeout(t) PROVE CInv'
<1>1. Before(t)
  BY BeforeStep
<1>2. loc[t].pc = "cvblock" /\ cv' = Only(cv, Threads \ {t}) /\ UNCHANGED <<queue, head, mu_, data>>
      /\ synch' = IF Contains(cv, t) THEN [synch EXCEPT ![t].queued = FALSE, ![t].next = FALSE] ELSE synch
  BY DEF Timeout, At, shared
<1>3. Goes(t, "cvblock")
  BY <1>1, <1>2 DEF Timeout, Before, Goes, Alone, LocFields
<1>4. loc[t].fer = <<>> /\ loc[t].wakes = <<>>
  BY <1>1, <1>2 DEF Before, Local, Waking
<1>5. /\ \A u \in Threads : synch'[u].how = synch[u].how /\ synch'[u].cond = synch[u].cond
      /\ \A u \in Threads \ {t} : synch'[u].queued = synch[u].queued
      /\ synch'[t].queued <=> synch[t].queued /\ ~InC(t)
  <2>1. CASE Contains(cv, t)
    BY <1>1, <1>2, <2>1, ContainsIs DEF Before, SynchFields, InC
  <2>2. CASE ~Contains(cv, t)
    BY <1>2, <2>2, ContainsIs DEF InC
  <2> QED
    BY <2>1, <2>2
<1>6. \A x : (InF(t, x)' <=> InF(t, x)) /\ (InH(t, x)' <=> InH(t, x)) /\ (InQ(x)' <=> InQ(x))
  BY <1>2, <1>3 DEF InF, InH, Hands, Goes, InQ
<1>7. cv' \in Seq(Threads) /\ IsInjective(cv') /\ \A x \in Threads : InC(x)' <=> InC(x) /\ x # t
  <2> DEFINE r == Only(cv, Threads \ {t})
  <2>1. cv \in Seq(Threads) /\ IsInjective(cv)
    BY DEF CInv, Lists
  <2>2. r \in Seq(Threads) /\ IsInjective(r) /\ \A x \in Threads : x \in ToSet(r) <=> x \in ToSet(cv) /\ x # t
    BY <2>1, WithoutIs
  <2> HIDE DEF r
  <2>3. cv' = r
    BY <1>2 DEF r
  <2> QED
    BY <2>2, <2>3 DEF InC
<1>8. \A u \in Threads : StillWaits(u)
  <2>1. StillWaits(t)
    BY <1>2, <1>3 DEF StillWaits, CvWait, MuWait, Goes, Waking
  <2> QED
    BY <1>3, <2>1, OthersStay DEF Goes
<1>9. Lists'
  <2> DEFINE S == IF InC(t) THEN {t} ELSE {}
  <2>1. Local(t)'
    BY <1>1, <1>2, <1>3, <1>4 DEF Before, Local, Goes, Waking
  <2>2. queue' \in Seq(Threads) /\ IsInjective(queue')
    BY <1>2 DEF CInv, Lists
  <2>3. ASSUME InC(t) PROVE Apart(t)' /\ Placed(t)'
    <3>1. ~InQ(t) /\ \A u \in Threads : ~InF(u, t) /\ ~InH(u, t)
      BY <2>3 DEF CInv, Lists, Apart
    <3>2. \A u \in Threads : ~InF(u, t)' /\ ~InH(u, t)'
      BY <1>3, <1>6, <3>1, OthersStay DEF Goes
    <3> QED
      BY <1>5, <1>6, <1>7, <2>3, <3>1, <3>2, Nowhere
  <2>4. \A x \in Threads \ S :
           /\ (InQ(x)' <=> InQ(x)) /\ (InC(x)' <=> InC(x))
           /\ (InF(t, x)' <=> InF(t, x)) /\ (InH(t, x)' <=> InH(t, x))
           /\ (synch'[x].queued <=> synch[x].queued) /\ StillWaits(x)
    BY <1>5, <1>6, <1>7, <1>8
  <2>5. \A x \in Threads \cap S : Apart(x)' /\ Placed(x)'
    BY <2>3
  <2> HIDE DEF S
  <2> QED
    BY <1>3, <1>7, <2>1, <2>2, <2>4, <2>5, Regroup DEF Goes, CInv
<1>10. Bits'
  BY <1>2 DEF CInv, Bits
<1>11. Desig'
  <2>1. \A x \in Threads : OnList(x)' => OnList(x)
    BY <1>3, <1>6, <1>7, OthersStay DEF OnList, Goes
  <2>2. Awake(t) => Awake(t)'
    BY <1>2, <1>3, <2>1 DEF Awake, OnList, Goes
  <2> QED
    BY <1>2, <1>3, <2>1, <2>2, DesigMoves DEF CInv, Goes
<1>12. Searches'
  <2>1. SearchKept(t)
    BY <1>1, <1>2, <1>3 DEF SearchKept, Goes, Releasing, Before, Searched
  <2> QED
    BY <1>2, <1>3, <1>5, <2>1, SearchesSimple DEF CInv, Goes
<1>13. Conds'
  <2>1. loc'[t].op = "none"
    BY <1>1, <1>2, <1>3 DEF Before, Cond, Goes, Releasing, InCalls, Waking
  <2>2. Cond(t)'
    BY <2>1 DEF Cond, Sure
  <2> QED
    BY <1>2, <1>3, <1>5, <2>2, CondsSimple DEF CInv, Goes
<1> QED
  BY <1>9, <1>10, <1>11, <1>12, <1>13 DEF CInv

LEMMA UnlinkKeepsLists ==
  ASSUME MInv, CInv, NEW t \in Threads, Unlink(t) PROVE CInv'
<1>1. Before(t)
  BY BeforeStep
<1>2. loc[t].pc = "unlink" /\ queue' = Only(queue, Threads \ {t}) /\ UNCHANGED <<cv, data>>
      /\ mu_' = [Free EXCEPT !.desig = mu_.desig, !.wait = queue' # <<>>]
      /\ synch' = IF Contains(queue, t) THEN [synch EXCEPT ![t].next = FALSE, ![t].queued = FALSE] ELSE synch
  BY DEF Unlink, At
<1>3. Goes(t, "removing") /\ loc'[t].timed = loc[t].timed
  BY <1>1 DEF Unlink, Goto, Before, Goes, Alone, LocFields
<1>4. loc[t].fer = <<>> /\ loc[t].wakes = <<>> /\ loc[t].oldh = None /\ loc[t].w = None /\ loc[t].pw = None
  BY <1>1, <1>2 DEF Before, Local, Searched, Waking, Releasing
<1>5. /\ \A u \in Threads : synch'[u].how = synch[u].how /\ synch'[u].cond = synch[u].cond
      /\ \A u \in Threads \ {t} : synch'[u].queued = synch[u].queued
      /\ synch'[t].queued <=> synch[t].queued /\ ~InQ(t)
  <2>1. CASE Contains(queue, t)
    BY <1>1, <1>2, <2>1, ContainsIs DEF Before, SynchFields, InQ
  <2>2. CASE ~Contains(queue, t)
    BY <1>2, <2>2, ContainsIs DEF InQ
  <2> QED
    BY <2>1, <2>2
<1>6. \A x : (InF(t, x)' <=> InF(t, x)) /\ (InH(t, x)' <=> InH(t, x)) /\ (InC(x)' <=> InC(x))
  BY <1>2, <1>3 DEF InF, InH, Hands, Goes, InC
<1>7. queue' \in Seq(Threads) /\ IsInjective(queue') /\ \A x \in Threads : InQ(x)' <=> InQ(x) /\ x # t
  <2> DEFINE r == Only(queue, Threads \ {t})
  <2>1. queue \in Seq(Threads) /\ IsInjective(queue)
    BY DEF CInv, Lists
  <2>2. r \in Seq(Threads) /\ IsInjective(r) /\ \A x \in Threads : x \in ToSet(r) <=> x \in ToSet(queue) /\ x # t
    BY <2>1, WithoutIs
  <2> HIDE DEF r
  <2>3. queue' = r
    BY <1>2 DEF r
  <2> QED
    BY <2>2, <2>3 DEF InQ
<1>8. \A u \in Threads : StillWaits(u)
  <2>1. StillWaits(t)
    BY <1>2, <1>3 DEF StillWaits, CvWait, MuWait, Goes, Waking
  <2> QED
    BY <1>3, <2>1, OthersStay DEF Goes
<1>9. Lists'
  <2> DEFINE S == IF InQ(t) THEN {t} ELSE {}
  <2>1. Local(t)'
    BY <1>1, <1>2, <1>3, <1>4 DEF Before, Local, Goes, Waking
  <2>2. cv' \in Seq(Threads) /\ IsInjective(cv')
    BY <1>2 DEF CInv, Lists
  <2>3. ASSUME InQ(t) PROVE Apart(t)' /\ Placed(t)'
    <3>1. ~InC(t) /\ \A u \in Threads : ~InF(u, t) /\ ~InH(u, t)
      BY <2>3 DEF CInv, Lists, Apart
    <3>2. \A u \in Threads : ~InF(u, t)' /\ ~InH(u, t)'
      BY <1>3, <1>6, <3>1, OthersStay DEF Goes
    <3> QED
      BY <1>5, <1>6, <1>7, <2>3, <3>1, <3>2, Nowhere
  <2>4. \A x \in Threads \ S :
           /\ (InQ(x)' <=> InQ(x)) /\ (InC(x)' <=> InC(x))
           /\ (InF(t, x)' <=> InF(t, x)) /\ (InH(t, x)' <=> InH(t, x))
           /\ (synch'[x].queued <=> synch[x].queued) /\ StillWaits(x)
    BY <1>5, <1>6, <1>7, <1>8
  <2>5. \A x \in Threads \cap S : Apart(x)' /\ Placed(x)'
    BY <2>3
  <2> HIDE DEF S
  <2> QED
    BY <1>3, <1>7, <2>1, <2>2, <2>4, <2>5, Regroup DEF Goes, CInv
<1>10. Bits' /\ (mu_'.desig <=> mu_.desig)
  BY <1>2 DEF Bits, Free
<1>11. Desig'
  <2>1. \A x \in Threads : OnList(x)' => OnList(x)
    BY <1>3, <1>6, <1>7, OthersStay DEF OnList, Goes
  <2>2. Awake(t) => Awake(t)'
    BY <1>2, <1>3, <2>1 DEF Awake, OnList, Goes, MuWait, Waking
  <2> QED
    BY <1>3, <1>10, <2>1, <2>2, DesigMoves DEF CInv, Goes
<1>12. Searches'
  <2>1. \A u \in Threads \ {t} : loc[u].held = None
    BY <1>2 DEF MInv, Word, Calls, ThreadTypes
  <2>2. \A u \in Threads \ {t} : loc[u].oldh = None
    BY <2>1, NobodySearches
  <2> QED
    BY <1>3, <1>4, <2>2, SearchesNone DEF CInv, Goes
<1>13. Conds'
  <2>1. Cond(t)'
    BY <1>1, <1>2, <1>3, <1>5 DEF Before, Cond, Goes, InCalls, Releasing, Waking
  <2> QED
    BY <1>2, <1>3, <1>5, <2>1, CondsSimple DEF CInv, Goes
<1> QED
  BY <1>9, <1>10, <1>11, <1>12, <1>13 DEF CInv

LEMMA TailIs ==
  ASSUME NEW T, NEW s \in Seq(T), s # <<>>
  PROVE  /\ Tail(s) \in Seq(T) /\ s[1] \in T /\ s[1] \in ToSet(s)
         /\ \A x : x \in ToSet(s) <=> x = s[1] \/ x \in ToSet(Tail(s))
         /\ IsInjective(s) => IsInjective(Tail(s)) /\ s[1] \notin ToSet(Tail(s))
<1> DEFINE r == Tail(s)
<1>1. Len(s) \in Nat \ {0} /\ r \in Seq(T) /\ Len(r) = Len(s) - 1 /\ \A i \in 1..Len(r) : r[i] = s[i + 1]
  OBVIOUS
<1> HIDE DEF r
<1>2. 1 \in 1..Len(s) /\ s[1] \in T /\ s[1] \in ToSet(s)
  BY <1>1, SeqFacts
<1>3. ASSUME NEW x \in ToSet(s) PROVE x = s[1] \/ x \in ToSet(r)
  <2>1. PICK i \in 1..Len(s) : s[i] = x
    BY SeqFacts
  <2>2. i = 1 \/ (i - 1 \in 1..Len(r) /\ r[i - 1] = s[i])
    BY <1>1
  <2> QED
    BY <1>1, <2>1, <2>2, SeqFacts
<1>4. ASSUME NEW x \in ToSet(r) PROVE \E i \in 1..Len(s) : i > 1 /\ s[i] = x
  <2>1. PICK i \in 1..Len(r) : r[i] = x
    BY <1>1, SeqFacts
  <2>2. i + 1 \in 1..Len(s) /\ s[i + 1] = x /\ i + 1 > 1
    BY <1>1, <2>1
  <2> QED
    BY <2>2
<1>5. \A x \in ToSet(r) : x \in ToSet(s)
  <2> TAKE x \in ToSet(r)
  <2>1. PICK i \in 1..Len(s) : i > 1 /\ s[i] = x
    BY <1>4
  <2> QED
    BY <2>1, SeqFacts
<1>6. ASSUME IsInjective(s) PROVE IsInjective(r) /\ s[1] \notin ToSet(r)
  <2>1. \A i, j \in 1..Len(s) : s[i] = s[j] => i = j
    BY <1>6, SeqFacts
  <2>2. \A i, j \in 1..Len(r) : r[i] = r[j] => i = j
    BY <1>1, <2>1
  <2>3. IsInjective(r)
    BY <1>1, <2>2, SeqFacts
  <2>4. ASSUME s[1] \in ToSet(r) PROVE FALSE
    <3>1. PICK i \in 1..Len(s) : i > 1 /\ s[i] = s[1]
      BY <1>4, <2>4
    <3> QED
      BY <1>2, <2>1, <3>1
  <2> QED
    BY <2>3, <2>4
<1> QED
  BY <1>1, <1>2, <1>3, <1>5, <1>6 DEF r

\* Wakeup goes on.
LEMMA WakeNextKeepsLists ==
  ASSUME MInv, CInv, NEW t \in Threads, WakeNext(t) PROVE CInv'
<1>1. Before(t)
  BY BeforeStep
<1>2. loc[t].pc = "wakeNext" /\ UNCHANGED <<queue, cv, head, mu_, data>>
      /\ synch' = [synch EXCEPT ![loc[t].wakes[1]].next = FALSE]
  BY DEF WakeNext, At, shared
<1>3. Goes(t, "wakeState") /\ loc'[t].mode = loc[t].mode /\ loc'[t].timed = loc[t].timed
  BY <1>1 DEF WakeNext, Goto, Before, Goes, Alone, LocFields
<1>4. \A u \in Threads : synch'[u].how = synch[u].how /\ synch'[u].cond = synch[u].cond /\ synch'[u].queued = synch[u].queued
  BY <1>1, <1>2 DEF Before, SynchFields
<1>5. \A x : /\ (InF(t, x)' <=> InF(t, x)) /\ (InH(t, x)' <=> InH(t, x)) /\ (InQ(x)' <=> InQ(x)) /\ (InC(x)' <=> InC(x))
  BY <1>2, <1>3 DEF InF, InH, Hands, Goes, InQ, InC
<1>6. \A u \in Threads : StillWaits(u)
  <2>1. StillWaits(t)
    BY <1>2, <1>3 DEF StillWaits, CvWait, MuWait, Goes, Waking
  <2> QED
    BY <1>3, <2>1, OthersStay DEF Goes
<1>7. Lists'
  <2>1. Local(t)'
    BY <1>1, <1>2, <1>3 DEF Before, Local, Goes, Waking
  <2>2. cv' \in Seq(Threads) /\ IsInjective(cv') /\ queue' \in Seq(Threads) /\ IsInjective(queue')
    BY <1>2 DEF CInv, Lists
  <2> DEFINE S == {}
  <2>3. \A x \in Threads \ S :
           /\ (InQ(x)' <=> InQ(x)) /\ (InC(x)' <=> InC(x))
           /\ (InF(t, x)' <=> InF(t, x)) /\ (InH(t, x)' <=> InH(t, x))
           /\ (synch'[x].queued <=> synch[x].queued) /\ StillWaits(x)
    BY <1>4, <1>5, <1>6
  <2>4. \A x \in Threads \cap S : Apart(x)' /\ Placed(x)'
    OBVIOUS
  <2> HIDE DEF S
  <2> QED
    BY <1>3, <2>1, <2>2, <2>3, <2>4, Regroup DEF Goes, CInv
<1>8. Bits'
  BY <1>2 DEF CInv, Bits
<1>9. Desig'
  <2>1. \A x \in Threads : OnList(x)' => OnList(x)
    BY <1>3, <1>5, OthersStay DEF OnList, Goes
  <2>2. Awake(t) => Awake(t)'
    BY <1>2, <1>3, <2>1 DEF Awake, OnList, Goes, MuWait, Waking
  <2> QED
    BY <1>2, <1>3, <2>1, <2>2, DesigMoves DEF CInv, Goes
<1>10. Searches'
  <2>1. SearchKept(t)
    BY <1>1, <1>2, <1>3 DEF SearchKept, Goes, Releasing, Before, Searched
  <2> QED
    BY <1>2, <1>3, <1>4, <2>1, SearchesSimple DEF CInv, Goes
<1>11. Conds'
  <2>1. Cond(t)'
    BY <1>1, <1>2, <1>3, <1>4 DEF Before, Cond, Goes, InCalls, Releasing, Waking
  <2> QED
    BY <1>2, <1>3, <1>4, <2>1, CondsSimple DEF CInv, Goes
<1> QED
  BY <1>7, <1>8, <1>9, <1>10, <1>11 DEF CInv

LEMMA WakeStateKeepsLists ==
  ASSUME MInv, CInv, NEW t \in Threads, WakeState(t) PROVE CInv'
<1>1. Before(t)
  BY BeforeStep
<1>2. loc[t].pc = "wakeState" /\ UNCHANGED <<queue, cv, head, mu_, data>>
      /\ synch' = [synch EXCEPT ![loc[t].wakes[1]].queued = FALSE]
  BY DEF WakeState, At, shared
<1>3. Goes(t, "wakePost") /\ loc'[t].mode = loc[t].mode /\ loc'[t].timed = loc[t].timed
  BY <1>1 DEF WakeState, Goto, Before, Goes, Alone, LocFields
<1>4. loc[t].wakes \in Seq(Threads) /\ loc[t].wakes # <<>> /\ IsInjective(loc[t].wakes)
  BY <1>1, <1>2 DEF Before, Local, Waking
<1>5. PICK x \in Threads : /\ x = loc[t].wakes[1] /\ x \in ToSet(loc[t].wakes) /\ x \notin ToSet(Tail(loc[t].wakes))
                           /\ \A y : y \in ToSet(loc[t].wakes) <=> y = x \/ y \in ToSet(Tail(loc[t].wakes))
  BY <1>4, TailIs
<1>6. /\ \A u \in Threads : synch'[u].how = synch[u].how /\ synch'[u].cond = synch[u].cond
      /\ \A u \in Threads \ {x} : synch'[u].queued = synch[u].queued
      /\ ~synch'[x].queued
  BY <1>1, <1>2, <1>5 DEF Before, SynchFields
<1>7. \A y : /\ (InF(t, y)' <=> InF(t, y)) /\ (InQ(y)' <=> InQ(y)) /\ (InC(y)' <=> InC(y))
             /\ InH(t, y)' <=> InH(t, y) /\ y # x
  <2>1. Hands(t) = loc[t].wakes /\ Hands(t)' = Tail(loc[t].wakes)
    BY <1>2, <1>3 DEF Hands, Goes
  <2>2. \A y : InH(t, y)' <=> InH(t, y) /\ y # x
    BY <1>5, <2>1 DEF InH
  <2>3. \A y : (InF(t, y)' <=> InF(t, y)) /\ (InQ(y)' <=> InQ(y)) /\ (InC(y)' <=> InC(y))
    BY <1>2, <1>3 DEF InF, Goes, InQ, InC
  <2> QED
    BY <2>2, <2>3
<1>8. \A u \in Threads : StillWaits(u)
  <2>1. StillWaits(t)
    BY <1>2, <1>3 DEF StillWaits, CvWait, MuWait, Goes, Waking
  <2> QED
    BY <1>3, <2>1, OthersStay DEF Goes
<1>9. InH(t, x)
  BY <1>2, <1>5 DEF InH, Hands
<1>10. Lists'
  <2>1. Local(t)'
    BY <1>1, <1>2, <1>3 DEF Before, Local, Goes, Waking
  <2>2. cv' \in Seq(Threads) /\ IsInjective(cv') /\ queue' \in Seq(Threads) /\ IsInjective(queue')
    BY <1>2 DEF CInv, Lists
  <2>3. Apart(x)' /\ Placed(x)'
    <3>1. ~InQ(x) /\ ~InC(x) /\ \A u \in Threads : ~InF(u, x) /\ (InH(u, x) => u = t)
      BY <1>5, <1>9 DEF CInv, Lists, Apart
    <3>2. \A u \in Threads : ~InF(u, x)' /\ ~InH(u, x)'
      BY <1>3, <1>7, <3>1, OthersStay DEF Goes
    <3> QED
      BY <1>5, <1>6, <1>7, <3>1, <3>2, Nowhere
  <2> DEFINE S == {x}
  <2>4. \A y \in Threads \ S :
           /\ (InQ(y)' <=> InQ(y)) /\ (InC(y)' <=> InC(y))
           /\ (InF(t, y)' <=> InF(t, y)) /\ (InH(t, y)' <=> InH(t, y))
           /\ (synch'[y].queued <=> synch[y].queued) /\ StillWaits(y)
    BY <1>6, <1>7, <1>8
  <2>5. \A y \in Threads \cap S : Apart(y)' /\ Placed(y)'
    BY <2>3
  <2> HIDE DEF S
  <2> QED
    BY <1>3, <2>1, <2>2, <2>4, <2>5, Regroup DEF Goes, CInv
<1>11. Bits'
  BY <1>2 DEF CInv, Bits
<1>12. Desig'
  <2>1. \A y \in Threads : OnList(y)' => OnList(y)
    BY <1>3, <1>7, OthersStay DEF OnList, Goes
  <2>2. Awake(t) => Awake(t)'
    BY <1>2, <1>3, <2>1 DEF Awake, OnList, Goes, MuWait, Waking
  <2> QED
    BY <1>2, <1>3, <2>1, <2>2, DesigMoves DEF CInv, Goes
<1>13. Searches'
  <2>1. SearchKept(t)
    BY <1>1, <1>2, <1>3 DEF SearchKept, Goes, Releasing, Before, Searched
  <2> QED
    BY <1>2, <1>3, <1>6, <2>1, SearchesSimple DEF CInv, Goes
<1>14. Conds'
  <2>1. Cond(t)'
    BY <1>1, <1>2, <1>3, <1>6 DEF Before, Cond, Goes, InCalls, Releasing, Waking
  <2> QED
    BY <1>2, <1>3, <1>6, <2>1, CondsSimple DEF CInv, Goes
<1> QED
  BY <1>10, <1>11, <1>12, <1>13, <1>14 DEF CInv

LEMMA WakePostKeepsLists ==
  ASSUME MInv, CInv, NEW t \in Threads, WakePost(t) PROVE CInv'
<1> DEFINE l == [loc[t] EXCEPT !.wakes = Tail(@)]
           more == [l EXCEPT !.pc = "wakeNext"]
           done == [l EXCEPT !.pc = l.mode, !.mode = "unlock"]
           rest == Tail(loc[t].wakes)
<1>1. Before(t)
  BY BeforeStep
<1>2. loc[t].pc = "wakePost" /\ UNCHANGED <<queue, cv, head, mu_, data>>
      /\ synch' = [synch EXCEPT ![loc[t].wakes[1]].sem = @ + 1]
  BY DEF WakePost, At, shared
<1>3. l.wakes = rest /\ DOMAIN l = LocFields /\ l.fer = loc[t].fer /\ l.oldh = loc[t].oldh /\ l.w = loc[t].w
      /\ l.pw = loc[t].pw /\ l.op = loc[t].op /\ l.mode = loc[t].mode /\ l.timed = loc[t].timed /\ l.held = loc[t].held
  BY <1>1 DEF Before, LocFields
<1>4. loc' = [loc EXCEPT ![t] = IF l.wakes # <<>> THEN more ELSE done]
  BY DEF WakePost
<1> HIDE DEF l
<1>5. more.pc = "wakeNext" /\ more.mode = loc[t].mode /\ more.wakes = rest /\ more.fer = loc[t].fer
      /\ more.oldh = loc[t].oldh /\ more.w = loc[t].w /\ more.pw = loc[t].pw /\ more.op = loc[t].op
      /\ more.timed = loc[t].timed /\ more.held = loc[t].held
  BY <1>3 DEF LocFields
<1>6. done.pc = loc[t].mode /\ done.mode = "unlock" /\ done.wakes = rest /\ done.fer = loc[t].fer
      /\ done.oldh = loc[t].oldh /\ done.w = loc[t].w /\ done.pw = loc[t].pw /\ done.op = loc[t].op
      /\ done.timed = loc[t].timed /\ done.held = loc[t].held
  BY <1>3 DEF LocFields
<1> HIDE DEF more, done
<1>7. /\ Alone(t) /\ loc'[t].wakes = rest /\ loc'[t].fer = loc[t].fer /\ loc'[t].op = loc[t].op
      /\ loc'[t].oldh = loc[t].oldh /\ loc'[t].w = loc[t].w /\ loc'[t].pw = loc[t].pw /\ loc'[t].timed = loc[t].timed
      /\ \/ rest # <<>> /\ loc'[t].pc = "wakeNext" /\ loc'[t].mode = loc[t].mode
         \/ rest = <<>> /\ loc'[t].pc = loc[t].mode
  <2>1. Alone(t) /\ loc'[t] = IF rest # <<>> THEN more ELSE done
    BY <1>1, <1>3, <1>4 DEF Before, Alone
  <2>2. CASE rest # <<>>
    BY <1>5, <2>1, <2>2
  <2>3. CASE rest = <<>>
    BY <1>6, <2>1, <2>3
  <2> QED
    BY <2>2, <2>3
<1>8. loc[t].mode \in {"run", "block", "cvblock", "fer"}
  BY <1>1, <1>2 DEF Before, Waking
<1>9. loc[t].wakes \in Seq(Threads) /\ loc[t].wakes # <<>> /\ IsInjective(loc[t].wakes)
  BY <1>1, <1>2 DEF Before, Local, Waking
<1>10. rest \in Seq(Threads) /\ IsInjective(rest)
  BY <1>9, TailIs
<1> HIDE DEF rest
<1>11. \A u \in Threads : synch'[u].how = synch[u].how /\ synch'[u].cond = synch[u].cond /\ synch'[u].queued = synch[u].queued
  BY <1>1, <1>2 DEF Before, SynchFields
<1>12. \A x : /\ (InF(t, x)' <=> InF(t, x)) /\ (InH(t, x)' <=> InH(t, x)) /\ (InQ(x)' <=> InQ(x)) /\ (InC(x)' <=> InC(x))
  <2>1. Hands(t) = rest /\ Hands(t)' = rest
    BY <1>2, <1>7, <1>8 DEF Hands, rest
  <2> QED
    BY <1>2, <1>7, <2>1 DEF InF, InH, InQ, InC
<1>13. (CvWait(t)' <=> CvWait(t)) /\ (MuWait(t)' <=> MuWait(t))
  BY <1>2, <1>7, <1>8 DEF CvWait, MuWait, Waking
<1>14. \A u \in Threads : StillWaits(u)
  BY <1>7, <1>13, OthersStay DEF StillWaits
<1>15. Lists'
  <2>1. Local(t)'
    <3>1. loc[t].fer \in Seq(Threads) /\ IsInjective(loc[t].fer) /\ (loc[t].fer # <<>> => loc[t].mode = "fer")
      BY <1>1, <1>2 DEF Before, Local
    <3>2. loc'[t].fer \in Seq(Threads) /\ IsInjective(loc'[t].fer) /\ loc'[t].wakes \in Seq(Threads) /\ IsInjective(loc'[t].wakes)
      BY <1>7, <1>10, <3>1
    <3>3. loc'[t].pc \in Waking <=> loc'[t].wakes # <<>>
      BY <1>7, <1>8 DEF Waking
    <3>4. loc'[t].fer # <<>> => \/ loc'[t].pc \in {"fer", "ferqueue"}
                                \/ loc'[t].pc \in Waking /\ loc'[t].mode = "fer"
      BY <1>7, <3>1 DEF Waking
    <3>5. loc'[t].pc # "ferqueue"
      BY <1>7, <1>8
    <3> QED
      BY ONLY <3>2, <3>3, <3>4, <3>5 DEF Local
  <2>2. cv' \in Seq(Threads) /\ IsInjective(cv') /\ queue' \in Seq(Threads) /\ IsInjective(queue')
    BY <1>2 DEF CInv, Lists
  <2> DEFINE S == {}
  <2>3. \A x \in Threads \ S :
           /\ (InQ(x)' <=> InQ(x)) /\ (InC(x)' <=> InC(x))
           /\ (InF(t, x)' <=> InF(t, x)) /\ (InH(t, x)' <=> InH(t, x))
           /\ (synch'[x].queued <=> synch[x].queued) /\ StillWaits(x)
    BY <1>11, <1>12, <1>14
  <2>4. \A x \in Threads \cap S : Apart(x)' /\ Placed(x)'
    OBVIOUS
  <2> HIDE DEF S
  <2> QED
    BY <1>7, <2>1, <2>2, <2>3, <2>4, Regroup DEF CInv
<1>16. Bits'
  BY <1>2 DEF CInv, Bits
<1>17. Desig'
  <2>1. \A x \in Threads : OnList(x)' => OnList(x)
    BY <1>7, <1>12, OthersStay DEF OnList
  <2>2. Awake(t) => Awake(t)'
    <3>1. Resting(t) => Resting(t)'
      BY <1>2, <1>7, <1>8, <1>13 DEF Resting, Waking
    <3>2. ~Returning(t)
      BY <1>2 DEF Returning
    <3> QED
      BY <2>1, <3>1, <3>2 DEF Awake, Returning, Resting, OnList
  <2> QED
    BY <1>2, <1>7, <2>1, <2>2, DesigMoves DEF CInv
<1>18. Searches'
  <2>1. SearchKept(t)
    BY <1>1, <1>2, <1>7 DEF SearchKept, Releasing, Before, Searched
  <2> QED
    BY <1>2, <1>7, <1>11, <2>1, SearchesSimple DEF CInv
<1>19. Conds'
  <2>1. Cond(t)'
    <3>1. /\ loc[t].op # "none" => loc[t].mode = "block"
          /\ loc[t].op \in Sure => ~loc[t].timed /\ synch[t].cond = "data"
      BY <1>1, <1>2 DEF Before, Cond, InCalls, Releasing, Waking
    <3>2. "none" \notin Sure
      BY DEF Sure
    <3> QED
      BY <1>7, <1>8, <1>11, <3>1, <3>2 DEF Cond, InCalls, Waking
  <2> QED
    BY <1>2, <1>7, <1>11, <2>1, CondsSimple DEF CInv
<1> QED
  BY <1>15, <1>16, <1>17, <1>18, <1>19 DEF CInv

-----------------------------------------------------------------------------
(* Signallers.                                                             *)

LEMMA SignalKeepsLists ==
  ASSUME MInv, CInv, NEW t \in Threads, Signal(t) PROVE CInv'
<1>1. Before(t)
  BY BeforeStep
<1>2. loc[t].pc = "run" /\ UNCHANGED <<queue, head, mu_, synch, data>>
  BY DEF Signal, Starts, At, shared
<1>3. cv \in Seq(Threads) /\ IsInjective(cv) /\ Len(cv) \in Nat
  BY DEF CInv, Lists
<1>4. PICK n \in 0..Len(cv) :
        /\ cv' = SubSeq(cv, n + 1, Len(cv))
        /\ loc' = [loc EXCEPT ![t] = [Idle EXCEPT !.held = loc[t].held,
                      !.fer = SubSeq(cv, 1, n), !.pc = IF n = 0 THEN "run" ELSE "fer"]]
  <2> DEFINE k == IF Head(prog[t]) = "Signal" /\ cv # <<>> THEN 1 ELSE Len(cv)
  <2>1. k \in 0..Len(cv)
    BY <1>3, SeqFacts
  <2> QED
    BY <2>1 DEF Signal
<1>5. PICK taken : taken = SubSeq(cv, 1, n)
  OBVIOUS
<1>6. /\ taken \in Seq(Threads) /\ IsInjective(taken)
      /\ \A x : x \in ToSet(taken) <=> \E i \in 1..Len(cv) : i =< n /\ cv[i] = x
  <2>1. /\ taken \in Seq(Threads) /\ IsInjective(taken)
        /\ \A x : x \in ToSet(taken) <=> \E i \in 1..Len(cv) : 1 =< i /\ i =< n /\ cv[i] = x
    BY <1>3, <1>5, SubSeqIs
  <2>2. \A i \in 1..Len(cv) : 1 =< i
    BY <1>3
  <2> QED
    BY <2>1, <2>2
<1>7. /\ cv' \in Seq(Threads) /\ IsInjective(cv')
      /\ \A x : InC(x)' <=> \E i \in 1..Len(cv) : n + 1 =< i /\ cv[i] = x
  <2> DEFINE r == SubSeq(cv, n + 1, Len(cv))
  <2>1. n + 1 \in 1..Len(cv) + 1 /\ Len(cv) \in 0..Len(cv)
    BY <1>3
  <2>2. /\ r \in Seq(Threads) /\ IsInjective(r)
        /\ \A x : x \in ToSet(r) <=> \E i \in 1..Len(cv) : n + 1 =< i /\ i =< Len(cv) /\ cv[i] = x
    BY <1>3, <2>1, SubSeqIs
  <2> HIDE DEF r
  <2>3. cv' = r
    BY <1>4 DEF r
  <2>4. \A i \in 1..Len(cv) : i =< Len(cv)
    BY <1>3
  <2> QED
    BY <2>2, <2>3, <2>4 DEF InC
<1>8. \A x : InC(x) <=> \E i \in 1..Len(cv) : cv[i] = x
  BY <1>3, SeqFacts DEF InC
<1>9. \A x : /\ InC(x) <=> InC(x)' \/ x \in ToSet(taken)
             /\ ~(InC(x)' /\ x \in ToSet(taken))
  <2>1. \A i \in 1..Len(cv) : n + 1 =< i <=> ~(i =< n)
    BY <1>3
  <2>2. \A i, j \in 1..Len(cv) : cv[i] = cv[j] => i = j
    BY <1>3, SeqFacts
  <2> QED
    BY <1>6, <1>7, <1>8, <2>1, <2>2
<1>10. /\ Alone(t) /\ loc'[t].fer = taken /\ loc'[t].wakes = <<>> /\ loc'[t].op = "none" /\ loc'[t].oldh = None
       /\ loc'[t].w = None /\ loc'[t].pw = None /\ loc'[t].pc = IF n = 0 THEN "run" ELSE "fer"
  <2> DEFINE l == [Idle EXCEPT !.held = loc[t].held, !.fer = SubSeq(cv, 1, n), !.pc = IF n = 0 THEN "run" ELSE "fer"]
  <2>1. l.fer = taken /\ l.wakes = <<>> /\ l.op = "none" /\ l.oldh = None
        /\ l.w = None /\ l.pw = None /\ l.pc = IF n = 0 THEN "run" ELSE "fer"
    BY <1>5 DEF Idle
  <2>2. loc' = [loc EXCEPT ![t] = l]
    BY <1>4
  <2> HIDE DEF l
  <2> QED
    BY <1>1, <2>1, <2>2 DEF Before, Alone
<1>11. loc[t].fer = <<>> /\ loc[t].wakes = <<>> /\ ~CvWait(t) /\ ~MuWait(t) /\ ~InC(t) /\ ~Awake(t)
  <2>1. loc[t].fer = <<>> /\ loc[t].wakes = <<>> /\ ~CvWait(t) /\ ~MuWait(t) /\ ~Resting(t)
    BY <1>1, <1>2, AtRun
  <2>2. ~InC(t)
    BY <1>1, <2>1, NotWaiting
  <2> QED
    BY <1>2, <2>1, <2>2, AwakeIs DEF Returning
<1>12. \A x : /\ InF(t, x)' <=> x \in ToSet(taken)
              /\ ~InF(t, x) /\ ~InH(t, x) /\ ~InH(t, x)' /\ (InQ(x)' <=> InQ(x))
  <2>1. \A x : x \notin ToSet(<<>>)
    BY NoneIs
  <2> QED
    BY <1>2, <1>10, <1>11, <2>1 DEF InF, InH, Hands, InQ
<1>13. Lists'
  <2>1. Local(t)'
    <3>1. <<>> \in Seq(Threads) /\ IsInjective(<<>>)
      BY NoneIs
    <3>2. n = 0 => taken = <<>>
      BY <1>5
    <3> QED
      BY <1>6, <1>10, <3>1, <3>2 DEF Local, Waking
  <2>2. queue' \in Seq(Threads) /\ IsInjective(queue')
    BY <1>2 DEF CInv, Lists
  <2>3. PICK S : S = ToSet(taken)
    OBVIOUS
  <2>4. \A x \in Threads \ S :
           /\ (InQ(x)' <=> InQ(x)) /\ (InC(x)' <=> InC(x))
           /\ (InF(t, x)' <=> InF(t, x)) /\ (InH(t, x)' <=> InH(t, x))
           /\ (synch'[x].queued <=> synch[x].queued) /\ StillWaits(x)
    <3>1. StillWaits(t)
      BY <1>11 DEF StillWaits
    <3> QED
      BY <1>2, <1>9, <1>10, <1>12, <2>3, <3>1, OthersStay
  <2>5. ASSUME NEW x \in Threads \cap S PROVE Apart(x)' /\ Placed(x)'
    <3>1. InC(x) /\ ~InC(x)' /\ InF(t, x)' /\ ~InH(t, x)' /\ x # t
      BY <1>9, <1>11, <1>12, <2>3, <2>5
    <3>2. ~InQ(x) /\ (\A u \in Threads : ~InF(u, x) /\ ~InH(u, x)) /\ synch[x].queued /\ CvWait(x)
      BY <3>1 DEF CInv, Lists, Apart, Placed
    <3>3. \A u \in Threads : (InF(u, x)' => u = t) /\ ~InH(u, x)'
      BY <1>10, <3>1, <3>2, OthersStay
    <3>4. CvWait(x)'
      BY <1>10, <3>1, <3>2, OthersStay
    <3> QED
      BY <1>2, <1>12, <3>1, <3>2, <3>3, <3>4, WithSignaller
  <2> QED
    BY <1>7, <1>10, <2>1, <2>2, <2>4, <2>5, Regroup DEF CInv
<1>14. Bits'
  BY <1>2 DEF CInv, Bits
<1>15. Desig'
  <2>1. \A x \in Threads \ {t} : OnList(x)' => OnList(x)
    BY <1>9, <1>10, <1>12, OthersStay DEF OnList
  <2> QED
    BY <1>2, <1>10, <1>11, <2>1, DesigMoves DEF CInv
<1>16. Searches'
  <2>1. SearchKept(t)
    BY <1>10 DEF SearchKept
  <2> QED
    BY <1>2, <1>10, <2>1, SearchesSimple DEF CInv
<1>17. Conds'
  <2>1. Cond(t)'
    BY <1>10 DEF Cond, Sure
  <2> QED
    BY <1>2, <1>10, <2>1, CondsSimple DEF CInv
<1> QED
  BY <1>13, <1>14, <1>15, <1>16, <1>17 DEF CInv

\* The first waiter that a signaller has in hand.
LEMMA FirstInHand ==
  ASSUME MInv, CInv, NEW t \in Threads, loc[t].pc \in {"fer", "ferqueue"}, loc[t].fer # <<>>
  PROVE  \E x \in Threads :
           /\ x = loc[t].fer[1] /\ x # t /\ Tail(loc[t].fer) \in Seq(Threads) /\ IsInjective(Tail(loc[t].fer))
           /\ \A y : y \in ToSet(loc[t].fer) <=> y = x \/ y \in ToSet(Tail(loc[t].fer))
           /\ x \notin ToSet(Tail(loc[t].fer))
           /\ InF(t, x) /\ ~InQ(x) /\ ~InC(x) /\ \A u \in Threads : ~InH(u, x) /\ (u # t => ~InF(u, x))
           /\ CvWait(x) /\ synch[x].queued /\ loc[x].op = "none"
           /\ loc[t].wakes = <<>> /\ ~CvWait(t) /\ ~MuWait(t) /\ ~Awake(t) /\ loc[t].op = "none"
           /\ loc[t].oldh = None /\ loc[t].w = None /\ loc[t].pw = None
<1>1. Before(t)
  BY BeforeStep
<1>2. loc[t].fer \in Seq(Threads) /\ IsInjective(loc[t].fer)
  BY <1>1 DEF Before, Local
<1>3. PICK x \in Threads :
           /\ x = loc[t].fer[1] /\ x \in ToSet(loc[t].fer)
           /\ Tail(loc[t].fer) \in Seq(Threads) /\ IsInjective(Tail(loc[t].fer))
           /\ \A y : y \in ToSet(loc[t].fer) <=> y = x \/ y \in ToSet(Tail(loc[t].fer))
           /\ x \notin ToSet(Tail(loc[t].fer))
  BY <1>2, TailIs
<1>4. InF(t, x)
  BY <1>3 DEF InF
<1>5. ~InQ(x) /\ ~InC(x) /\ (\A u \in Threads : ~InH(u, x) /\ (u # t => ~InF(u, x))) /\ CvWait(x) /\ synch[x].queued
  BY <1>3, <1>4 DEF CInv, Lists, Apart, Placed
<1>6. ~CvWait(t) /\ ~MuWait(t) /\ loc[t].wakes = <<>> /\ ~Awake(t)
  BY <1>1 DEF CvWait, MuWait, Before, Local, Waking, Awake
<1>7. loc[t].op = "none" /\ loc[t].oldh = None /\ loc[t].w = None /\ loc[t].pw = None
  BY <1>1 DEF Before, Cond, Searched, InCalls, Releasing, Waking
<1>8. loc[x].op = "none"
  <2>1. Cond(x)
    BY <1>3 DEF CInv, Conds
  <2> QED
    BY <1>5, <2>1 DEF Cond, CvWait, InCalls, Releasing, Waking
<1> QED
  BY <1>3, <1>4, <1>5, <1>6, <1>7, <1>8

LEMMA FerWakeKeepsLists ==
  ASSUME MInv, CInv, NEW t \in Threads, FerWake(t) PROVE CInv'
<1>1. Before(t)
  BY BeforeStep
<1>2. loc[t].pc = "fer" /\ loc[t].fer # <<>> /\ UNCHANGED <<queue, head, mu_, cv, data>>
      /\ synch' = [synch EXCEPT ![loc[t].fer[1]].next = FALSE]
  BY DEF FerWake, Fers, At, shared
<1>3. PICK x \in Threads :
           /\ x = loc[t].fer[1] /\ x # t /\ Tail(loc[t].fer) \in Seq(Threads) /\ IsInjective(Tail(loc[t].fer))
           /\ \A y : y \in ToSet(loc[t].fer) <=> y = x \/ y \in ToSet(Tail(loc[t].fer))
           /\ x \notin ToSet(Tail(loc[t].fer))
           /\ InF(t, x) /\ ~InQ(x) /\ ~InC(x) /\ \A u \in Threads : ~InH(u, x) /\ (u # t => ~InF(u, x))
           /\ CvWait(x) /\ synch[x].queued /\ loc[x].op = "none"
           /\ loc[t].wakes = <<>> /\ ~CvWait(t) /\ ~MuWait(t) /\ ~Awake(t) /\ loc[t].op = "none"
           /\ loc[t].oldh = None /\ loc[t].w = None /\ loc[t].pw = None
  BY <1>2, FirstInHand
<1>4. /\ Alone(t) /\ loc'[t].pc = "wakeState" /\ loc'[t].mode = "fer" /\ loc'[t].wakes = <<x>>
      /\ loc'[t].fer = Tail(loc[t].fer) /\ loc'[t].op = "none"
      /\ loc'[t].oldh = None /\ loc'[t].w = None /\ loc'[t].pw = None
  BY <1>1, <1>3 DEF FerWake, Before, Alone, LocFields
<1>5. \A u \in Threads : synch'[u].how = synch[u].how /\ synch'[u].cond = synch[u].cond /\ synch'[u].queued = synch[u].queued
  BY <1>1, <1>2 DEF Before, SynchFields
<1>6. <<x>> \in Seq(Threads) /\ ToSet(<<x>>) = {x} /\ IsInjective(<<x>>) /\ <<x>> # <<>>
  BY OneIs
<1>7. \A y : /\ InF(t, y)' <=> InF(t, y) /\ y # x
             /\ ~InH(t, y) /\ (InH(t, y)' <=> y = x) /\ (InQ(y)' <=> InQ(y)) /\ (InC(y)' <=> InC(y))
  <2>1. \A y : y \notin ToSet(<<>>)
    BY NoneIs
  <2> QED
    BY <1>2, <1>3, <1>4, <1>6, <2>1 DEF InF, InH, Hands, InQ, InC
<1>8. Lists'
  <2>1. Local(t)'
    BY <1>3, <1>4, <1>6 DEF Local, Waking
  <2>2. queue' \in Seq(Threads) /\ IsInjective(queue') /\ cv' \in Seq(Threads) /\ IsInjective(cv')
    BY <1>2 DEF CInv, Lists
  <2>3. Apart(x)' /\ Placed(x)'
    <3>1. \A u \in Threads : (InH(u, x)' => u = t) /\ ~InF(u, x)'
      BY <1>3, <1>4, <1>7, OthersStay
    <3>2. CvWait(x)'
      BY <1>3, <1>4, OthersStay
    <3> QED
      BY <1>3, <1>5, <1>7, <3>1, <3>2, InHand
  <2> DEFINE S == {x}
  <2>4. \A y \in Threads \ S :
           /\ (InQ(y)' <=> InQ(y)) /\ (InC(y)' <=> InC(y))
           /\ (InF(t, y)' <=> InF(t, y)) /\ (InH(t, y)' <=> InH(t, y))
           /\ (synch'[y].queued <=> synch[y].queued) /\ StillWaits(y)
    <3>1. StillWaits(t)
      BY <1>3 DEF StillWaits
    <3> QED
      BY <1>4, <1>5, <1>7, <3>1, OthersStay
  <2>5. \A y \in Threads \cap S : Apart(y)' /\ Placed(y)'
    BY <2>3
  <2> HIDE DEF S
  <2> QED
    BY <1>4, <2>1, <2>2, <2>4, <2>5, Regroup DEF CInv
<1>9. Bits'
  BY <1>2 DEF CInv, Bits
<1>10. Desig'
  <2>1. \A y \in Threads : OnList(y)' => OnList(y)
    BY <1>4, <1>7, OthersStay DEF OnList
  <2> QED
    BY <1>2, <1>3, <1>4, <2>1, DesigMoves DEF CInv
<1>11. Searches'
  <2>1. SearchKept(t)
    BY <1>4 DEF SearchKept
  <2> QED
    BY <1>2, <1>4, <1>5, <2>1, SearchesSimple DEF CInv
<1>12. Conds'
  <2>1. Cond(t)'
    BY <1>4 DEF Cond, Sure
  <2> QED
    BY <1>2, <1>4, <1>5, <2>1, CondsSimple DEF CInv
<1> QED
  BY <1>8, <1>9, <1>10, <1>11, <1>12 DEF CInv

\* A signaller has put x on the queue of the mutex.
LEMMA Transferred ==
  ASSUME MInv, CInv, NEW t \in Threads, UNCHANGED <<cv, data>>, loc[t].pc \in {"fer", "ferqueue"}, loc[t].fer # <<>>,
         Alone(t), loc'[t].pc = "fer", loc'[t].fer = Tail(loc[t].fer), loc'[t].wakes = loc[t].wakes,
         loc'[t].op = loc[t].op, loc'[t].oldh = loc[t].oldh, loc'[t].w = loc[t].w, loc'[t].pw = loc[t].pw,
         NEW x, x = loc[t].fer[1], NEW how, synch' = [synch EXCEPT ![x] = Queued(@, how, None)],
         queue' \in Seq(Threads), x \notin ToSet(queue) => IsInjective(queue'), ToSet(queue') = ToSet(queue) \cup {x},
         mu_'.wait, mu_'.wrwait => mu_.wrwait, mu_'.desig => mu_.desig,
         \/ \A u \in Threads : loc[u].oldh = None
         \/ /\ head'.unlocking <=> head.unlocking
            /\ queue' = Enqueue(queue, x, how, None, FALSE, head.unlocking)
  PROVE  CInv'
<1>1. Before(t)
  BY BeforeStep
<1>2. /\ x \in Threads /\ x # t /\ Tail(loc[t].fer) \in Seq(Threads) /\ IsInjective(Tail(loc[t].fer))
      /\ \A y : y \in ToSet(loc[t].fer) <=> y = x \/ y \in ToSet(Tail(loc[t].fer))
      /\ x \notin ToSet(Tail(loc[t].fer))
      /\ InF(t, x) /\ ~InQ(x) /\ ~InC(x) /\ \A u \in Threads : ~InH(u, x) /\ (u # t => ~InF(u, x))
      /\ CvWait(x) /\ synch[x].queued /\ loc[x].op = "none"
      /\ loc[t].wakes = <<>> /\ ~CvWait(t) /\ ~MuWait(t) /\ ~Awake(t) /\ loc[t].op = "none"
      /\ loc[t].oldh = None /\ loc[t].w = None /\ loc[t].pw = None
  <2>1. PICK z \in Threads :
           /\ z = loc[t].fer[1] /\ z # t /\ Tail(loc[t].fer) \in Seq(Threads) /\ IsInjective(Tail(loc[t].fer))
           /\ \A y : y \in ToSet(loc[t].fer) <=> y = z \/ y \in ToSet(Tail(loc[t].fer))
           /\ z \notin ToSet(Tail(loc[t].fer))
           /\ InF(t, z) /\ ~InQ(z) /\ ~InC(z) /\ \A u \in Threads : ~InH(u, z) /\ (u # t => ~InF(u, z))
           /\ CvWait(z) /\ synch[z].queued /\ loc[z].op = "none"
           /\ loc[t].wakes = <<>> /\ ~CvWait(t) /\ ~MuWait(t) /\ ~Awake(t) /\ loc[t].op = "none"
           /\ loc[t].oldh = None /\ loc[t].w = None /\ loc[t].pw = None
    BY FirstInHand
  <2>2. z = x
    BY <2>1
  <2> QED
    BY ONLY <2>1, <2>2
<1>3. Alone(t) /\ loc'[t].pc = "fer"
  OBVIOUS
<1>4. synch'[x].queued /\ synch'[x].how = how /\ synch'[x].cond = None
      /\ \A u \in Threads \ {x} : synch'[u] = synch[u]
  BY <1>1, <1>2, QueuedIs DEF Before
<1>5. \A y : /\ InF(t, y)' <=> InF(t, y) /\ y # x
             /\ ~InH(t, y) /\ ~InH(t, y)' /\ (InC(y)' <=> InC(y))
             /\ InQ(y)' <=> InQ(y) \/ y = x
  <2>1. \A y : y \notin ToSet(<<>>)
    BY NoneIs
  <2> QED
    BY <1>2, <1>3, <2>1 DEF InF, InH, Hands, InQ, InC
<1>6. Lists'
  <2>1. Local(t)'
    <3>1. <<>> \in Seq(Threads) /\ IsInjective(<<>>)
      BY NoneIs
    <3> QED
      BY <1>2, <1>3, <3>1 DEF Local, Waking
  <2>2. \A u \in Threads : ~InF(u, x)' /\ ~InH(u, x)'
    BY <1>2, <1>3, <1>5, OthersStay
  <2>3. \A y \in Threads \ {x} : (InF(t, y)' <=> InF(t, y)) /\ (InH(t, y)' <=> InH(t, y))
                                  /\ (synch'[y].queued <=> synch[y].queued) /\ StillWaits(y)
    <3>1. StillWaits(t)
      BY <1>2 DEF StillWaits
    <3> QED
      BY <1>3, <1>4, <1>5, <3>1, OthersStay
  <2>4. IsInjective(queue') /\ CvWait(x)'
    BY <1>2, <1>3, OthersStay DEF InQ
  <2> QED
    BY <1>2, <1>3, <1>4, <2>1, <2>2, <2>3, <2>4, ListsEnqueued DEF CInv
<1>7. Bits'
  <2>1. queue' # <<>>
    BY NoneIs
  <2> QED
    BY <2>1 DEF Bits
<1>8. Desig'
  <2>1. \A y \in Threads : OnList(y)' => OnList(y)
    BY <1>2, <1>3, <1>5, OthersStay DEF OnList
  <2> QED
    BY <1>2, <1>3, <2>1, DesigMoves DEF CInv
<1>9. Searches'
  <2>1. CASE \A u \in Threads : loc[u].oldh = None
    BY <1>2, <1>3, <2>1, SearchesNone DEF CInv
  <2>2. CASE /\ head'.unlocking <=> head.unlocking
             /\ queue' = Enqueue(queue, x, how, None, FALSE, head.unlocking)
    <3>1. x \in Threads /\ ~InQ(x) /\ Lists /\ Searches /\ Alone(t)
          /\ loc'[t].oldh = None /\ loc'[t].w = None /\ loc'[t].pw = None
      BY <1>2 DEF CInv
    <3>2. \A u \in Threads \ {x} : synch'[u].how = synch[u].how /\ synch'[u].cond = synch[u].cond
      BY ONLY <1>4
    <3> QED
      BY ONLY <1>4, <2>2, <3>1, <3>2, t \in Threads, SearchesGrow
  <2> QED
    BY <2>1, <2>2
<1>10. Conds'
  <2>1. Cond(t)'
    BY <1>2, <1>3 DEF Cond, Sure
  <2> QED
    BY <1>2, <1>3, <1>4, <2>1, CondsSimple DEF CInv
<1> QED
  BY <1>6, <1>7, <1>8, <1>9, <1>10 DEF CInv

LEMMA FerAloneKeepsLists ==
  ASSUME MInv, CInv, NEW t \in Threads, FerAlone(t) PROVE CInv'
<1>1. Before(t)
  BY BeforeStep
<1>2. PICK x : x = loc[t].fer[1]
  OBVIOUS
<1>3. PICK how : how = synch[x].how
  OBVIOUS
<1>4. loc[t].pc = "fer" /\ loc[t].fer # <<>> /\ UNCHANGED <<cv, data>> /\ ~mu_.wait
      /\ queue' = <<x>> /\ synch' = [synch EXCEPT ![x] = Queued(@, how, None)]
  BY <1>2, <1>3 DEF FerAlone, Fers, At
<1>5. /\ Alone(t) /\ loc'[t].pc = "fer" /\ loc'[t].fer = Tail(loc[t].fer) /\ loc'[t].wakes = loc[t].wakes
      /\ loc'[t].op = loc[t].op /\ loc'[t].oldh = loc[t].oldh /\ loc'[t].w = loc[t].w /\ loc'[t].pw = loc[t].pw
  BY <1>1, <1>4 DEF FerAlone, Before, Alone, LocFields
<1>6. mu_'.wait /\ (mu_'.wrwait => mu_.wrwait) /\ (mu_'.desig => mu_.desig)
  BY <1>1 DEF FerAlone, Before, BitFields
<1>7. x \in Threads
  <2>1. loc[t].fer \in Seq(Threads)
    BY <1>1 DEF Before, Local
  <2> QED
    BY <1>2, <1>4, <2>1, TailIs
<1>8. queue' \in Seq(Threads) /\ IsInjective(queue') /\ ToSet(queue') = ToSet(queue) \cup {x}
  <2>1. queue = <<>>
    BY <1>4 DEF CInv, Bits
  <2> QED
    BY <1>4, <1>7, <2>1, OneIs, NoneIs
<1>9. \A u \in Threads : loc[u].oldh = None
  BY <1>4, NobodySearches
<1> QED
  BY ONLY MInv, CInv, t \in Threads, <1>2, <1>4, <1>5, <1>6, <1>8, <1>9, Transferred

LEMMA FerQueueKeepsLists ==
  ASSUME MInv, CInv, NEW t \in Threads, FerQueue(t) PROVE CInv'
<1>1. Before(t)
  BY BeforeStep
<1>2. PICK x : x = loc[t].fer[1]
  OBVIOUS
<1>3. PICK how : how = synch[x].how
  OBVIOUS
<1>4. loc[t].pc = "ferqueue" /\ UNCHANGED <<head, cv, data>>
      /\ queue' = Enqueue(queue, x, how, None, FALSE, head.unlocking) /\ synch' = [synch EXCEPT ![x] = Queued(@, how, None)]
  BY <1>2, <1>3 DEF FerQueue, At
<1>5. loc[t].fer \in Seq(Threads) /\ loc[t].fer # <<>>
  BY <1>1, <1>4 DEF Before, Local
<1>6. /\ Alone(t) /\ loc'[t].pc = "fer" /\ loc'[t].fer = Tail(loc[t].fer) /\ loc'[t].wakes = loc[t].wakes
      /\ loc'[t].op = loc[t].op /\ loc'[t].oldh = loc[t].oldh /\ loc'[t].w = loc[t].w /\ loc'[t].pw = loc[t].pw
  BY <1>1, <1>4 DEF FerQueue, Before, Alone, LocFields
<1>7. mu_'.wait /\ (mu_'.wrwait => mu_.wrwait) /\ (mu_'.desig => mu_.desig)
  BY <1>1 DEF FerQueue, Before, BitFields
<1>8. x \in Threads
  BY <1>2, <1>5, TailIs
<1>9. queue' \in Seq(Threads) /\ (x \notin ToSet(queue) => IsInjective(queue')) /\ ToSet(queue') = ToSet(queue) \cup {x}
  <2> DEFINE free == head.unlocking
  <2>1. queue \in Seq(Threads) /\ IsInjective(queue) /\ queue' = Enqueue(queue, x, how, None, FALSE, free)
    BY <1>4 DEF CInv, Lists
  <2> HIDE DEF free
  <2> QED
    BY ONLY <1>8, <2>1, EnqueueKeeps
<1>10. head'.unlocking <=> head.unlocking
  BY <1>4
<1> QED
  BY ONLY MInv, CInv, t \in Threads, <1>2, <1>4, <1>5, <1>6, <1>7, <1>9, <1>10, Transferred

-----------------------------------------------------------------------------
(* Unlockers that search and wake.                                         *)

\* Among those that have not been searched, only waiters are found.
LEMMA AbleIs ==
  ASSUME queue \in Seq(Threads), NEW oldh
  PROVE  LET from == IF oldh = None THEN 1 ELSE Position(queue, oldh) + 1
             able == Only(SubSeq(queue, from, Len(queue)), {x \in Threads : Eligible(x)})
         IN  able \in Seq(Threads) /\ ToSet(able) \subseteq ToSet(queue)
<1> DEFINE from == IF oldh = None THEN 1 ELSE Position(queue, oldh) + 1
           walk == SubSeq(queue, from, Len(queue))
           S == {x \in Threads : Eligible(x)}
           able == Only(walk, S)
<1>1. Len(queue) \in Nat
  BY SeqFacts
<1>2. Position(queue, oldh) \in 0..Len(queue)
  BY PositionIs
<1>3. from \in 1..Len(queue) + 1 /\ Len(queue) \in 0..Len(queue)
  BY <1>1, <1>2
<1> HIDE DEF from
<1>4. walk \in Seq(Threads) /\ \A x : x \in ToSet(walk) <=> \E i \in 1..Len(queue) : from =< i /\ i =< Len(queue) /\ queue[i] = x
  BY <1>3, SubSeqIs
<1> HIDE DEF walk, S
<1>5. able \in Seq(Threads) /\ ToSet(able) = ToSet(walk) \cap S
  BY <1>4, OnlyIs
<1> HIDE DEF able
<1>6. ToSet(able) \subseteq ToSet(queue)
  BY <1>4, <1>5, SeqFacts
<1> QED
  BY <1>5, <1>6 DEF able, walk, from, S

LEMMA SearchKeepsLists ==
  ASSUME MInv, CInv, NEW t \in Threads, Search(t) PROVE CInv'
<1> USE MutexAssumption
<1> DEFINE l == loc[t]
           oldh == l.oldh
           from == IF oldh = None THEN 1 ELSE Position(queue, oldh) + 1
           walk == SubSeq(queue, from, Len(queue))
           able == Only(walk, {x \in Threads : Eligible(x)})
           first == IF l.w # None \/ able = <<>> THEN l.w ELSE able[1]
           at == Position(queue, first)
<1>1. Before(t)
  BY BeforeStep
<1>2. loc[t].pc = "list" /\ loc[t].mode # "cv" /\ ~NotLastReader(t) /\ ~EasyWriter /\ UNCHANGED <<queue, cv, data>>
      /\ mu_' = loc[t].v /\ head' = [head EXCEPT !.unlocking = TRUE]
  BY DEF Search, MustSearch, At
<1>3. /\ queue # <<>> /\ queue \in Seq(Threads) /\ IsInjective(queue)
      /\ loc[t].fer = <<>> /\ loc[t].wakes = <<>>
      /\ mu_.desig <=> loc[t].v.desig
      /\ DOMAIN loc[t].v = BitFields
  BY <1>2, AtListIs
<1>4. \A u \in Threads \ {t} : loc[u].oldh = None
  BY <1>2, AtListIs
<1>5. PICK wrw : loc' = [loc EXCEPT ![t].pc = "us", ![t].oldh = Last(queue), ![t].w = first,
                      ![t].v = Free,
                      ![t].pw = IF l.w = None /\ able # <<>> /\ at > 1 THEN queue[at - 1] ELSE @,
                      ![t].wrw = wrw]
  BY DEF Search, Position
<1> HIDE DEF oldh
<1>6. able \in Seq(Threads) /\ ToSet(able) \subseteq ToSet(queue)
  BY <1>3, AbleIs
<1> HIDE DEF able, first
<1>7. at \in 0..Len(queue) /\ (first \in ToSet(queue) => at \in 1..Len(queue) /\ queue[at] = first)
  BY <1>3, PositionIs
<1> HIDE DEF at
<1>8. /\ Alone(t) /\ loc'[t].pc = "us" /\ loc'[t].oldh = Last(queue) /\ loc'[t].w = first
      /\ loc'[t].pw = IF l.w = None /\ able # <<>> /\ at > 1 THEN queue[at - 1] ELSE l.pw
      /\ loc'[t].fer = <<>> /\ loc'[t].wakes = <<>> /\ loc'[t].op = loc[t].op /\ loc'[t].mode = loc[t].mode
      /\ loc'[t].timed = loc[t].timed
  BY <1>1, <1>3, <1>5 DEF Before, Alone, LocFields
<1>9. \A u \in Threads : synch'[u].how = synch[u].how /\ synch'[u].cond = synch[u].cond /\ synch'[u].queued = synch[u].queued
  <2>1. PICK seen, woken :
          synch' = [x \in Threads |-> IF x \in seen THEN [synch[x] EXCEPT !.wake = x \in woken] ELSE synch[x]]
    BY ONLY Search(t), Zenon DEF Search
  <2> QED
    BY <1>1, <2>1 DEF Before, SynchFields
<1>10. ~CvWait(t) /\ ~MuWait(t) /\ ~Resting(t) /\ ~Returning(t)
  BY <1>2 DEF CvWait, MuWait, Resting, Returning, Waking
<1>11. BitsKept(t)
  <2>1. mu_ = [loc[t].v EXCEPT !.spin = TRUE]
    BY <1>2 DEF MInv, Spin
  <2>2. (mu_'.wait <=> mu_.wait) /\ (mu_'.wrwait <=> mu_.wrwait)
    BY <1>2, <1>3, <2>1 DEF BitFields
  <2> QED
    BY <1>2, <1>3, <1>10, <2>2 DEF BitsKept
<1>12. Lists'
  <2>1. HandsKept(t) /\ SynchSame(t) /\ StillWaits(t)
    BY <1>2, <1>3, <1>8, <1>9, <1>10 DEF HandsKept, SynchSame, StillWaits, Waking
  <2> QED
    BY <1>2, <2>1, ListsSimple DEF CInv
<1>13. Bits'
  BY <1>2, <1>11 DEF CInv, Bits, BitsKept
<1>14. Desig'
  <2>1. \A x : InF(t, x)' <=> InF(t, x)
    BY <1>3, <1>8 DEF InF
  <2>2. \A x \in Threads : InQ(x)' \/ InC(x)' \/ (\E u \in Threads : InF(u, x)')
                              => InQ(x) \/ InC(x) \/ \E u \in Threads : InF(u, x)
    BY <1>2, <1>8, <2>1, OthersStay DEF InQ, InC
  <2> QED
    BY <1>8, <1>11, <2>2, DesigSimple DEF CInv
<1>15. Searches'
  <2>1. ASSUME NEW u \in Threads \ {t} PROVE Searched(u)'
    <3>1. loc'[u] = loc[u] /\ loc[u].oldh = None /\ Searched(u)
      BY <1>4, <1>8 DEF Alone, CInv, Searches
    <3> QED
      BY <3>1 DEF Searched
  <2>2. InQ(Last(queue)) /\ Last(queue) \in Threads
    <3>1. Len(queue) \in 1..Len(queue) /\ Last(queue) = queue[Len(queue)]
      BY <1>3, SeqFacts DEF Last
    <3> QED
      BY <1>3, <3>1, SeqFacts DEF InQ
  <2>3. head'.unlocking
    BY <1>1, <1>2 DEF Before
  <2>4. Searched(t)
    BY <1>1 DEF Before
  <2>5. Searched(t)'
    <3>5. CASE loc[t].w # None
      <4>1. loc'[t].w = loc[t].w /\ loc'[t].pw = loc[t].pw
        BY <1>8, <3>5 DEF first
      <4>2. InQ(loc[t].w) /\ Found(t)
        BY <1>2, <2>4, <3>5 DEF Searched
      <4>3. Found(t)'
        BY <1>2, <4>1, <4>2 DEF Found
      <4> QED
        BY <1>2, <1>8, <2>2, <2>3, <3>5, <4>1, <4>2, <4>3 DEF Searched, Releasing, InQ
    <3>6. CASE loc[t].w = None /\ able = <<>>
      <4>1. loc'[t].w = None /\ loc'[t].pw = None
        BY <1>8, <2>4, <3>6 DEF first, Searched
      <4> QED
        BY <1>2, <1>8, <2>2, <2>3, <4>1 DEF Searched, Releasing, InQ
    <3>7. CASE loc[t].w = None /\ able # <<>>
      <4>1. first \in ToSet(able)
        BY <1>6, <3>7, TailIs DEF first
      <4>2. first \in ToSet(queue) /\ at \in 1..Len(queue) /\ queue[at] = first
        BY <1>6, <1>7, <4>1
      <4>3. loc'[t].pw = IF at > 1 THEN queue[at - 1] ELSE None
        BY <1>8, <2>4, <3>7 DEF Searched
      <4>4. at > 1 => queue[at - 1] \in Threads
        BY <1>3, <4>2
      <4>5. Found(t)'
        <5>1. at \in 1..Len(queue') /\ queue'[at] = loc'[t].w
          BY <1>2, <1>8, <4>2
        <5>2. IF loc'[t].pw = None THEN at = 1 ELSE at > 1 /\ queue'[at - 1] = loc'[t].pw
          BY <1>2, <4>2, <4>3, <4>4
        <5> QED
          BY <5>1, <5>2 DEF Found
      <4>6. first \in Threads /\ first # None
        BY <1>3, <4>2, SeqFacts
      <4> QED
        BY <1>2, <1>8, <2>2, <2>3, <4>2, <4>5, <4>6 DEF Searched, Releasing, InQ
    <3> QED
      BY <3>5, <3>6, <3>7
  <2> QED
    BY <2>1, <2>5 DEF Searches
<1>16. Conds'
  <2>1. Cond(t)'
    BY ONLY <1>1, <1>2, <1>8, <1>9, t \in Threads DEF Before, Cond, InCalls, Releasing, Waking
  <2> QED
    BY <1>2, <1>8, <1>9, <2>1, CondsSimple DEF CInv
<1> QED
  BY <1>12, <1>13, <1>14, <1>15, <1>16 DEF CInv

\* Whom an unlocker wakes: waiters, at least one.
LEMMA WakesAre ==
  ASSUME MInv, CInv, NEW t \in Threads, UnlockWake(t)
  PROVE  \E wakes, q \in Seq(Threads) : \E wrw :
           /\ wakes # <<>> /\ IsInjective(wakes) /\ ToSet(wakes) \subseteq ToSet(queue)
           /\ IsInjective(q) /\ \A x \in Threads : x \in ToSet(q) <=> x \in ToSet(queue) /\ x \notin ToSet(wakes)
           /\ queue' = Requeued(t, q, head.unlocking)
           /\ mu_' = WakingWord(queue', wrw)
           /\ loc' = [loc EXCEPT ![t] = After(loc[t], wakes)]
<1>1. loc[t].pc = "list"
  BY DEF UnlockWake, At
<1>2. queue # <<>> /\ queue \in Seq(Threads) /\ IsInjective(queue)
  BY <1>1, AtListIs
<1> DEFINE w == IF EasyWriter THEN queue[1] ELSE loc[t].w
           i == Position(queue, w)
           suffix == SubSeq(queue, i, Len(queue))
           marked == {w} \cup {x \in ToSet(queue) : synch[x].wake}
           wakes == Wakeable(suffix, marked)
           S == Threads \ ToSet(wakes)
           q == Only(queue, S)
           wrw == loc[t].wrw \/ EasyWriter
<1>3. /\ queue' = Requeued(t, q, head.unlocking)
      /\ mu_' = WakingWord(queue', wrw)
      /\ loc' = [loc EXCEPT ![t] = After(loc[t], wakes)]
  BY DEF UnlockWake, Position
<1>4. w \in ToSet(queue)
  <2>1. CASE EasyWriter
    BY <1>2, <2>1, TailIs
  <2>2. CASE ~EasyWriter
    <3>1. loc[t].w # None
      BY <2>2 DEF UnlockWake, Known
    <3> QED
      BY <2>2, <3>1 DEF CInv, Searches, Searched, InQ
  <2> QED
    BY <2>1, <2>2
<1> HIDE DEF w
<1>5. Len(queue) \in Nat /\ i \in 1..Len(queue) /\ queue[i] = w
  BY <1>2, <1>4, PositionIs, SeqFacts
<1> HIDE DEF i
<1>6. i \in 1..Len(queue) + 1 /\ Len(queue) \in 0..Len(queue) /\ i =< i /\ i =< Len(queue)
  BY <1>5
<1>7. /\ suffix \in Seq(Threads) /\ IsInjective(suffix)
      /\ \A x : x \in ToSet(suffix) <=> \E k \in 1..Len(queue) : i =< k /\ k =< Len(queue) /\ queue[k] = x
  BY <1>2, <1>6, SubSeqIs
<1> HIDE DEF suffix
<1>8. w \in ToSet(suffix) \cap marked /\ ToSet(suffix) \subseteq ToSet(queue)
  <2>1. \A k \in 1..Len(queue) : queue[k] \in ToSet(queue)
    BY <1>2, SeqFacts
  <2> QED
    BY <1>5, <1>6, <1>7, <2>1
<1> HIDE DEF marked
<1>9. wakes \in Seq(Threads) /\ IsInjective(wakes) /\ wakes # <<>> /\ ToSet(wakes) \subseteq ToSet(suffix) \cap marked
  <2>1. ToSet(suffix) \cap marked # {}
    BY <1>8
  <2> QED
    BY <1>7, <2>1, WakeableIs
<1> HIDE DEF wakes, S
<1>10. q \in Seq(Threads) /\ IsInjective(q) /\ ToSet(q) = ToSet(queue) \cap S
  BY <1>2, OnlyIs
<1>11. \A x \in Threads : x \in ToSet(q) <=> x \in ToSet(queue) /\ x \notin ToSet(wakes)
  BY <1>10 DEF S
<1> HIDE DEF q, wrw
<1>12. ToSet(wakes) \subseteq ToSet(queue)
  BY <1>8, <1>9
<1> QED
  BY ONLY <1>3, <1>9, <1>10, <1>11, <1>12

LEMMA UnlockWakeKeepsLists ==
  ASSUME MInv, CInv, NEW t \in Threads, UnlockWake(t) PROVE CInv'
<1>1. Before(t)
  BY BeforeStep
<1>2. loc[t].pc = "list" /\ loc[t].mode \in {"unlock", "requeue", "cv"} /\ UNCHANGED <<cv, data>>
      /\ ~NotLastReader(t) /\ synch' = SynchRequeued(t)
  BY <1>1 DEF UnlockWake, At, Before, Releasing
<1>3. queue \in Seq(Threads) /\ IsInjective(queue)
  BY <1>2, AtListIs
<1>4. \A u \in Threads \ {t} : loc[u].oldh = None
  BY <1>2, AtListIs
<1>0. PICK wakes \in Seq(Threads), q \in Seq(Threads) : \E wrw :
        /\ wakes # <<>> /\ IsInjective(wakes) /\ ToSet(wakes) \subseteq ToSet(queue)
        /\ IsInjective(q) /\ \A x \in Threads : x \in ToSet(q) <=> x \in ToSet(queue) /\ x \notin ToSet(wakes)
        /\ queue' = Requeued(t, q, head.unlocking)
        /\ mu_' = WakingWord(queue', wrw)
        /\ loc' = [loc EXCEPT ![t] = After(loc[t], wakes)]
  BY WakesAre
<1>5. PICK wrw :
        /\ wakes # <<>> /\ IsInjective(wakes) /\ ToSet(wakes) \subseteq ToSet(queue)
        /\ IsInjective(q) /\ \A x \in Threads : x \in ToSet(q) <=> x \in ToSet(queue) /\ x \notin ToSet(wakes)
        /\ queue' = Requeued(t, q, head.unlocking)
        /\ mu_' = WakingWord(queue', wrw)
        /\ loc' = [loc EXCEPT ![t] = After(loc[t], wakes)]
  BY <1>0
<1>7. /\ Alone(t) /\ Local(t)' /\ StillWaits(t)
      /\ CvWait(t) <=> loc[t].mode = "cv"
      /\ ~MuWait(t) /\ (MuWait(t)' <=> loc[t].mode = "requeue")
      /\ \A x : ~InF(t, x) /\ ~InF(t, x)' /\ ~InH(t, x) /\ (InH(t, x)' <=> x \in ToSet(wakes))
      /\ loc'[t].oldh = None /\ loc'[t].w = None /\ loc'[t].pw = None
      /\ synch'[t].cond = synch[t].cond => Cond(t)'
  BY <1>1, <1>2, <1>5, AfterGoes
<1>8. loc'[t].pc = "wakeNext" /\ loc'[t].mode = AfterMode(loc[t].mode)
  BY <1>1, <1>2, <1>5, AfterIs
<1>9. loc[t].mode = "requeue" => ~InQ(t) /\ ~InC(t) /\ \A u \in Threads : ~InF(u, t) /\ ~InH(u, t)
  BY <1>1, <1>7, NotWaiting
<1>10. /\ \A u \in Threads : synch'[u].how = synch[u].how /\ synch'[u].cond = synch[u].cond
       /\ \A u \in Threads \ {t} : synch'[u].queued = synch[u].queued
       /\ IF loc[t].mode = "requeue" THEN synch'[t].queued ELSE synch'[t].queued = synch[t].queued
  <2>1. CASE loc[t].mode = "requeue"
    <3> DEFINE how == synch[t].how
               cond == synch[t].cond
    <3>1. synch' = [synch EXCEPT ![t] = Queued(@, how, cond)]
      BY <1>2, <2>1 DEF SynchRequeued
    <3>2. synch'[t].queued /\ synch'[t].how = how /\ synch'[t].cond = cond
          /\ \A u \in Threads \ {t} : synch'[u] = synch[u]
      BY <1>1, <3>1, QueuedIs DEF Before
    <3> QED
      BY <2>1, <3>2
  <2>2. CASE loc[t].mode # "requeue"
    BY <1>2, <2>2 DEF SynchRequeued
  <2> QED
    BY <2>1, <2>2
<1>11. /\ queue' \in Seq(Threads) /\ IsInjective(queue')
       /\ \A x \in Threads : InQ(x)' <=> (InQ(x) /\ x \notin ToSet(wakes)) \/ (loc[t].mode = "requeue" /\ x = t)
  <2>1. CASE loc[t].mode = "requeue"
    <3> DEFINE how == synch[t].how
               cond == synch[t].cond
               free == head.unlocking
               no == FALSE
               r == Enqueue(q, t, how, cond, no, free)
    <3>1. queue' = r
      BY <1>5, <2>1 DEF Requeued
    <3> HIDE DEF how, cond, free, no
    <3>2. t \notin ToSet(q)
      BY <1>5, <1>9, <2>1 DEF InQ
    <3>3. r \in Seq(Threads)
      BY EnqueueIs
    <3>4. ToSet(r) = ToSet(q) \cup {t}
      BY EnqueueIs
    <3>5. IsInjective(q) /\ t \notin ToSet(q) => IsInjective(r)
      BY EnqueueIs
    <3> HIDE DEF r
    <3> QED
      BY <1>5, <2>1, <3>1, <3>2, <3>3, <3>4, <3>5 DEF InQ
  <2>2. CASE loc[t].mode # "requeue"
    <3>1. queue' = q
      BY <1>5, <2>2 DEF Requeued
    <3> QED
      BY <1>5, <2>2, <3>1 DEF InQ
  <2> QED
    BY <2>1, <2>2
<1>12. \A x : InC(x)' <=> InC(x)
  BY <1>2 DEF InC
<1>13. ASSUME NEW x \in Threads, x \in ToSet(wakes)
       PROVE  /\ ~InQ(x)' /\ ~InC(x)' /\ (\A u \in Threads : ~InF(u, x)') /\ Resting(x)'
              /\ Apart(x)' /\ Placed(x)'
  <2>1. InQ(x)
    BY <1>5, <1>13 DEF InQ
  <2>2. ~InC(x) /\ (\A u \in Threads : ~InF(u, x) /\ ~InH(u, x)) /\ synch[x].queued /\ (CvWait(x) \/ MuWait(x))
    BY <2>1 DEF CInv, Lists, Apart, Placed
  <2>3. loc[t].mode = "requeue" => x # t
    BY <1>9, <2>1
  <2>4. ~InQ(x)' /\ ~InC(x)'
    BY <1>11, <1>12, <1>13, <2>2, <2>3
  <2>5. \A u \in Threads : (InH(u, x)' => u = t) /\ ~InF(u, x)'
    BY <1>7, <2>2, OthersStay
  <2>6. Resting(x)'
    <3>1. CASE x = t
      <4>1. loc[t].mode = "cv"
        BY <1>7, <2>2, <3>1
      <4> QED
        BY <1>8, <3>1, <4>1 DEF Resting, AfterMode, Waking
    <3>2. CASE x # t
      <4>1. loc[x].pc \notin {"list", "nolist"}
        BY <1>2, <3>2 DEF MInv, Spin, Spinning
      <4>2. Resting(x)
        BY <2>2, <4>1 DEF CvWait, Resting
      <4> QED
        BY <1>7, <3>2, <4>2, OthersStay
    <3> QED
      BY <3>1, <3>2
  <2>7. CvWait(x)' \/ MuWait(x)'
    BY <2>6 DEF Resting, CvWait
  <2>8. synch'[x].queued
    BY <1>10, <2>2, <2>3
  <2>9. InH(t, x)'
    BY <1>7, <1>13
  <2>10. Apart(x)' /\ Placed(x)'
    BY <2>4, <2>5, <2>7, <2>8, <2>9, InHand
  <2> QED
    BY <2>4, <2>5, <2>6, <2>10
<1>14. Lists'
  <2>1. cv' \in Seq(Threads) /\ IsInjective(cv')
    BY <1>2 DEF CInv, Lists
  <2>2. ASSUME loc[t].mode = "requeue" PROVE Apart(t)' /\ Placed(t)'
    <3>1. InQ(t)' /\ ~InC(t)' /\ MuWait(t)' /\ synch'[t].queued
      BY <1>7, <1>9, <1>10, <1>11, <1>12, <2>2
    <3>2. \A u \in Threads : ~InF(u, t)' /\ ~InH(u, t)'
      <4>1. t \notin ToSet(wakes)
        BY <1>5, <1>9, <2>2 DEF InQ
      <4> QED
        BY <1>7, <1>9, <2>2, <4>1, OthersStay
    <3> QED
      BY <1>9, <2>2, <3>1, <3>2, OnQueue
  <2>3. PICK S : S = ToSet(wakes) \cup IF loc[t].mode = "requeue" THEN {t} ELSE {}
    OBVIOUS
  <2>4. \A x \in Threads \ S :
           /\ (InQ(x)' <=> InQ(x)) /\ (InC(x)' <=> InC(x))
           /\ (InF(t, x)' <=> InF(t, x)) /\ (InH(t, x)' <=> InH(t, x))
           /\ (synch'[x].queued <=> synch[x].queued) /\ StillWaits(x)
    <3> TAKE x \in Threads \ S
    <3>1. x \notin ToSet(wakes) /\ ~(loc[t].mode = "requeue" /\ x = t)
      BY <2>3
    <3>2. StillWaits(x)
      BY <1>7, OthersStay
    <3>3. synch'[x].queued <=> synch[x].queued
      BY <1>10, <3>1
    <3> QED
      BY <1>7, <1>11, <1>12, <3>1, <3>2, <3>3
  <2>5. \A x \in Threads \cap S : Apart(x)' /\ Placed(x)'
    BY <1>13, <2>2, <2>3
  <2> QED
    BY <1>7, <1>11, <2>1, <2>4, <2>5, Regroup DEF CInv
<1>15. Bits'
  BY <1>5 DEF WakingWord, Free, Bits
<1>16. Desig'
  <2>1. wakes[1] \in Threads /\ wakes[1] \in ToSet(wakes)
    BY <1>5, TailIs
  <2>2. PICK x \in Threads : x \in ToSet(wakes)
    BY <2>1
  <2>3. ~InQ(x)' /\ ~InC(x)' /\ (\A u \in Threads : ~InF(u, x)') /\ Resting(x)'
    BY <1>13, <2>2
  <2>4. Awake(x)'
    BY <2>3 DEF Awake, Resting
  <2> QED
    BY <2>4 DEF Desig
<1>17. Searches'
  BY <1>4, <1>7, SearchesNone DEF CInv
<1>18. Conds'
  BY <1>2, <1>7, <1>10, CondsSimple DEF CInv
<1> QED
  BY <1>14, <1>15, <1>16, <1>17, <1>18 DEF CInv

-----------------------------------------------------------------------------
(* The invariant and what follows from it.                                 *)

LEMMA CInvInit == Init => CInv
<1> SUFFICES ASSUME Init PROVE CInv
  OBVIOUS
<1>1. mu_ = Free /\ queue = <<>> /\ cv = <<>> /\ loc = [t \in Threads |-> Idle]
      /\ synch = [t \in Threads |-> [queued |-> FALSE, next |-> FALSE, wake |-> FALSE,
                                     sem |-> 0, how |-> W, cond |-> None]]
  BY DEF Init
<1>2. \A t \in Threads : /\ loc[t].pc = "run" /\ loc[t].op = "none" /\ loc[t].fer = <<>> /\ loc[t].wakes = <<>>
                         /\ loc[t].oldh = None /\ loc[t].w = None /\ loc[t].pw = None /\ ~synch[t].queued
  BY <1>1, IdleIs
<1>3. \A T : <<>> \in Seq(T) /\ IsInjective(<<>>) /\ \A x : x \notin ToSet(<<>>)
  BY NoneIs
<1>4. \A x \in Threads : ~InQ(x) /\ ~InC(x) /\ \A t \in Threads : ~InF(t, x) /\ ~InH(t, x)
  BY <1>1, <1>2, <1>3 DEF InQ, InC, InF, InH, Hands
<1>5. ASSUME NEW t \in Threads PROVE Local(t) /\ Apart(t) /\ Placed(t)
  <2>1. Local(t)
    BY <1>2, <1>3 DEF Local, Waking
  <2>2. Apart(t) /\ Placed(t)
    BY <1>2, <1>4 DEF Apart, Placed
  <2> QED
    BY <2>1, <2>2
<1>6. Lists
  BY <1>1, <1>3, <1>5 DEF Lists
<1>7. Bits /\ Desig
  BY <1>1 DEF Bits, Desig, Free
<1>8. Searches
  BY <1>2 DEF Searches, Searched
<1>9. Conds
  BY <1>2 DEF Conds, Cond, Sure
<1> QED
  BY <1>6, <1>7, <1>8, <1>9 DEF CInv

LEMMA CInvStep == MInv /\ CInv /\ [Next]_vars => CInv'
<1> SUFFICES ASSUME MInv, CInv, [Next]_vars PROVE CInv'
  OBVIOUS
<1>1. ASSUME NEW t \in Threads,
             \/ LockAny(t) \/ TryLock(t) \/ TryLockFails(t) \/ LoopAcquire(t)
             \/ LoopIncrement(t) \/ Increment(t) \/ LoopQueue(t) \/ BlockEnd(t) \/ Decrement(t)
             \/ TryRemove(t) \/ TryRemoveNot(t) \/ Removed(t) \/ Await(t) \/ Write(t)
      PROVE  Simple(t)
  BY <1>1, LockAnySimple, TryLockSimple, TryLockFailsSimple, LoopAcquireSimple, LoopIncrementSimple,
     IncrementSimple, LoopQueueSimple, BlockEndSimple, DecrementSimple, TryRemoveSimple, TryRemoveNotSimple,
     RemovedSimple, AwaitSimple, WriteSimple
<1>2. ASSUME NEW t \in Threads,
             \/ Unlock(t) \/ Release(t) \/ UnlockFast(t) \/ UnlockSpin(t) \/ Wait(t) \/ UnlockToCv(t)
             \/ Trans(t) \/ FerSpin(t) \/ Signalled(t) \/ BlockTimeout(t)
      PROVE  Simple(t)
  BY <1>2, UnlockSimple, ReleaseSimple, UnlockFastSimple, UnlockSpinSimple, WaitSimple, UnlockToCvSimple,
     TransSimple, FerSpinSimple, SignalledSimple, BlockTimeoutSimple
<1>3. ASSUME NEW t \in Threads, MutexStep(t) PROVE CInv'
  BY <1>1, <1>2, <1>3, SimpleKeeps, LoopFirstWaiterKeepsLists, LoopEnqueueKeepsLists, UnlinkKeepsLists,
     UnlockAloneKeepsLists, UnlockReaderKeepsLists, UnlockNobodyKeepsLists, SearchKeepsLists,
     UnlockWakeKeepsLists, WakeNextKeepsLists, WakeStateKeepsLists, WakePostKeepsLists
  DEF MutexStep
<1>4. ASSUME NEW t \in Threads, CondVarStep(t) PROVE CInv'
  BY <1>2, <1>3, <1>4, SimpleKeeps, CondVarEnqueueKeepsLists, SignalKeepsLists, FerWakeKeepsLists,
     FerAloneKeepsLists, FerQueueKeepsLists
  DEF CondVarStep
<1>5. ASSUME NEW t \in Threads, Timeout(t) \/ BlockTimeout(t) PROVE CInv'
  BY <1>2, <1>5, SimpleKeeps, TimeoutKeepsLists
<1>6. CASE UNCHANGED vars
  <2>1. UNCHANGED <<mu_, queue, head, synch, loc, data, cv>> /\ Lists /\ Bits /\ Desig /\ Searches /\ Conds
    BY <1>6 DEF vars, CInv
  <2>2. Lists'
    BY ONLY <2>1 DEF Lists, Local, Apart, Placed, InQ, InC, InF, InH, Hands, CvWait, MuWait
  <2>3. Searches'
    BY ONLY <2>1 DEF Searches, Searched, Found, EasyWriter, InQ
  <2>4. Bits'
    BY ONLY <2>1 DEF Bits
  <2>5. Desig'
    BY ONLY <2>1 DEF Desig, Awake, MuWait, InQ, InC, InF
  <2>6. Conds'
    BY ONLY <2>1 DEF Conds, Cond
  <2> QED
    BY <2>2, <2>3, <2>4, <2>5, <2>6 DEF CInv
<1> QED
  BY <1>4, <1>5, <1>6 DEF Next

\* The invariant: the lists, the bits that say whether there is one, the designated
\* waker, searches that are under way and the conditions of calls.
THEOREM ListsAreSound == Spec => []CInv
BY CInvInit, CInvStep, Invariance, PTL DEF Spec

\* How many there are if there is one at most.
LEMMA CountOfOne ==
  ASSUME NEW S, \A a, b \in S : a = b
  PROVE  Cardinality(S) = IF S = {} THEN 0 ELSE 1
<1>1. CASE S = {}
  BY <1>1, FS_EmptySet
<1>2. CASE S # {}
  <2>1. PICK a : S = {a}
    BY <1>2
  <2>2. Cardinality({a}) = 1
    BY FS_Singleton
  <2> QED
    BY ONLY <1>2, <2>1, <2>2
<1> QED
  BY <1>1, <1>2

LEMMA CountIs ==
  ASSUME NEW s \in Seq(Threads), IsInjective(s), NEW x
  PROVE  Count(x, s) = IF x \in ToSet(s) THEN 1 ELSE 0
<1> DEFINE S == {i \in 1..Len(s) : s[i] = x}
<1>1. \A a, b \in S : a = b
  BY SeqFacts
<1>2. S = {} <=> x \notin ToSet(s)
  BY SeqFacts
<1>3. Count(x, s) = Cardinality(S)
  BY DEF Count
<1> HIDE DEF S
<1> QED
  BY <1>1, <1>2, <1>3, CountOfOne

LEMMA ListsCount ==
  ASSUME Lists, NEW x \in Threads
  PROVE  Listed(x) = IF synch[x].queued THEN 1 ELSE 0
<1> DEFINE F == {t \in Threads : Contains(loc[t].fer, x)}
           H == {t \in Threads : \E i \in 1..Len(loc[t].wakes) : loc[t].wakes[i] = x
                                   /\ (i > 1 \/ ~At(t, "wakePost"))}
<1>1. Apart(x) /\ Placed(x)
  BY DEF Lists
<1>2. F = {t \in Threads : InF(t, x)}
  BY ContainsIs DEF InF
<1>3. ASSUME NEW t \in Threads PROVE t \in H <=> InH(t, x)
  <2>1. loc[t].wakes \in Seq(Threads) /\ IsInjective(loc[t].wakes) /\ (loc[t].pc \in Waking => loc[t].wakes # <<>>)
    BY DEF Lists, Local
  <2> DEFINE s == loc[t].wakes
  <2>2. s \in Seq(Threads) /\ Len(s) \in Nat /\ (\A i, j \in 1..Len(s) : s[i] = s[j] => i = j)
        /\ (x \in ToSet(s) <=> \E i \in 1..Len(s) : s[i] = x)
    BY <2>1, SeqFacts
  <2>3. CASE loc[t].pc = "wakePost"
    <3>1. s # <<>> /\ 1 \in 1..Len(s)
      BY <2>1, <2>3, <2>2, SeqFacts DEF Waking
    <3>2. x \in ToSet(Tail(s)) <=> x \in ToSet(s) /\ x # s[1]
      BY <2>1, <3>1, TailIs
    <3>3. x \in ToSet(Tail(s)) <=> \E i \in 1..Len(s) : s[i] = x /\ i > 1
      <4> HIDE DEF s
      <4>1. \A i \in 1..Len(s) : i > 1 \/ i = 1
        BY <2>2
      <4>2. ~(1 > 1)
        OBVIOUS
      <4> QED
        BY <2>2, <3>1, <3>2, <4>1, <4>2
    <3> QED
      BY <2>3, <3>3 DEF InH, Hands, At
  <2>4. CASE loc[t].pc # "wakePost"
    BY <2>2, <2>4 DEF InH, Hands, At
  <2> QED
    BY <2>3, <2>4
<1>4. Listed(x) = Count(x, queue) + Count(x, cv) + Cardinality(F) + Cardinality(H)
  BY DEF Listed
<1> HIDE DEF F, H
<1>5. Cardinality(F) = IF F = {} THEN 0 ELSE 1
  <2>1. \A t, u \in F : t = u
    BY <1>1, <1>2 DEF Apart
  <2> QED
    BY <2>1, CountOfOne
<1>6. H \subseteq Threads /\ Cardinality(H) = IF H = {} THEN 0 ELSE 1
  <2>0. H \subseteq Threads
    BY DEF H
  <2>1. \A t, u \in H : t = u
    BY <1>1, <1>3, <2>0 DEF Apart
  <2> QED
    BY <2>0, <2>1, CountOfOne
<1>7. Count(x, queue) = (IF InQ(x) THEN 1 ELSE 0) /\ Count(x, cv) = IF InC(x) THEN 1 ELSE 0
  BY CountIs DEF Lists, InQ, InC
<1>8. (F = {} <=> \A t \in Threads : ~InF(t, x)) /\ (H = {} <=> \A t \in Threads : ~InH(t, x))
  BY <1>2, <1>3, <1>6
<1>9. synch[x].queued <=> InQ(x) \/ InC(x) \/ F # {} \/ H # {}
  BY <1>1, <1>8 DEF Placed
<1>10. ~(InQ(x) /\ InC(x)) /\ (F # {} \/ H # {} => ~InQ(x) /\ ~InC(x)) /\ ~(F # {} /\ H # {})
  BY <1>1, <1>8 DEF Apart
<1> QED
  BY ONLY <1>4, <1>5, <1>6, <1>7, <1>9, <1>10

LEMMA NobodyForgotten == MInv /\ CInv => NoWaiterIsForgotten
<1> SUFFICES ASSUME MInv, CInv PROVE NoWaiterIsForgotten
  OBVIOUS
<1>1. ListedOnce
  BY ListsCount DEF CInv, ListedOnce
<1>2. DesignatedWakerExists
  BY ContainsIs DEF CInv, Desig, Awake, MuWait, InQ, InC, DesignatedWakerExists, At, pc, Waking
<1>3. NotCorrupt
  BY DEF MInv, Word, CInv, Bits, NotCorrupt
<1>4. StoreLosesNothing
  BY DEF MInv, Spin, StoreLosesNothing, At
<1>5. SearchStaysValid
  <2> SUFFICES ASSUME NEW t \in Threads, loc[t].pc = "list"
               PROVE  /\ loc[t].oldh # None => head.unlocking /\ Contains(queue, loc[t].oldh)
                      /\ loc[t].w # None /\ ~EasyWriter =>
                           LET i == Position(queue, loc[t].w)
                           IN  i > 0 /\ (IF loc[t].pw = None THEN i = 1 ELSE i > 1 /\ queue[i - 1] = loc[t].pw)
    BY DEF SearchStaysValid, Position, At
  <2>1. Searched(t)
    BY DEF CInv, Searches
  <2>2. ASSUME loc[t].w # None, ~EasyWriter
        PROVE  LET i == Position(queue, loc[t].w)
               IN  i > 0 /\ (IF loc[t].pw = None THEN i = 1 ELSE i > 1 /\ queue[i - 1] = loc[t].pw)
    <3>1. queue \in Seq(Threads) /\ Len(queue) \in Nat /\ \A i, j \in 1..Len(queue) : queue[i] = queue[j] => i = j
      BY SeqFacts DEF CInv, Lists
    <3>2. PICK k \in 1..Len(queue) :
            queue[k] = loc[t].w /\ IF loc[t].pw = None THEN k = 1 ELSE k > 1 /\ queue[k - 1] = loc[t].pw
      BY <2>1, <2>2 DEF Searched, Found
    <3>3. loc[t].w \in ToSet(queue)
      BY <2>1, <2>2 DEF Searched, InQ
    <3>4. PICK w : w = loc[t].w
      OBVIOUS
    <3>5. Position(queue, w) \in 1..Len(queue) /\ queue[Position(queue, w)] = w
      BY <3>1, <3>3, <3>4, PositionIs
    <3>6. Position(queue, w) = k
      BY <3>1, <3>2, <3>4, <3>5
    <3> QED
      BY <3>1, <3>2, <3>4, <3>6
  <2> QED
    BY <2>1, <2>2, ContainsIs DEF Searched, InQ
<1> QED
  BY <1>1, <1>2, <1>3, <1>4, <1>5 DEF NoWaiterIsForgotten

\* NoWaiterIsForgotten: every waiter is on exactly one list, a designated waker is
\* awake, the bits of the word agree with the queue, and what an unlocker has found
\* is where it was when it uses it. Of any number of threads and any legal programs.
THEOREM WaitersAreRemembered == Spec => []NoWaiterIsForgotten
BY Invariance, ListsAreSound, NobodyForgotten, PTL

\* ConditionHoldsOnReturn: LockWhen, ReaderLockWhen and Await return with the lock
\* and with their condition true, and those with a deadline tell whether it is.
THEOREM ConditionsHold == Spec => []ConditionHoldsOnReturn
<1>1. CInv => ConditionHoldsOnReturn
  BY DEF CInv, Conds, Cond, Sure, ConditionHoldsOnReturn, At
<1> QED
  BY <1>1, ListsAreSound, PTL
================================================================================
